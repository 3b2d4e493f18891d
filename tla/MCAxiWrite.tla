------------------------------ MODULE MCAxiWrite ------------------------------
(***************************************************************************)
(* Systems for model checking AxiSpltAw.                                      *)
(***************************************************************************)
EXTENDS AxiSpltAw

System(lens, outs, cut, joint) == [lens |-> lens, outs |-> outs, cut |-> cut, joint |-> joint]

\* Queues of two entries with all writes; queues of one that are refilled in the cycle
\* they are emptied; slaves that take addresses and data independently, with no
\* single-beat writes.
MCSystems == {System({1, 2}, 2, TRUE, TRUE), System({1, 2}, 1, FALSE, TRUE),
              System({2}, 2, TRUE, FALSE)}
===============================================================================
