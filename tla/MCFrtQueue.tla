------------------------------ MODULE MCFrtQueue ------------------------------
(***************************************************************************)
(* Small instances of FrtQueue for TLC.                                       *)
(***************************************************************************)
EXTENDS FrtQueue

CONSTANTS t1, t2, t3, a, b

Call(op, pos, wait) == [op |-> op, pos |-> pos, wait |-> wait]

MCLists == {"rx", "tx"}
MCPrio == t1 :> 3 @@ t2 :> 2 @@ t3 :> 1

\* Two readers, one of which may only look, and a sender below them; an interrupt
\* sends too.
Readers == [length |-> 2, items |-> {a, b}, isr |-> {"back"},
            calls |-> t1 :> {Call("receive", "back", 2), Call("peek", "back", 3)}
                   @@ t2 :> {Call("receive", "back", 3)}
                   @@ t3 :> {Call("send", "front", 2)}]

\* Two senders; interrupts take the items, and send some.
Senders == [length |-> 1, items |-> {a}, isr |-> {"back", "receive"},
            calls |-> t1 :> {Call("send", "back", 3)}
                   @@ t2 :> {Call("send", "front", 2)} @@ t3 :> {}]

\* A mailbox: one item that is overwritten.
Mailbox == [length |-> 1, items |-> {a, b}, isr |-> {"back", "overwrite"},
            calls |-> t1 :> {Call("receive", "back", 2), Call("peek", "back", 1)} @@ t2 :> {}
                   @@ t3 :> {Call("send", "overwrite", 0), Call("reset", "back", 0)}]

MCUses == {Readers, Senders, Mailbox}
===============================================================================
