------------------------------- MODULE GnrlFifo -------------------------------
(***************************************************************************)
(* e603_gnrl_fifo, and e603_gnrl_pipe_stage that stands in for it at depth  *)
(* 1, as the AXI splitter instantiates them: a queue of at most dp words.   *)
(* With CUT_READY = 0 a queue of depth 1 can be refilled in the cycle in     *)
(* which it is emptied; a deeper queue never can.                           *)
(***************************************************************************)
EXTENDS Integers, Sequences

\* i_rdy of a queue q whose consumer drives o_rdy.
FifoReady(q, dp, cut, o_rdy) ==
  Len(q) < dp \/ (dp = 1 /\ ~cut /\ o_rdy)

\* The queue after the clock edge; the caller has gated i_vld with i_rdy.
FifoNext(q, wen, dat, o_rdy) ==
  LET rest == IF o_rdy /\ q # <<>> THEN Tail(q) ELSE q
  IN IF wen THEN Append(rest, dat) ELSE rest

===============================================================================
