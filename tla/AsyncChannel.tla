----------------------------- MODULE AsyncChannel -----------------------------
(***************************************************************************)
(* What a clock-domain crossing promises its two sides: a queue between a   *)
(* writer and a reader that have no clock in common.  Nothing is lost,       *)
(* duplicated, reordered or invented, at most Capacity words are under way,  *)
(* and a word that is shown to the reader is the oldest one and stays until  *)
(* the reader takes it.  CdcTxRx implements it.                             *)
(***************************************************************************)
EXTENDS Integers, Sequences

CONSTANTS Words,      \* payloads
          NoWord,     \* nothing is shown
          Capacity    \* words under way at most

VARIABLES q,      \* words accepted from the writer and not yet taken
          shown   \* what the reader sees: a word or NoWord

chanVars == <<q, shown>>

ChanInit == q = <<>> /\ shown = NoWord

Accept(d) ==
  /\ Len(q) < Capacity
  /\ q' = Append(q, d)
  /\ UNCHANGED shown

Show ==
  /\ q # <<>> /\ shown = NoWord
  /\ shown' = Head(q)
  /\ UNCHANGED q

Take ==
  /\ shown # NoWord
  /\ q' = Tail(q)
  /\ shown' = NoWord

ChanNext == (\E d \in Words : Accept(d)) \/ Show \/ Take

ChanSafety == ChanInit /\ [][ChanNext]_chanVars

\* A word that was accepted is shown, however slow the two clocks are.
ChanSpec == ChanSafety /\ WF_chanVars(Show)

===============================================================================
