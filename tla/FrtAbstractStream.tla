--------------------------- MODULE FrtAbstractStream ---------------------------
(***************************************************************************)
(* What a FreeRTOS stream or message buffer promises (include/stream_buffer.h,   *)
(* message_buffer.h): bytes are read in the order they were written, and a       *)
(* message, stored behind its length, is written and read as a whole.           *)
(***************************************************************************)
EXTENDS Integers, Sequences, SequencesExt

VARIABLES bytes,       \* what the buffer holds
          capacity,    \* how much it can hold
          whole,       \* TRUE: a message buffer
          got          \* what the last read delivered

AbsStreamInit == bytes = <<>> /\ capacity > 0 /\ whole \in BOOLEAN /\ got = <<>>

Write ==
  /\ IsStrictPrefix(bytes, bytes') /\ Len(bytes') <= capacity
  /\ whole => bytes'[Len(bytes) + 1] = Len(bytes') - (Len(bytes) + 1)
  /\ UNCHANGED got

Read(n) ==
  /\ IF whole THEN n = Head(bytes) /\ got' = SubSeq(bytes, 2, n + 1)
     ELSE got' = SubSeq(bytes, 1, n)
  /\ bytes' = SubSeq(bytes, (IF whole THEN n + 2 ELSE n + 1), Len(bytes))

AbsStreamNext ==
  /\ \/ Write
     \/ \E n \in 1 .. Len(bytes) : Read(n)
  /\ UNCHANGED <<capacity, whole>>

AbsStreamSpec == AbsStreamInit /\ [][AbsStreamNext]_<<bytes, capacity, whole, got>>

===============================================================================
