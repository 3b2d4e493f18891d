------------------------------ MODULE MCFrtStream ------------------------------
(***************************************************************************)
(* Small instances of FrtStream for TLC.                                      *)
(***************************************************************************)
EXTENDS FrtStream

CONSTANTS high, low

MCPrio == high :> 2 @@ low :> 1

Use(kind, length, trigger, writer, reader, sizes, rooms, h, l) ==
  [kind |-> kind, length |-> length, trigger |-> trigger, writer |-> writer, reader |-> reader,
   sizes |-> sizes, rooms |-> rooms, waits |-> high :> h @@ low :> l]

\* Two tasks, each side once the one with the higher priority; an interrupt on either
\* side; every kind of buffer, with and without time limits.
MCUses ==
  { Use("stream", 4, 2, low, high, {1, 2}, {1, 3}, {3}, {2, 3}),
    Use("stream", 4, 2, high, low, {2, 4}, {1}, {1}, {2}),
    Use("message", 4, 1, high, low, {1, 2, 3}, {1, 2}, {3}, {0, 3}),
    Use("message", 4, 1, low, high, {1, 2}, {2}, {1}, {2}),
    Use("batching", 4, 1, low, high, {2}, {2, 3}, {3}, {2}),
    Use("batching", 4, 1, Isr, low, {1, 2}, {2}, {}, {0, 2}),
    Use("stream", 4, 2, low, Isr, {2, 3}, {2}, {}, {0, 2}) }
===============================================================================
