---------------------------- MODULE FrtAbstractQueue ----------------------------
(***************************************************************************)
(* What a FreeRTOS queue promises (include/queue.h): a sequence of at most      *)
(* length items, each posted to the back or to the front, or over the only one, *)
(* and each read from the front, with or without removing it.                  *)
(***************************************************************************)
EXTENDS Integers, Sequences

CONSTANTS Items, NoItem

VARIABLES items,     \* what the queue holds
          length,    \* its capacity
          got        \* the item the last read delivered

AbsQueueInit == items = <<>> /\ length > 0 /\ got = NoItem

PushBack(v) == Len(items) < length /\ items' = Append(items, v) /\ UNCHANGED got
PushFront(v) == Len(items) < length /\ items' = <<v>> \o items /\ UNCHANGED got
Overwrite(v) == length = 1 /\ items' = <<v>> /\ UNCHANGED got
Pop == items # <<>> /\ items' = Tail(items) /\ got' = Head(items)
Peek == items # <<>> /\ UNCHANGED items /\ got' = Head(items)
Reset == items' = <<>> /\ UNCHANGED got

AbsQueueNext ==
  /\ \/ \E v \in Items : PushBack(v) \/ PushFront(v) \/ Overwrite(v)
     \/ Pop \/ Peek \/ Reset
  /\ UNCHANGED length

AbsQueueSpec == AbsQueueInit /\ [][AbsQueueNext]_<<items, length, got>>

===============================================================================
