------------------------------- MODULE FrtQueue -------------------------------
(***************************************************************************)
(* A FreeRTOS queue (nuclei-sdk/OS/FreeRTOS/Source/queue.c) used by tasks and    *)
(* interrupts on one core.  Each critical section of xQueueGenericSend,         *)
(* xQueueReceive and xQueuePeek is a step of the calling task, and so is each    *)
(* statement between two of them that touches shared state; interrupts come      *)
(* between any two steps.  Queue sets are not configured.                      *)
(***************************************************************************)
EXTENDS FrtKernel

CONSTANTS Items, NoItem,
          Uses,           \* ways to use a queue: records [length, items, calls, isr]
          MaxCalls,       \* bound: calls of one task
          MaxPended       \* bound: ticks while the scheduler is suspended

\* length: uxLength; items: what is sent; calls: what each task may call, records
\* [op, pos, wait]; isr: what interrupts do, "receive" and places to send to.
ASSUME QueueAssumption ==
  /\ NoItem \notin Items /\ {"rx", "tx"} \subseteq Lists
  /\ \A u \in Uses :
       /\ u.length \in Nat \ {0} /\ u.items \subseteq Items
       /\ \A t \in Tasks : \A c \in u.calls[t] :
            /\ c.op \in {"send", "receive", "peek", "reset"} /\ c.wait \in TickType
            /\ c.pos \in {"back", "front", "overwrite"} /\ (c.pos = "overwrite" => u.length = 1)
       /\ "overwrite" \in u.isr => u.length = 1

VARIABLES use,        \* how the queue is used (never changes)
          k,          \* the kernel
          q,          \* the queue: storage, pcWriteTo, pcReadFrom, uxMessagesWaiting, locks
          me,         \* each task's call: place, parameters, timeout state; age: ticks
                      \* since the call began, as far as its wait (history)
          made,       \* calls a task has made (bound)
          got,        \* item delivered by the last read (history)
          early       \* a call has failed before its time (history)

queueVars == <<use, k, q, me, made, got, early>>

Length == use.length

queueUNLOCKED == -1
NoCall == [pc |-> "idle", op |-> "send", pos |-> "back", item |-> NoItem, want |-> 0,
           left |-> 0, set |-> FALSE, over |-> 0, tick |-> 0, plan |-> "none", seen |-> <<>>,
           age |-> 0]

\* xQueueGenericReset of a new queue.
EmptyQueue == [buf |-> [i \in 0 .. Length - 1 |-> NoItem], w |-> 0, r |-> Length - 1,
               n |-> 0, tx |-> queueUNLOCKED, rx |-> queueUNLOCKED]

\* Tasks that make no calls are suspended from the start.
QueueInit ==
  /\ use \in Uses /\ q = EmptyQueue
  /\ k = [KernelInit EXCEPT !.st = [t \in Tasks |-> IF use.calls[t] = {} THEN "suspended" ELSE "ready"]]
  /\ me = [t \in Tasks |-> NoCall] /\ made = [t \in Tasks |-> 0]
  /\ got = NoItem /\ early = FALSE

(* ------------------------- the ring of the queue ------------------------- *)

Up(i)   == IF i + 1 >= Length THEN 0 ELSE i + 1
Down_no_wrap(i) == IF i = 0 THEN 0 ELSE i - 1
Down(i) == IF i - 1 < 0 THEN Length - 1 ELSE i - 1

prvCopyDataToQueue(v, pos) ==
  IF pos = "back"
  THEN [q EXCEPT !.buf[q.w] = v, !.w = Up(@), !.n = @ + 1]
  ELSE [q EXCEPT !.buf[q.r] = v, !.r = Down(@),
                 !.n = IF pos = "overwrite" /\ @ > 0 THEN @ ELSE @ + 1]

NextItem == q.buf[Up(q.r)]
prvCopyDataFromQueue == [q EXCEPT !.r = Up(@), !.n = @ - 1]

Room(pos) == q.n < Length \/ pos = "overwrite"

(* ------------------------------- the locks ------------------------------- *)

\* prvIncrementQueueTxLock, prvIncrementQueueRxLock
Incremented(lock) == IF lock < Cardinality(Tasks) + 1 THEN lock + 1 ELSE lock

\* One half of prvUnlockQueue: wake a waiter for each item that came (went) while
\* the queue was locked, as long as there are any.
Unlocked(kk, lock, l) ==
  LET m == Min({Max({lock, 0}), Len(kk.ev[l])})
      woken[i \in 0 .. m] == IF i = 0 THEN kk ELSE xTaskRemoveFromEventList(woken[i - 1], l)
  IN woken[m]

(* -------------------------- a task's own steps --------------------------- *)

At(t, pc) == Running(k, t) /\ me[t].pc = pc
Goto(t, pc) == me' = [me EXCEPT ![t].pc = pc]

Return(t) == me' = [me EXCEPT ![t] = NoCall]

Begin(t, c, v) ==
  /\ At(t, "idle") /\ made[t] < MaxCalls
  /\ me' = [me EXCEPT ![t] = [NoCall EXCEPT !.pc = "try", !.op = c.op, !.pos = c.pos,
              !.item = IF c.op = "send" THEN v ELSE NoItem, !.want = c.wait, !.left = c.wait]]
  /\ made' = [made EXCEPT ![t] = @ + 1]
  /\ UNCHANGED <<k, q, got, early>>

\* A task that has nothing left to do suspends itself.
Retire(t) ==
  /\ At(t, "idle") /\ made[t] = MaxCalls /\ k.st[t] = "ready"
  /\ k' = portYIELD([k EXCEPT !.st[t] = "suspended"])
  /\ UNCHANGED <<q, me, made, got, early>>

\* The call has failed; a failure before the time the caller asked for is recorded.
Fail(t) ==
  /\ Return(t)
  /\ early' = (early \/ me[t].want = portMAX_DELAY \/ me[t].age < me[t].want)

\* First critical section: the call succeeds...
SendNow(t) ==
  /\ At(t, "try") /\ me[t].op = "send" /\ Room(me[t].pos)
  /\ q' = prvCopyDataToQueue(me[t].item, me[t].pos)
  /\ k' = WakeFirst(k, "rx")
  /\ Return(t)
  /\ UNCHANGED <<made, got, early>>

ReceiveNow(t) ==
  /\ At(t, "try") /\ me[t].op = "receive" /\ q.n > 0
  /\ q' = prvCopyDataFromQueue
  /\ got' = NextItem
  /\ k' = WakeFirst(k, "tx")
  /\ Return(t)
  /\ UNCHANGED <<made, early>>

\* xQueuePeek leaves the item, so another task may read it too.
PeekNow(t) ==
  /\ At(t, "try") /\ me[t].op = "peek" /\ q.n > 0
  /\ got' = NextItem
  /\ k' = WakeFirst(k, "rx")
  /\ Return(t)
  /\ UNCHANGED <<q, made, early>>

\* xQueueReset: one of the tasks that wait for room is woken.
ResetNow(t) ==
  /\ At(t, "try") /\ me[t].op = "reset"
  /\ q' = [EmptyQueue EXCEPT !.buf = q.buf]
  /\ k' = WakeFirst(k, "tx")
  /\ Return(t)
  /\ UNCHANGED <<made, got, early>>

Stuck(t) == me[t].op # "reset" /\ IF me[t].op = "send" THEN ~Room(me[t].pos) ELSE q.n = 0

\* ... or cannot, and gives up or notes the time and prepares to block.
GiveUp(t) ==
  /\ At(t, "try") /\ Stuck(t) /\ me[t].left = 0
  /\ Fail(t)
  /\ UNCHANGED <<k, q, made, got>>

Prepare(t) ==
  /\ At(t, "try") /\ Stuck(t) /\ me[t].left # 0
  /\ me' = [me EXCEPT ![t] = IF @.set THEN [@ EXCEPT !.pc = "suspend"]
              ELSE [@ EXCEPT !.pc = "suspend", !.set = TRUE, !.over = k.over, !.tick = k.tick]]
  /\ UNCHANGED <<k, q, made, got, early>>

SuspendAll(t) ==
  /\ At(t, "suspend")
  /\ k' = vTaskSuspendAll(k)
  /\ Goto(t, "lock")
  /\ UNCHANGED <<q, made, got, early>>

prvLockQueue(t) ==
  /\ At(t, "lock")
  /\ q' = [q EXCEPT !.rx = IF @ = queueUNLOCKED THEN 0 ELSE @,
                    !.tx = IF @ = queueUNLOCKED THEN 0 ELSE @]
  /\ Goto(t, "timeout")
  /\ UNCHANGED <<k, made, got, early>>

\* xTaskCheckForTimeOut
Elapsed(t) == (k.tick - me[t].tick) % (portMAX_DELAY + 1)
CheckForTimeOut_restarts(t) ==
  /\ At(t, "timeout")
  /\ me' = [me EXCEPT ![t] =
       IF @.left = portMAX_DELAY THEN [@ EXCEPT !.pc = "check"]
       ELSE IF Elapsed(t) < @.left
       THEN [@ EXCEPT !.pc = "check", !.left = @ - Elapsed(t)]
       ELSE [@ EXCEPT !.pc = "unlockTx", !.left = 0, !.plan = "expire"]]
  /\ UNCHANGED <<k, q, made, got, early>>
CheckForTimeOut(t) ==
  /\ At(t, "timeout")
  /\ me' = [me EXCEPT ![t] =
       IF @.left = portMAX_DELAY THEN [@ EXCEPT !.pc = "check"]
       ELSE IF (k.over = @.over \/ k.tick < @.tick) /\ Elapsed(t) < @.left
       THEN [@ EXCEPT !.pc = "check", !.left = me[t].left - Elapsed(t), !.over = k.over, !.tick = k.tick]
       ELSE [@ EXCEPT !.pc = "unlockTx", !.left = 0, !.plan = "expire"]]
  /\ UNCHANGED <<k, q, made, got, early>>

\* prvIsQueueFull, prvIsQueueEmpty
CheckQueue(t) ==
  /\ At(t, "check")
  /\ LET full == IF me[t].op = "send" THEN q.n = Length ELSE q.n = 0
     IN me' = [me EXCEPT ![t].pc = IF full THEN "place" ELSE "unlockTx",
                         ![t].plan = IF full THEN "block" ELSE "retry"]
  /\ UNCHANGED <<k, q, made, got, early>>

\* vTaskPlaceOnEventList: vListInsert walks to the task's place, then links it in.
WaitList(t) == IF me[t].op = "send" THEN "tx" ELSE "rx"
ScanEventList(t) ==
  /\ At(t, "place")
  /\ me' = [me EXCEPT ![t].pc = "link", ![t].seen = k.ev[WaitList(t)]]
  /\ UNCHANGED <<k, q, made, got, early>>

PlaceOnEventList(t) ==
  /\ At(t, "link")
  /\ k' = vTaskPlaceOnEventList(k, WaitList(t), me[t].left)
  /\ me' = [me EXCEPT ![t].pc = "unlockTx", ![t].seen = <<>>]
  /\ UNCHANGED <<q, made, got, early>>

prvUnlockQueueTx(t) ==
  /\ At(t, "unlockTx")
  /\ k' = Unlocked(k, q.tx, "rx")
  /\ q' = [q EXCEPT !.tx = queueUNLOCKED]
  /\ Goto(t, "unlockRx")
  /\ UNCHANGED <<made, got, early>>

prvUnlockQueueRx_forgets(t) ==
  /\ At(t, "unlockRx")
  /\ k' = k
  /\ q' = [q EXCEPT !.rx = queueUNLOCKED]
  /\ Goto(t, "resume")
  /\ UNCHANGED <<made, got, early>>
prvUnlockQueueRx(t) ==
  /\ At(t, "unlockRx")
  /\ k' = Unlocked(k, q.rx, "tx")
  /\ q' = [q EXCEPT !.rx = queueUNLOCKED]
  /\ Goto(t, "resume")
  /\ UNCHANGED <<made, got, early>>

\* xTaskResumeAll; without a switch of its own a task that blocks yields next, a
\* send that has expired fails, a read that has expired looks once more.
Resume(t) ==
  /\ At(t, "resume")
  /\ k' = xTaskResumeAll(k)
  /\ IF me[t].plan = "expire" /\ me[t].op = "send" THEN Fail(t)
     ELSE /\ UNCHANGED early
          /\ me' = [me EXCEPT ![t].plan = "none",
                              ![t].pc = CASE me[t].plan = "block" -> IF k'.yield THEN "try" ELSE "yield"
                                          [] me[t].plan = "retry" -> "try"
                                          [] OTHER -> "last"]
  /\ UNCHANGED <<q, made, got>>

YieldWithinApi(t) ==
  /\ At(t, "yield")
  /\ k' = portYIELD(k)
  /\ Goto(t, "try")
  /\ UNCHANGED <<q, made, got, early>>

LastLook(t) ==
  /\ At(t, "last")
  /\ IF q.n = 0 THEN Fail(t) ELSE Goto(t, "try") /\ UNCHANGED early
  /\ UNCHANGED <<k, q, made, got>>

(* ------------------------------- interrupts ------------------------------ *)

\* xQueueGenericSendFromISR; the service routine ends with portYIELD_FROM_ISR.
SendFromISR_locked_or_not(v, pos) ==
  /\ Room(pos)
  /\ q' = prvCopyDataToQueue(v, pos)
  /\ k' = WakeFirst(k, "rx")
  /\ UNCHANGED <<me, made, got, early>>
SendFromISR(v, pos) ==
  /\ Room(pos)
  /\ q' = [prvCopyDataToQueue(v, pos) EXCEPT !.tx = IF @ = queueUNLOCKED THEN @ ELSE Incremented(@)]
  /\ k' = IF q.tx = queueUNLOCKED THEN WakeFirst(k, "rx") ELSE k
  /\ UNCHANGED <<me, made, got, early>>

ReceiveFromISR ==
  /\ "receive" \in use.isr
  /\ q.n > 0
  /\ q' = [prvCopyDataFromQueue EXCEPT !.rx = IF @ = queueUNLOCKED THEN @ ELSE Incremented(@)]
  /\ k' = IF q.rx = queueUNLOCKED THEN WakeFirst(k, "tx") ELSE k
  /\ got' = NextItem
  /\ UNCHANGED <<me, made, early>>

Tick ==
  /\ k.susp # 0 => k.pended < MaxPended
  /\ k' = TickInterrupt(k)
  /\ me' = [t \in Tasks |-> IF me[t].age < me[t].want THEN [me[t] EXCEPT !.age = @ + 1] ELSE me[t]]
  /\ UNCHANGED <<q, made, got, early>>

Switch(t) ==
  /\ SwitchTo(k, t)
  /\ k' = vTaskSwitchContext(k, t)
  /\ UNCHANGED <<q, me, made, got, early>>

TaskStep(t) ==
  \/ \E c \in use.calls[t], v \in use.items : Begin(t, c, v)
  \/ Retire(t) \/ SendNow(t) \/ ReceiveNow(t) \/ PeekNow(t) \/ ResetNow(t)
  \/ GiveUp(t) \/ Prepare(t)
  \/ SuspendAll(t) \/ prvLockQueue(t) \/ CheckForTimeOut(t) \/ CheckQueue(t)
  \/ ScanEventList(t) \/ PlaceOnEventList(t)
  \/ prvUnlockQueueTx(t) \/ prvUnlockQueueRx(t) \/ Resume(t) \/ YieldWithinApi(t) \/ LastLook(t)

QueueNext ==
  /\ \/ \E t \in Tasks : TaskStep(t)
     \/ \E t \in Tasks \cup {Idle} : Switch(t)
     \/ ReceiveFromISR
     \/ \E v \in use.items, pos \in use.isr \ {"receive"} : SendFromISR(v, pos)
     \/ Tick
  /\ UNCHANGED use

QueueSpec == QueueInit /\ [][QueueNext]_queueVars

(* ------------------------------ properties ------------------------------ *)

\* The ring of storage, pointers and count behaves as the promised sequence.
Contents == [i \in 1 .. q.n |-> q.buf[(q.r + i) % Length]]
Promise == INSTANCE FrtAbstractQueue WITH items <- Contents, length <- Length
ImplementsQueue == Promise!AbsQueueSpec

\* No lost wake-up: while the queue is not locked and a task waits for an item
\* although there is one, another reader is on its way to it (awake, or about to be),
\* and likewise for room.
Active(t, ops) == me[t].pc # "idle" /\ me[t].op \in ops /\ \A l \in Lists : t \notin ToSet(k.ev[l])
NoLostItem ==
  q.tx = queueUNLOCKED /\ k.ev["rx"] # <<>> /\ q.n > 0
    => \E t \in Tasks : Active(t, {"receive", "peek"})
NoLostRoom ==
  q.rx = queueUNLOCKED /\ k.ev["tx"] # <<>> /\ q.n < Length
    => \E t \in Tasks : Active(t, {"send"})
NoLostWakeup == NoLostItem /\ NoLostRoom

\* xQueueReset makes room for several items and wakes one sender.  That is enough
\* where a queue that is reset has one place, or one task that sends to it.
ResetWakesEnough ==
  \A r \in Tasks : \A c \in use.calls[r] : c.op = "reset" =>
    \/ Length = 1
    \/ \A t, u \in Tasks : \A d \in use.calls[t], e \in use.calls[u] :
         d.op = "send" /\ e.op = "send" => t = u

\* A call fails for lack of an item or of room only after the whole time it was
\* given (portMAX_DELAY: never), whatever wake-ups came before and also when the
\* tick counter wraps.
TimeoutNotEarly == ~early

\* The kernel's lists: HighestRuns with the one exception of a task that has
\* blocked and is about to yield; tasks are where their waits say; and the lock of the
\* queue keeps interrupts out of an event list while a task inserts itself: the
\* list it walked is the list it links itself into.
KernelConsistent ==
  /\ HighestRuns(k) \/ \E t \in Tasks : k.cur = t /\ me[t].pc = "yield"
  /\ DelayedListsSorted(k) /\ EventListsBlocked(k)
  /\ \A t \in Tasks : me[t].pc = "link" => k.ev[WaitList(t)] = me[t].seen

===============================================================================
