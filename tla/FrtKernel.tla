------------------------------- MODULE FrtKernel -------------------------------
(***************************************************************************)
(* The scheduler of FreeRTOS on one core (nuclei-sdk/OS/FreeRTOS/Source/       *)
(* tasks.c and portable/port.c) as operators on the kernel's state, a record    *)
(* that the modules of the kernel objects keep in a variable.  A critical      *)
(* section is one step of theirs; what the code does in it is a composition of *)
(* these operators.                                                           *)
(*                                                                         *)
(*   st, wake   the list of each task's xStateListItem, and its value (0 when   *)
(*              the task is ready: not used then)                             *)
(*   ev         the event lists, each in the order of the list                *)
(*   pending    xPendingReadyList                                            *)
(*   prio       uxPriority of each task                                      *)
(*   cur        pxCurrentTCB                                                 *)
(*   susp       uxSchedulerSuspended                                          *)
(*   tick, over, next, pended   xTickCount, xNumOfOverflows,                    *)
(*              xNextTaskUnblockTime, xPendedTicks                           *)
(*   yield      xYieldPendings[ 0 ]                                           *)
(*   swi        the software interrupt that switches context is requested     *)
(*                                                                         *)
(* A ready list is a set: which of several ready tasks of the highest priority  *)
(* runs next is left open.                                                    *)
(***************************************************************************)
EXTENDS Integers, Sequences, FiniteSets, FiniteSetsExt, SequencesExt

CONSTANTS Tasks,       \* the application's tasks
          Idle,        \* the idle task: always ready, priority tskIDLE_PRIORITY
          BasePrio,    \* priority of each task at creation, above the idle task's
          TickBits,    \* width of TickType_t
          Lists        \* event lists

ASSUME KernelAssumption ==
  /\ IsFiniteSet(Tasks) /\ Idle \notin Tasks /\ BasePrio \in [Tasks -> Nat \ {0}]
  /\ TickBits \in Nat \ {0} /\ IsFiniteSet(Lists)

portMAX_DELAY == 2 ^ TickBits - 1
TickType == 0 .. portMAX_DELAY
\* xNumOfOverflows is only compared for equality: modelled by its lowest bit.
Overflows == 0 .. 1

KernelInit == [ st      |-> [t \in Tasks |-> "ready"],
                wake    |-> [t \in Tasks |-> 0],
                ev      |-> [l \in Lists |-> <<>>],
                pending |-> <<>>,
                prio    |-> [t \in Tasks |-> BasePrio[t]],
                cur     |-> Idle,
                susp    |-> 0, tick |-> 0, over |-> 0,
                next    |-> portMAX_DELAY, pended |-> 0,
                yield   |-> FALSE, swi |-> TRUE ]

KernelTypeOK(k) ==
  /\ k.st \in [Tasks -> {"ready", "delayed", "overflow", "suspended"}]
  /\ k.wake \in [Tasks -> TickType]
  /\ \A l \in Lists : k.ev[l] \in Seq(Tasks) /\ IsInjective(k.ev[l])
  /\ k.pending \in Seq(Tasks) /\ IsInjective(k.pending)
  /\ k.prio \in [Tasks -> Nat] /\ k.cur \in Tasks \cup {Idle}
  /\ k.susp \in Nat /\ k.tick \in TickType /\ k.over \in Overflows
  /\ k.next \in TickType /\ k.pended \in Nat
  /\ k.yield \in BOOLEAN /\ k.swi \in BOOLEAN

PrioOf(k, t) == IF t = Idle THEN 0 ELSE k.prio[t]

On(k, list) == {t \in Tasks : k.st[t] = list}

\* taskSELECT_HIGHEST_PRIORITY_TASK: the candidates.
TopReady(k) ==
  LET ready == On(k, "ready")
  IN IF ready = {} THEN {Idle} ELSE {t \in ready : \A u \in ready : k.prio[u] <= k.prio[t]}

prvAddTaskToReadyList(k, t) == [k EXCEPT !.st[t] = "ready", !.wake[t] = 0]

portYIELD(k) == [k EXCEPT !.swi = TRUE]
portYIELD_if(k, c) == IF c THEN portYIELD(k) ELSE k

prvResetNextTaskUnblockTime(k) ==
  LET d == {k.wake[t] : t \in On(k, "delayed")}
  IN [k EXCEPT !.next = IF d = {} THEN portMAX_DELAY ELSE Min(d)]

\* vListInsert on an event list: before the first task of a lower priority.
Inserted(k, s, t) ==
  LET n == Min({i \in DOMAIN s : k.prio[s[i]] < k.prio[t]} \cup {Len(s) + 1}) - 1
  IN SubSeq(s, 1, n) \o <<t>> \o SubSeq(s, n + 1, Len(s))

prvAddCurrentTaskToDelayedList(k, ticks, canBlockIndefinitely) ==
  LET t == k.cur
      w == (k.tick + ticks) % (portMAX_DELAY + 1)
  IN IF ticks = portMAX_DELAY /\ canBlockIndefinitely
     THEN [k EXCEPT !.st[t] = "suspended"]
     ELSE IF w < k.tick THEN [k EXCEPT !.st[t] = "overflow", !.wake[t] = w]
     ELSE [k EXCEPT !.st[t] = "delayed", !.wake[t] = w,
                    !.next = IF w < k.next THEN w ELSE k.next]

vTaskPlaceOnEventList(k, l, ticks) ==
  prvAddCurrentTaskToDelayedList([k EXCEPT !.ev[l] = Inserted(k, @, k.cur)], ticks, TRUE)

\* Does unblocking t ask for a switch?
Outranks(k, t) == k.prio[t] > PrioOf(k, k.cur)

\* xTaskRemoveFromEventList: the head of a list that is not empty.
xTaskRemoveFromEventList(k, l) ==
  LET t  == Head(k.ev[l])
      k1 == [k EXCEPT !.ev[l] = Tail(@), !.yield = @ \/ Outranks(k, t)]
  IN IF k.susp = 0 THEN prvAddTaskToReadyList(k1, t)
     ELSE [k1 EXCEPT !.pending = Append(@, t)]

\* The caller yields when the task it woke has a higher priority.
WakeFirst_no_yield(k, l) == IF k.ev[l] = <<>> THEN k ELSE xTaskRemoveFromEventList(k, l)
WakeFirst(k, l) ==
  IF k.ev[l] = <<>> THEN k
  ELSE portYIELD_if(xTaskRemoveFromEventList(k, l), Outranks(k, Head(k.ev[l])))

\* The tick is counted, and at zero the two delayed lists change places.
taskSWITCH_DELAYED_LISTS(k) ==
  prvResetNextTaskUnblockTime(
    [k EXCEPT !.over = (@ + 1) % Cardinality(Overflows),
              !.st = [t \in Tasks |-> CASE @[t] = "overflow" -> "delayed"
                                        [] @[t] = "delayed" -> "overflow"
                                        [] OTHER -> @[t]]])
TickCounted(k) ==
  LET k1 == [k EXCEPT !.tick = (@ + 1) % (portMAX_DELAY + 1)]
  IN IF k1.tick = 0 THEN taskSWITCH_DELAYED_LISTS(k1) ELSE k1

\* A list without the tasks of a set.
Without(s, S) ==
  LET kept[i \in 0 .. Len(s)] ==
        IF i = 0 THEN <<>>
        ELSE IF s[i] \in S THEN kept[i - 1] ELSE Append(kept[i - 1], s[i])
  IN kept[Len(s)]

\* The tasks whose time has come leave the delayed list and the list of their event.
DueTasks(k) == {t \in On(k, "delayed") : k.next <= k.tick /\ k.wake[t] <= k.tick}
DueUnblocked(k) ==
  IF k.tick < k.next THEN k
  ELSE prvResetNextTaskUnblockTime(
         [k EXCEPT !.st = [t \in Tasks |-> IF t \in DueTasks(k) THEN "ready" ELSE @[t]],
                   !.wake = [t \in Tasks |-> IF t \in DueTasks(k) THEN 0 ELSE @[t]],
                   !.ev = [l \in Lists |-> Without(@[l], DueTasks(k))],
                   !.pending = Without(@, DueTasks(k))])

\* One tick with the scheduler running; "switch" is what xTaskIncrementTick returns.
xTaskIncrementTick(k) ==
  LET k1 == TickCounted(k)
      k2 == DueUnblocked(k1)
  IN [kernel |-> k2,
      switch |-> \/ \E t \in DueTasks(k1) : Outranks(k, t)
                 \/ Cardinality({t \in On(k2, "ready") : k2.prio[t] = PrioOf(k, k.cur)}) > 1
                 \/ k2.yield]

\* xPortSysTickHandler
TickInterrupt(k) ==
  IF k.susp # 0 THEN [k EXCEPT !.pended = @ + 1]
  ELSE LET r == xTaskIncrementTick(k) IN portYIELD_if(r.kernel, r.switch)

vTaskSuspendAll(k) == [k EXCEPT !.susp = @ + 1]

\* xTaskResumeAll up to the switch: the pending tasks become ready, then the ticks
\* that came meanwhile are counted.
PendingReadied(k) ==
  LET woken == ToSet(k.pending)
      k1 == [k EXCEPT !.st = [t \in Tasks |-> IF t \in woken THEN "ready" ELSE @[t]],
                      !.wake = [t \in Tasks |-> IF t \in woken THEN 0 ELSE @[t]],
                      !.pending = <<>>,
                      !.yield = @ \/ \E t \in woken : Outranks(k, t)]
  IN IF woken = {} THEN k ELSE prvResetNextTaskUnblockTime(k1)

PendedTick(k) ==
  LET r == xTaskIncrementTick(k) IN [r.kernel EXCEPT !.yield = @ \/ r.switch]
PendedTicks(k, n) ==
  LET ticked[i \in 0 .. n] == IF i = 0 THEN k ELSE PendedTick(ticked[i - 1]) IN ticked[n]

xTaskResumeAll(k) ==
  LET k1 == [k EXCEPT !.susp = @ - 1]
      k2 == [PendedTicks(PendingReadied(k1), k.pended) EXCEPT !.pended = 0]
  IN IF k1.susp # 0 THEN k1 ELSE portYIELD_if(k2, k2.yield)

\* xPortTaskSwitch with vTaskSwitchContext: the next task is t.
SwitchTo(k, t) ==
  /\ k.swi
  /\ IF k.susp # 0 THEN t = k.cur ELSE t \in TopReady(k)

vTaskSwitchContext(k, t) ==
  [k EXCEPT !.swi = FALSE, !.yield = (k.susp # 0), !.cur = t]

\* A task executes its own code while it is the current one and no switch is due:
\* the barrier of portYIELD lets the interrupt in before the next statement.
Running(k, t) == k.cur = t /\ ~k.swi

(* ------------------------ invariants of the kernel ----------------------- *)

\* The processor is given to a ready task of the highest priority unless the
\* scheduler is suspended or a switch has been requested (configUSE_PREEMPTION).
HighestRuns(k) ==
  k.susp = 0 /\ ~k.swi => k.cur \in TopReady(k)

\* A task that waits for a time is in the list that matches it: the delayed list
\* holds times that are still to come in this round of the tick counter, the
\* overflow list times of the next round; xNextTaskUnblockTime is not too late.
DelayedListsSorted(k) ==
  /\ \A t \in On(k, "delayed") : k.wake[t] > k.tick /\ k.next <= k.wake[t]
  /\ \A t \in On(k, "overflow") : k.wake[t] <= k.tick

\* A task in an event list is blocked, and is in no other list.
EventListsBlocked(k) ==
  /\ \A l \in Lists : \A t \in ToSet(k.ev[l]) : k.st[t] # "ready"
  /\ \A t \in ToSet(k.pending) : \A l \in Lists : t \notin ToSet(k.ev[l])
  /\ \A l, m \in Lists : l # m => ToSet(k.ev[l]) \cap ToSet(k.ev[m]) = {}
  /\ k.susp = 0 => k.pending = <<>>

===============================================================================
