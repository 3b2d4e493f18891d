------------------------------- MODULE FrtMutex -------------------------------
(***************************************************************************)
(* FreeRTOS mutexes and their priority inheritance: xQueueSemaphoreTake and      *)
(* xQueueGenericSend on mutexes (queue.c), xTaskPriorityInherit,                 *)
(* xTaskPriorityDisinherit and vTaskPriorityDisinheritAfterTimeout (tasks.c), on  *)
(* one core.  Interrupts do not use mutexes, so between vTaskSuspendAll and        *)
(* xTaskResumeAll only ticks could come, and those are counted at                *)
(* xTaskResumeAll: that stretch of xQueueSemaphoreTake is one step.               *)
(***************************************************************************)
EXTENDS FrtKernel

CONSTANTS Free,         \* xMutexHolder of a mutex nobody holds
          Mutexes,      \* their event lists xTasksWaitingToReceive are Lists
          Programs,     \* applications: for each task a sequence of [op, mutex, wait]
          MaxLag        \* bound: ticks between two steps of the tasks while one is ready

ASSUME MutexAssumption ==
  /\ Free \notin Tasks /\ Lists = Mutexes
  /\ \A p \in Programs, t \in Tasks :
       p[t] \in Seq([op : {"take", "give", "delay"}, mutex : Mutexes, wait : TickType])

VARIABLES script,   \* what each task does (never changes)
          k,        \* the kernel
          holder,   \* xMutexHolder of each mutex; uxMessagesWaiting is 0 when held
          held,     \* uxMutexesHeld of each task
          at,       \* each task's place in its script
          me,       \* its call: place, ticks left, timeout state, xInheritanceOccurred
          ignored,  \* xQueueGenericSend has not acted on a TRUE xYieldRequired (history)
          lag       \* ticks since the last step of a task

mutexVars == <<script, k, holder, held, at, me, ignored, lag>>

NoCall == [pc |-> "idle", left |-> 0, set |-> FALSE, tick |-> 0, over |-> 0, inherited |-> FALSE]

MutexInit ==
  /\ script \in Programs
  /\ k = KernelInit /\ holder = [m \in Mutexes |-> Free] /\ held = [t \in Tasks |-> 0]
  /\ at = [t \in Tasks |-> 1] /\ me = [t \in Tasks |-> NoCall]
  /\ ignored = FALSE /\ lag = 0

(* -------------------------- priority inheritance ------------------------- *)

\* xTaskPriorityInherit(h), called by t.  The position of h in an event list, if it
\* waits in one, is not changed.
xTaskPriorityInherit(h, t) ==
  IF k.prio[h] < k.prio[t] THEN [k EXCEPT !.prio[h] = k.prio[t]] ELSE k
InheritanceOccurred(h, t) == k.prio[h] < k.prio[t] \/ BasePrio[h] < k.prio[t]

\* prvGetDisinheritPriorityAfterTimeout: the first waiter's priority.
DisinheritPriority(m) == IF k.ev[m] = <<>> THEN 0 ELSE k.prio[Head(k.ev[m])]

vTaskPriorityDisinheritAfterTimeout_never(m) == k
vTaskPriorityDisinheritAfterTimeout(m) ==
  LET h == holder[m]
      p == IF h # Free /\ BasePrio[h] > DisinheritPriority(m) THEN BasePrio[h] ELSE DisinheritPriority(m)
  IN IF h = Free \/ held[h] # 1 THEN k ELSE [k EXCEPT !.prio[h] = p]

\* xTaskPriorityDisinherit: back to the base priority with the last mutex given.
GivenBack_if_inherited(t) == IF k.prio[t] = BasePrio[t] THEN held ELSE [held EXCEPT ![t] = @ - 1]
GivenBack(t) == [held EXCEPT ![t] = @ - 1]
pvTaskIncrementMutexHeldCount(t) == [held EXCEPT ![t] = @ + 1]
DisinheritsAtGive_first(t) == k.prio[t] # BasePrio[t]
DisinheritsAtGive(t) == k.prio[t] # BasePrio[t] /\ held[t] = 1

(* ---------------------------- a task's steps ----------------------------- *)

At(t, pc) == Running(k, t) /\ me[t].pc = pc
Goto(t, pc) == me' = [me EXCEPT ![t].pc = pc]
Todo(t, op) == At(t, "idle") /\ at[t] <= Len(script[t]) /\ script[t][at[t]].op = op
Mutex(t) == script[t][at[t]].mutex
Return(t) == me' = [me EXCEPT ![t] = NoCall] /\ at' = [at EXCEPT ![t] = @ + 1]

Begin(t) ==
  /\ Todo(t, "take")
  /\ me' = [me EXCEPT ![t] = [NoCall EXCEPT !.pc = "try", !.left = script[t][at[t]].wait]]
  /\ UNCHANGED <<k, holder, held, at>>

\* First critical section of xQueueSemaphoreTake.
TakeNow(t) ==
  /\ At(t, "try") /\ holder[Mutex(t)] = Free
  /\ holder' = [holder EXCEPT ![Mutex(t)] = t]
  /\ held' = pvTaskIncrementMutexHeldCount(t)
  /\ Return(t)
  /\ UNCHANGED k

\* A task that did not get the mutex goes on to the end of its script.
GaveUp(t) ==
  me' = [me EXCEPT ![t] = NoCall] /\ at' = [at EXCEPT ![t] = Len(script[t]) + 1]

MustWait(t) ==
  /\ At(t, "try") /\ holder[Mutex(t)] # Free
  /\ \/ me[t].left = 0 /\ GaveUp(t)
     \/ /\ me[t].left # 0 /\ UNCHANGED at
        /\ me' = [me EXCEPT ![t] = IF @.set THEN [@ EXCEPT !.pc = "block"]
                    ELSE [@ EXCEPT !.pc = "block", !.set = TRUE, !.tick = k.tick, !.over = k.over]]
  /\ UNCHANGED <<k, holder, held>>

\* xTaskCheckForTimeOut
Elapsed(t) == (k.tick - me[t].tick) % (portMAX_DELAY + 1)
Expired(t) == /\ me[t].left # portMAX_DELAY
              /\ \/ k.over # me[t].over /\ k.tick >= me[t].tick
                 \/ Elapsed(t) >= me[t].left

\* vTaskSuspendAll .. xTaskResumeAll: inherit, and wait in the event list.
Block(t) ==
  /\ At(t, "block") /\ ~Expired(t) /\ holder[Mutex(t)] # Free
  /\ LET h == holder[Mutex(t)]
         left == IF me[t].left = portMAX_DELAY THEN portMAX_DELAY ELSE me[t].left - Elapsed(t)
     IN /\ k' = portYIELD(vTaskPlaceOnEventList(xTaskPriorityInherit(h, t), Mutex(t), left))
        /\ me' = [me EXCEPT ![t] = [@ EXCEPT !.pc = "try", !.left = left,
                    !.tick = k.tick, !.over = k.over, !.inherited = InheritanceOccurred(h, t)]]
  /\ UNCHANGED <<holder, held, at>>

\* The mutex has been given meanwhile, or the time is over.
DontBlock(t) ==
  /\ At(t, "block")
  /\ \/ ~Expired(t) /\ holder[Mutex(t)] = Free /\ Goto(t, "try")
     \/ Expired(t) /\ me' = [me EXCEPT ![t].pc = "last", ![t].left = 0]
  /\ UNCHANGED <<k, holder, held, at>>

LastLook(t) ==
  /\ At(t, "last")
  /\ \/ holder[Mutex(t)] = Free /\ Goto(t, "try") /\ UNCHANGED at
     \/ holder[Mutex(t)] # Free /\ me[t].inherited /\ Goto(t, "disinherit") /\ UNCHANGED at
     \/ holder[Mutex(t)] # Free /\ ~me[t].inherited /\ GaveUp(t)
  /\ UNCHANGED <<k, holder, held>>

\* The critical section that lowers the holder's priority again, if it still has one.
Disinherit(t) ==
  /\ At(t, "disinherit")
  /\ k' = vTaskPriorityDisinheritAfterTimeout(Mutex(t))
  /\ GaveUp(t)
  /\ UNCHANGED <<holder, held>>

\* xQueueGenericSend on a mutex: give it back, wake the first waiter.  The switch that
\* disinheriting asks for (xYieldRequired) is only made when nobody waits.
xQueueGenericSend(t, m) ==
  LET d  == DisinheritsAtGive(t)
      k1 == IF d THEN [k EXCEPT !.prio[t] = BasePrio[t]] ELSE k
  IN /\ k' = IF k.ev[m] # <<>> THEN WakeFirst(k1, m) ELSE portYIELD_if(k1, d)
     /\ holder' = [holder EXCEPT ![m] = Free]
     /\ held' = GivenBack(t)
     /\ ignored' = (ignored \/ (d /\ k.ev[m] # <<>> /\ ~Outranks(k1, Head(k.ev[m]))))

Give(t) ==
  /\ Todo(t, "give") /\ holder[Mutex(t)] = t
  /\ xQueueGenericSend(t, Mutex(t))
  /\ Return(t)

\* vTaskDelay: suspend the scheduler, wait, resume and yield.
Delay(t) ==
  /\ Todo(t, "delay")
  /\ LET n == script[t][at[t]].wait
     IN k' = portYIELD(IF n > 0 THEN prvAddCurrentTaskToDelayedList(k, n, FALSE) ELSE k)
  /\ Return(t)
  /\ UNCHANGED <<holder, held>>

\* The end of the script: give what is held (in the order of Mutexes the code
\* chooses), then suspend.
GiveBack(t, m) ==
  /\ At(t, "idle") /\ at[t] > Len(script[t]) /\ holder[m] = t
  /\ xQueueGenericSend(t, m)
  /\ UNCHANGED <<at, me>>

Finish(t) ==
  /\ At(t, "idle") /\ at[t] > Len(script[t]) /\ held[t] = 0
  /\ k.st[t] = "ready"
  /\ k' = portYIELD([k EXCEPT !.st[t] = "suspended"])
  /\ UNCHANGED <<holder, held, at, me>>

Tick ==
  /\ (k.cur # Idle \/ k.swi) => lag < MaxLag
  /\ lag' = IF k.cur # Idle \/ k.swi THEN lag + 1 ELSE lag
  /\ k' = TickInterrupt(k)
  /\ UNCHANGED <<holder, held, at, me>>

Switch(t) ==
  /\ SwitchTo(k, t)
  /\ k' = vTaskSwitchContext(k, t)
  /\ UNCHANGED <<holder, held, at, me>>

TaskStep(t) ==
  \/ Give(t) \/ \E m \in Mutexes : GiveBack(t, m)
  \/ /\ \/ Begin(t) \/ TakeNow(t) \/ MustWait(t) \/ Block(t) \/ DontBlock(t)
        \/ LastLook(t) \/ Disinherit(t) \/ Delay(t) \/ Finish(t)
     /\ UNCHANGED ignored

Processor ==
  \/ \E t \in Tasks : TaskStep(t) /\ lag' = 0
  \/ \E t \in Tasks \cup {Idle} : Switch(t) /\ UNCHANGED <<ignored, lag>>

MutexNext == (Processor \/ (Tick /\ UNCHANGED ignored)) /\ UNCHANGED script

MutexSpec == MutexInit /\ [][MutexNext]_mutexVars
\* The processor executes and the timer ticks.
MutexFairSpec ==
  /\ MutexSpec
  /\ WF_mutexVars(Processor /\ UNCHANGED script) /\ WF_mutexVars(Tick /\ UNCHANGED <<ignored, script>>)

(* ------------------------------ properties ------------------------------ *)

\* An application whose tasks hold one mutex at a time: between two takes is a give.
OneAtATime ==
  \A t \in Tasks : \A i, j \in 1 .. Len(script[t]) :
    i < j /\ script[t][i].op = "take" /\ script[t][j].op = "take"
      => \E n \in i + 1 .. j - 1 : script[t][n].op = "give"

\* A task that waits for a mutex never has a higher priority than its holder
\* (xTaskPriorityInherit), as long as no switch has been ignored.  An application in which
\* a task waits for one mutex while it holds another does not promise it: the holder of
\* the first does not inherit what the waiter inherits later (tasks.c:6601).
NoInversion ==
  ~ignored => \A m \in Mutexes : holder[m] # Free =>
                \A w \in ToSet(k.ev[m]) : k.prio[w] <= k.prio[holder[m]]

\* A task keeps an inherited priority only as long as it holds a mutex and, in an
\* application that never holds two, some task still asks for that one with that
\* priority.  (xTaskPriorityDisinherit lowers the priority with the last mutex only.)
PriorityJustified ==
  \A t \in Tasks : k.prio[t] # BasePrio[t] =>
    /\ held[t] > 0
    /\ OneAtATime /\ ~ignored => \E m \in Mutexes, w \in Tasks \ {t} :
         /\ holder[m] = t /\ k.prio[w] >= k.prio[t]
         /\ me[w].pc # "idle" /\ Mutex(w) = m

\* The ready task of the highest priority runs (configUSE_PREEMPTION), until
\* xQueueGenericSend ignores the switch that xTaskPriorityDisinherit asks for.  With such
\* a chain of waits a timeout can raise a ready holder instead of lowering it
\* (vTaskPriorityDisinheritAfterTimeout), and asks for no switch.
HighestPriorityRuns == ~ignored => HighestRuns(k)

\* Every task gets through its script.
ScriptsEnd == \A t \in Tasks : <>(at[t] > Len(script[t]))

===============================================================================
