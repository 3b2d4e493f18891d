------------------------------ MODULE SmpCritical ------------------------------
(***************************************************************************)
(* Critical sections, scheduler suspension and context switches of FreeRTOS on     *)
(* several cores (tasks.c with configNUMBER_OF_CORES > 1, the port's SWI and tick   *)
(* interrupts), over the recursive spin locks of SpinLock.  The functions are      *)
(* written as the sequences of their steps; a core executes the frame on top of its *)
(* stack, and an interrupt pushes one.                                           *)
(*                                                                         *)
(* Which task runs is abstracted: a switch either resumes the frame below the       *)
(* interrupt or drops it, for a task that is switched out goes on as one that       *)
(* starts the function again, the locks being free of it.                        *)
(***************************************************************************)
EXTENDS SpinLock, Sequences

CONSTANTS Interrupted,  \* the cores that take interrupts whose handlers use the kernel
          MaxSusp,      \* bound: nested vTaskSuspendAll
          MaxNest       \* bound: nested critical sections

ASSUME SmpAssumption ==
  /\ Locks = {"ISR", "TASK"} /\ Interrupted \subseteq Cores
  /\ MaxSusp \in Nat /\ MaxNest \in Nat \ {0}

VARIABLES stack,    \* frames of each core: function, step, yield read, mask saved
          mask,     \* is the interrupt threshold of the core raised?
          nest,     \* uxCriticalNestings
          susp,     \* uxSchedulerSuspended
          mine,     \* the part of it that the task on each core stands for
          swi,      \* software interrupt pending
          asked,    \* the core's task is taskTASK_SCHEDULED_TO_YIELD
          pending   \* xYieldPendings

smpVars == <<lock, rec, owned, pc, arg, depth, stack, mask, nest, susp, mine, swi, asked, pending>>
kernelVars == <<susp, mine, asked, pending>>

(* The functions.  The steps after "end" are the loop of                        *)
(* prvCheckForRunStateChange, from which "again" goes back to the check.            *)
vTaskEnterExitCritical_isr_first ==
  <<"mask", "getISR", "getTASK", "enter", "check", "body", "leave", "relISR", "relTASK", "unmask",
    "yield", "end", "nest0", "relISR", "relTASK", "unmask", "mask", "getTASK", "getISR", "again">>
vTaskEnterExitCritical ==
  <<"mask", "getTASK", "getISR", "enter", "check", "body", "leave", "relISR", "relTASK", "unmask",
    "yield", "end", "nest0", "relISR", "relTASK", "unmask", "mask", "getTASK", "getISR", "again">>
vTaskSuspendAll ==
  <<"save", "getTASK", "check", "getISR", "suspend", "relISR", "restore", "end",
    "relTASK", "unmask", "mask", "getTASK", "getISR", "relISR", "again">>
xTaskResumeAll ==
  <<"mask", "getTASK", "getISR", "enter", "resume", "relTASK", "leave", "relISR", "relTASK", "unmask",
    "yield", "end">>
InterruptHandler ==
  <<"save", "getISR", "enter", "body", "leave", "relISR", "restore", "yield", "end">>
xPortTaskSwitch_no_task_lock == <<"mask", "clear", "getISR", "switch", "relISR", "unmask", "end">>
xPortTaskSwitch ==
  <<"mask", "clear", "getTASK", "getISR", "switch", "relISR", "relTASK", "unmask", "end">>

Prog(f) == CASE f = "critical" -> vTaskEnterExitCritical
             [] f = "suspend"  -> vTaskSuspendAll
             [] f = "resume"   -> xTaskResumeAll
             [] f = "isr"      -> InterruptHandler
             [] f = "switch"   -> xPortTaskSwitch

EndOf(f) == CHOOSE i \in DOMAIN Prog(f) : Prog(f)[i] = "end"
CheckOf(f) == CHOOSE i \in DOMAIN Prog(f) : Prog(f)[i] = "check"

Frame(f) == [fn |-> f, pos |-> 1, yield |-> FALSE, saved |-> FALSE]
Busy(c) == stack[c] # <<>>
Top(c) == stack[c][Len(stack[c])]
Op(c) == IF Busy(c) THEN Prog(Top(c).fn)[Top(c).pos] ELSE "task"
InInterrupt(c) == \E i \in DOMAIN stack[c] : stack[c][i].fn \in {"isr", "switch"}

\* The core's stack with its top frame replaced.
WithTop(c, f) == [stack EXCEPT ![c][Len(stack[c])] = f]
Popped(c) == [stack EXCEPT ![c] = SubSeq(@, 1, Len(@) - 1)]
AdvanceTo(c, i) == stack' = WithTop(c, [Top(c) EXCEPT !.pos = i])
Advance(c) ==
  LET next == Prog(Top(c).fn)[Top(c).pos + 1]
  IN IF next = "end" \/ (next = "yield" /\ ~Top(c).yield) THEN stack' = Popped(c)
     ELSE AdvanceTo(c, Top(c).pos + 1)
Push(c, f) == stack' = [stack EXCEPT ![c] = Append(@, Frame(f))]

SmpInit ==
  /\ SpinInit /\ arg = [c \in Cores |-> "ISR"]
  /\ stack = [c \in Cores |-> <<>>]
  /\ mask = [c \in Cores |-> FALSE] /\ nest = [c \in Cores |-> 0]
  /\ susp = 0 /\ mine = [c \in Cores |-> 0]
  /\ swi = [c \in Cores |-> FALSE] /\ asked = [c \in Cores |-> FALSE]
  /\ pending = [c \in Cores |-> FALSE]

(* ------------------------------ interrupts ------------------------------ *)

\* The software interrupt has the lowest level and is taken at once.
SwiDue(c) == swi[c] /\ ~mask[c] /\ ~InInterrupt(c)

TakeSwi(c) ==
  /\ SwiDue(c)
  /\ Push(c, "switch")
  /\ UNCHANGED <<lockVars, mask, nest, swi, kernelVars>>

\* Another interrupt, which calls a kernel function; they do not nest (a bound).
TakeInterrupt(c) ==
  /\ c \in Interrupted /\ ~mask[c] /\ ~\E i \in DOMAIN stack[c] : stack[c][i].fn = "isr"
  /\ Push(c, "isr")
  /\ UNCHANGED <<lockVars, mask, nest, swi, kernelVars>>

(* --------------------------------- steps --------------------------------- *)

\* A core executes step op of its top frame.
Doing(c, op) == ~SwiDue(c) /\ Op(c) = op

Call(c, f) ==
  /\ Doing(c, "task") /\ Push(c, f)
  /\ UNCHANGED <<lockVars, mask, nest, swi, kernelVars>>
CallResume(c) == mine[c] > 0 /\ Call(c, "resume")
CallTask(c) == Call(c, "critical") \/ (mine[c] < MaxSusp /\ Call(c, "suspend")) \/ CallResume(c)

Mask(c) ==
  /\ \/ Doing(c, "mask") /\ Advance(c)
     \/ Doing(c, "save") /\ stack' = WithTop(c, [Top(c) EXCEPT !.pos = @ + 1, !.saved = mask[c]])
  /\ mask' = [mask EXCEPT ![c] = TRUE]
  /\ UNCHANGED <<lockVars, nest, swi, kernelVars>>

\* vTaskExitCritical enables interrupts only when the nesting count is back to zero.
Unmask(c) ==
  /\ \/ Doing(c, "unmask") /\ mask' = [mask EXCEPT ![c] = nest[c] > 0]
     \/ Doing(c, "restore") /\ mask' = [mask EXCEPT ![c] = Top(c).saved]
  /\ Advance(c)
  /\ UNCHANGED <<lockVars, nest, swi, kernelVars>>

Gets(c) == CASE Op(c) = "getTASK" -> {"TASK"} [] Op(c) = "getISR" -> {"ISR"} [] OTHER -> {}
Rels(c) == CASE Op(c) = "relTASK" -> {"TASK"} [] Op(c) = "relISR" -> {"ISR"} [] OTHER -> {}

\* A critical section inside another one leaves the locks alone.
Nested(c) == nest[c] > 0 /\ Top(c).fn \in {"critical", "isr"}

CallLock(c) ==
  /\ ~SwiDue(c) /\ pc[c] = "out" /\ ~Nested(c)
  /\ \/ \E l \in Gets(c) : CallAcquire(c, l)
     \/ \E l \in Rels(c) : CallRelease(c, l)
  /\ UNCHANGED <<stack, mask, nest, swi, kernelVars>>

SkipLock(c) ==
  /\ ~SwiDue(c) /\ Gets(c) \cup Rels(c) # {} /\ pc[c] = "out" /\ Nested(c)
  /\ Advance(c)
  /\ UNCHANGED <<lockVars, mask, nest, swi, kernelVars>>

InLock(c) ==
  /\ LockStep(c)
  /\ IF pc'[c] = "out" THEN Advance(c) ELSE UNCHANGED stack
  /\ UNCHANGED <<mask, nest, swi, kernelVars>>

Enter(c) ==
  /\ Doing(c, "enter") /\ Advance(c)
  /\ nest' = [nest EXCEPT ![c] = @ + 1]
  /\ UNCHANGED <<lockVars, mask, swi, kernelVars>>

\* vTaskExitCritical reads xYieldPendings inside the critical section; a handler has
\* it from the function it called.
Leave(c) ==
  /\ Doing(c, "leave")
  /\ nest' = [nest EXCEPT ![c] = @ - 1]
  /\ stack' = WithTop(c, [Top(c) EXCEPT !.pos = @ + 1, !.yield = nest[c] = 1 /\ pending[c]])
  /\ UNCHANGED <<lockVars, mask, swi, kernelVars>>

\* prvCheckForRunStateChange, called with the scheduler running and, in a critical
\* section, at the first level.
Check(c) ==
  /\ Doing(c, "check")
  /\ IF asked[c] /\ susp = 0 /\ nest[c] <= 1 THEN AdvanceTo(c, EndOf(Top(c).fn) + 1) ELSE Advance(c)
  /\ UNCHANGED <<lockVars, mask, nest, swi, kernelVars>>

LeaveForYield_keeps_nest(c) ==
  /\ Doing(c, "nest0") /\ Advance(c)
  /\ UNCHANGED <<lockVars, mask, nest, swi, kernelVars>>
LeaveForYield(c) ==
  /\ Doing(c, "nest0") /\ Advance(c)
  /\ nest' = [nest EXCEPT ![c] = 0]
  /\ UNCHANGED <<lockVars, mask, swi, kernelVars>>

Again(c) ==
  /\ Doing(c, "again") /\ AdvanceTo(c, CheckOf(Top(c).fn))
  /\ nest' = [nest EXCEPT ![c] = IF Top(c).fn = "critical" THEN 1 ELSE 0]
  /\ UNCHANGED <<lockVars, mask, swi, kernelVars>>

\* What a kernel function does in its critical section, as far as other cores see it:
\* nothing, ask a core for a switch (prvYieldCore), or, in a task, nest.
Body(c) ==
  /\ Doing(c, "body")
  /\ \/ Advance(c) /\ UNCHANGED <<swi, kernelVars>>
     \/ /\ Advance(c) /\ UNCHANGED <<swi, susp, mine, asked>>
        /\ pending' = [pending EXCEPT ![c] = TRUE]
     \/ \E e \in Cores \ {c} :
          /\ Advance(c) /\ UNCHANGED <<susp, mine, pending>>
          /\ ~asked[e] /\ ~pending[e]
          /\ swi' = [swi EXCEPT ![e] = TRUE] /\ asked' = [asked EXCEPT ![e] = TRUE]
     \/ /\ Top(c).fn = "critical" /\ nest[c] < MaxNest
        /\ stack' = [stack EXCEPT ![c] = Append(@, Frame("critical"))]
        /\ UNCHANGED <<swi, kernelVars>>
  /\ UNCHANGED <<lockVars, mask, nest>>

Suspend(c) ==
  /\ Doing(c, "suspend") /\ Advance(c)
  /\ susp' = susp + 1 /\ mine' = [mine EXCEPT ![c] = @ + 1]
  /\ UNCHANGED <<lockVars, mask, nest, swi, asked, pending>>

Resume(c) ==
  /\ Doing(c, "resume") /\ Advance(c)
  /\ susp' = susp - 1 /\ mine' = [mine EXCEPT ![c] = @ - 1]
  /\ UNCHANGED <<lockVars, mask, nest, swi, asked, pending>>

Yield(c) ==
  /\ Doing(c, "yield") /\ Advance(c)
  /\ swi' = [swi EXCEPT ![c] = TRUE]
  /\ UNCHANGED <<lockVars, mask, nest, kernelVars>>

ClearSwi(c) ==
  /\ Doing(c, "clear") /\ Advance(c)
  /\ swi' = [swi EXCEPT ![c] = FALSE]
  /\ UNCHANGED <<lockVars, mask, nest, kernelVars>>

\* vTaskSwitchContext between its locks: only pend the switch when the scheduler is
\* suspended, else go on with this task or with another.
vTaskSwitchContext(c) ==
  /\ Doing(c, "switch")
  /\ IF susp # 0
     THEN /\ pending' = [pending EXCEPT ![c] = TRUE]
          /\ Advance(c) /\ UNCHANGED asked
     ELSE /\ pending' = [pending EXCEPT ![c] = FALSE]
          /\ asked' = [asked EXCEPT ![c] = FALSE]
          /\ \/ Advance(c)
             \/ Len(stack[c]) > 1 /\ stack' = [stack EXCEPT ![c] = <<[Top(c) EXCEPT !.pos = @ + 1]>>]
  /\ UNCHANGED <<lockVars, mask, nest, swi, susp, mine>>

Step(c) ==
  \/ Mask(c) \/ Unmask(c) \/ CallLock(c) \/ SkipLock(c) \/ InLock(c) \/ Enter(c) \/ Leave(c)
  \/ Check(c) \/ LeaveForYield(c) \/ Again(c) \/ Body(c) \/ Suspend(c) \/ Resume(c) \/ Yield(c)
  \/ ClearSwi(c) \/ vTaskSwitchContext(c) \/ TakeSwi(c)

SmpNext == \E c \in Cores : Step(c) \/ CallTask(c) \/ TakeInterrupt(c)

SmpSpec == SmpInit /\ [][SmpNext]_smpVars

(* ------------------------------ properties ------------------------------ *)

Inside == {"body", "suspend", "resume", "switch"}

\* At most one core at a time is between the locks of a critical section, of a handler,
\* of a change of uxSchedulerSuspended or of a context switch, and no interrupt that
\* uses the kernel has come in between on that core.
CriticalAlone ==
  \A c, e \in Cores, i, j \in 1 .. MaxNest + 2 :
    /\ i \in DOMAIN stack[c] /\ Prog(stack[c][i].fn)[stack[c][i].pos] \in Inside
    /\ j \in DOMAIN stack[e] /\ Prog(stack[e][j].fn)[stack[e][j].pos] \in Inside
    => c = e /\ (i = j \/ (stack[c][i].fn = "critical" /\ stack[c][j].fn = "critical"))

\* While the scheduler is suspended only the core that suspended it is in a task's
\* critical section or in vTaskSwitchContext: "we should only do that if the current
\* core has suspended the scheduler".
SuspendedAlone ==
  \A c \in Cores :
    susp # 0 /\ Op(c) \in Inside /\ Top(c).fn # "isr" => mine[c] = susp

\* The assertions of vTaskSwitchContext and prvCheckForRunStateChange: a switch is
\* never made in a critical section, and a task that has enabled interrupts to yield
\* has been switched when it goes on.
SwitchAsserts ==
  \A c \in Cores :
    /\ Doing(c, "switch") => nest[c] = 0
    /\ Doing(c, "mask") /\ Top(c).pos > 1 => ~asked[c]

\* Two locks and one order: no two cores wait for locks of each other (tasks take the
\* TASK lock before the ISR lock, handlers only the latter, and prvCheckForRunStateChange
\* lets go of both).
WaitsFor(c, e) ==
  pc[c] \in {"look", "spin", "swap"} /\ <<c, arg[c]>> \notin owned /\ <<e, arg[c]>> \in owned
NoCircularWait ==
  \A c, e \in Cores : c # e => ~(WaitsFor(c, e) /\ WaitsFor(e, c))

===============================================================================
