# A TLA+ model of the E603 subsystem and of its run-time software

The repository holds the RTL of a RISC-V subsystem built around the Nuclei E603 core
(`design/`), and the Nuclei SDK that runs on it (`nuclei-sdk/`), with FreeRTOS ported to
the core. Much of the RTL is obfuscated or generated. This project models the readable
hardware that has protocol state of its own, the start-up and interrupt dispatch of the
SDK, and the parts of FreeRTOS whose correctness depends on interleaving: queues, mutexes,
stream buffers, and the multi-core locks. TLC checks them on small instances; TLAPS proves
central invariants for every value of the parameters.

## 1. Inventory

| part | where | state | operations | hard behaviour |
|---|---|---|---|---|
| NICE coprocessor | `design/soc/e603_subsys_nice_core.v` | FSM, burst counters, row buffer, adder pipe, response and error flags, lane FIFO | lbuf, sbuf, rowsum, pipeadd, add, wsetup, rsetup, crowbuf | responses that wait while other instructions run; commands ahead of answers; shared row-buffer port |
| AXI splitter | `design/soc/e603_subsys_axi_splt.v` | one id queue for reads, two for writes | route an address, a beat, a response | slaves of different speed; data before, with or after its address; full queues |
| clock-domain crossings of the AXI bridge | `e603_subsys_axi2axi_async.v`, `e603_gnrl_cdc_*` in the core's library | request/acknowledge flops | move a word between two clocks | unrelated clocks, synchroniser delay |
| SRAM controllers | `e603_subsys_dlm_icb2sram.v`, `e603_1cyc_sram_ctrl.v` | one response stage, the RAM's address register | read, write | read data must survive a stalled response without being registered |
| start-up and interrupt dispatch | `SoC/evalsoc/Common/Source/system_evalsoc.c`, `startup_evalsoc.S` | MSIP bits, handler tables, enable bits | load sections, release harts, register, dispatch | order of the harts; tables shared by all of them |
| FreeRTOS scheduler | `OS/FreeRTOS/Source/tasks.c`, `list.c`, the port | ready, delayed, overflow, pending and event lists; tick and its wrap | block, wake, tick, suspend, resume, switch | interrupts while the scheduler is suspended; tick overflow |
| FreeRTOS queues | `queue.c` | ring, count, two locks, two event lists | send, receive, peek, overwrite, reset, from tasks and interrupts | wake-ups owed while the queue is locked; waits that start again |
| FreeRTOS mutexes | `queue.c`, `tasks.c` | holder, held counts, priorities | take, give | inheritance, disinheritance after give and after timeout |
| FreeRTOS stream and message buffers | `stream_buffer.c`, notifications in `tasks.c` | ring shared without a lock, waiting tasks, notification states | send, receive, from tasks and interrupts | notification between look and block; both sides waiting |
| FreeRTOS on several cores | `portable/port.c`, `portmacro.h`, `tasks.c` | two recursive spin locks, nesting and suspension counts, pending yields | enter/leave critical, suspend/resume, switch, interrupts | lock order; a core asked to yield while it waits |
| AXI decoders, ICB arbiters and splitters, ROM, NICE decode, glue | `e603_subsys_axi1to*.v`, `e603_icb*.v`, ... | none, or one id FIFO | decode, arbitrate, wire | see section 5 |
| CPU core, UART, QSPI, UDMA, SDIO, DDR | `e603_core_wrapper.v`, ... | obfuscated or generated | - | not readable, except the generic library |
| other SDK code | drivers, profiling, demos, other operating systems, NMSIS | - | - | see section 5 |

The parts interact through channels (core - NICE unit - load/store unit - AXI splitter -
bridge - memories), through memory-mapped registers and tables (start-up and dispatch), and
through the kernel's lists (`FrtKernel` under queues, mutexes and stream buffers;
`SpinLock` under the multi-core critical sections). `PROJECT.json` lists every part with
its status and the hazards of the code, each at its line.

What makes them correct, in a sentence each: every NICE instruction gets one response with
its own result and error, and the row buffer holds the column sums; bursts come back
complete and in order, and write data reaches the slave of its own write; a word that
crosses clock domains is delivered once, intact; read data is what the memory held when
the read was accepted; no hart reads memory before it is loaded, and an interrupt runs the
handler that was registered; no wake-up is lost and no wait ends early; a task that blocks
a more urgent one runs at its priority, no longer than needed; critical sections exclude each
other on all cores, and nothing waits for ever.

## 2. Modules

| module | models | relation |
|---|---|---|
| `NiceCore` | the unit: its registers and, per Verilog block, their value after the clock edge | component |
| `NiceSys`, `MCNice` | `NiceCore` between core and memory, and the properties; requests and memory for TLC | EXTENDS `NiceCore` |
| `GnrlFifo` | `e603_gnrl_fifo` / `e603_gnrl_pipe_stage` as the splitter instantiates them | operators |
| `AxiSpltAr` | read half of the splitter between a master and N slaves | EXTENDS `GnrlFifo` |
| `AxiSpltAw`, `MCAxiWrite` | write half | EXTENDS `GnrlFifo` |
| `AsyncChannel` | abstract: a channel that holds at most one word | - |
| `CdcTxRx` | `e603_gnrl_cdc_tx_rx`: both ends and both synchronisers | implements `AsyncChannel` |
| `SramCtrl` | controller, response stage and RAM | component |
| `HartBoot`, `MCBoot` | start-up of all harts, handler tables, dispatch | component |
| `FrtKernel` | the scheduler as operators on a record | used by the next three |
| `FrtAbstractQueue` | abstract: a bounded sequence | - |
| `FrtQueue`, `MCFrtQueue` | a queue used by tasks and interrupts | EXTENDS `FrtKernel`, implements `FrtAbstractQueue` |
| `FrtMutex`, `MCFrtMutex` | mutexes with priority inheritance | EXTENDS `FrtKernel` |
| `FrtAbstractStream` | abstract: a bounded sequence of bytes or whole messages | - |
| `FrtStream`, `MCFrtStream` | a stream, message or batching buffer and task notifications | EXTENDS `FrtKernel`, implements `FrtAbstractStream` |
| `SpinLock` | `vPortRecursiveLock`, statement by statement | component |
| `SmpCritical`, `MCSmp` | critical sections, scheduler suspension, switches and interrupts on several cores | EXTENDS (composes) `SpinLock` |
| `NiceProofs`, `AxiWriteProofs`, `SmpProofs` | theorems about `NiceSys`, `AxiSpltAw`, and `SpinLock` with `SmpCritical` | each EXTENDS its module |
| `SocProofs` | theorems about `AxiSpltAr`, `CdcTxRx`, `SramCtrl` and `HartBoot` | EXTENDS the four |
| `FrtKernelProofs` | lemmas about the operators of `FrtKernel` | EXTENDS it |
| `FrtQueueProofs`, `FrtMutexProofs`, `FrtStreamProofs` | theorems about `FrtQueue`, `FrtMutex`, `FrtStream` | each EXTENDS its module and `FrtKernelProofs` |

A definition `X_suffix` directly before `X` is a faulty variant of `X` that no
specification uses. `PROJECT.json` pairs each property with such a variant; putting it in
the place of `X` makes TLC report the property violated, so no property holds by the
shape of the model alone.

Where a component is used in several ways (queue depths, builds, applications, kinds of
buffer), the way is a variable that the initial predicate takes from a constant set and no
step changes: `sys` in `AxiSpltAw`, `build` in `HartBoot`, `use` in `FrtQueue` and
`FrtStream`, `script` in `FrtMutex`. One run covers them all.

### NICE unit

The Verilog is synchronous: a step of the model is one rising edge of `nice_clk`. Wires
are operators with the Verilog's names; those that depend on the inputs of the cycle take
them as a record `i`. Each register block is an operator (`FsmStep`, `LbufStep`, ...,
`RspFifoStep`) and `CoreStep` is their conjunction. Abstractions: an instruction word is
the name of the instruction it decodes to ("illegal" for the rest); addresses count
32-bit words; a 64-bit bus word is a pair of halves; the widths are the constants
`WordMod` (2^32), `AddrMod` (2^30 words), `XMod` (2^64) and all arithmetic is modulo
them. The lane FIFO's unmasked output, read when it is empty, is an arbitrary value
(`stale`). The width converter on the ICB path passes commands and answers through
unchanged at equal widths and is not represented.

The environment in `NiceSys` is modelled from the signals:

* the core keeps a request on the channel until it is accepted, or withdraws it (flush, or
  the stage behind it is busy); an accepted instruction that is not answered in the same
  cycle pushes a tag; a response is taken only if a tag waits and the write-back port is
  free;
* memory accepts commands and answers them in order, at least one cycle later; with
  `MemErr` any access may fail, with arbitrary data;
* `Blocking` says that the core puts no multi-cycle request on the channel while a
  memory instruction is unanswered. `Stall` says that it may refuse a response. The core
  is obfuscated, so the code does not show whether it waits: the runs have `Blocking =
  TRUE`, and section 3 says what the unit does with a core that does not.

A job in `jobs` records the accesses memory performed for it, and `cols` the reference
contents of the row buffer; no step of the unit reads them.

### AXI splitter

Between two clock edges the master may raise an address or a beat (`BeginRead`;
`BeginWrite`, `RaiseAw`, `RaiseW`) and a slave a beat or a response (`RaiseR`, `RaiseB`);
`Tick` is the clock edge with every choice of ready signals. AXI's rule that an offer is
not withdrawn is respected by master and slaves, and *checked* of the splitter. Slaves
answer in the order of their addresses. Ids and payloads are left out: a read or write is
its slave, its remaining beats and a number modulo 2 that only the liveness properties
use.

The field `joint` of a system concerns `aw_w_fifo_bypass`. A single-beat write whose data is offered together
with its address is never queued: it is routed by the address itself. If the slave then
takes the address but not the beat, the route is lost: the beat is blocked, or sent to the
slave of the next address. With `joint` a slave takes the two together or not at
all, as the `e603_gnrl_axi2ficb_aw` stage of this code base does; without it and with
single-beat writes TLC refutes `WriteDataRouted` and `DataGetsThrough`. Nothing in the
repository states which slaves may be connected, so this is recorded as a hazard; the third
system of `axi_write` shows that without single-beat writes independent slaves are served
correctly.

### Clock-domain crossing

`IClk` and `OClk` are edges of two clocks that come in any order. The sender's and the
receiver's flops are the variables; a synchroniser is a sequence of `SYNC_DP` flops whose
first one samples a signal of the other clock. A flop that samples while its input changes
settles to the old or the new value: since the clocks are arbitrarily interleaved, the old
value is the edge that comes before and the new one the edge after the change. The abstract
channel is empty or holds a word; the refinement maps "holds" to the phases in which the
receiver has not yet taken the sender's word.

### SRAM controller

`ClockEdge` has every choice of stall and of a refused response. The read data
of a response is the RAM's output, which the RAM's address register selects: nothing registers
it, so it must not be disturbed by commands that wait or are taken. After a write the
simulation RAM points its address register elsewhere (`Mirror`), as the source does.

### Start-up and dispatch

Each access to memory that another hart uses is a step: the boot hart loads the sections,
clears the MSIP bits one by one, sets up its region base, exception and interrupt tables and
enters main, where it registers and enables interrupts; the other harts announce themselves,
spin on their MSIP bit and initialise their own interrupt mode. `Raise` and `TakeIrq` are the
interrupt source and the dispatch through the tables. Memory is arbitrary ("junk") at reset.
`Punctual` says that the others reach `__sync_harts` before the boot hart passes it.

### FreeRTOS on one core

`FrtKernel` keeps the kernel's lists in a record, one operator per kernel function. A critical
section is one step; between critical sections each access to shared state is a step of
its own, and ticks and other interrupts come in between. A context switch is requested
(`swi`) and happens before the task's next statement. The ready lists are sets, so round-robin
among equals is any choice.

* `FrtQueue`: `xQueueGenericSend`, `xQueueReceive`, `xQueuePeek` go through "try", "suspend",
  "lock", "timeout", "check", "place", "link", "unlockTx", "unlockRx", "resume"; the walk and
  the link of `vListInsert` are separate steps, since interrupts are enabled there.
* `FrtMutex`: each task executes a script of takes, gives and delays. Interrupts do not use
  mutexes, so the stretch under `vTaskSuspendAll` is one step. The history variable `ignored` notes
  that `xQueueGenericSend` has dropped a switch (section 3, other observations); no step reads it.
* `FrtStream`: one writer and one reader, each a task or an interrupt. The copy of the bytes
  and the move of `xHead` (`xTail`) are separate steps, and so are the steps of
  `xTaskGenericNotifyWait`: suspend, mark, move to the delayed list, resume, yield, clear.
  Bytes carry numbers in turn, modulo `Values`; the length of a message takes `Header` = 1
  cell. The loop around the reads of `xTail` makes the free space one atomic reading.

### FreeRTOS on several cores

`SpinLock` has one step per statement of `vPortRecursiveLock` that reads or writes the lock
word, the owner bits or the recursion count. `SmpCritical` gives each core a stack of
frames; the kernel's functions are sequences of steps ("mask", "getTASK", "getISR", "enter",
"check", ...), an interrupt pushes a frame, and `prvCheckForRunStateChange` is the loop that
lets go of everything and starts again. Which task a core selects is left open. The steps of
one core are in program order; weaker memory orders are not modelled (a listed hazard).

## 3. Runs

| run | instance | states | shows |
|---|---|---|---|
| `nice` | all instructions, stalls, `Blocking` | 120,972 | answers, row buffer and stores are right; `BlockingInv` holds |
| `nice_live` | memory may fail, fairness | 1,724 | an error is reported by its own instruction only; every instruction is accepted and answered |
| `axi_read` | 3 slaves, bursts of 1 and 2, queue of 3 | 15,974 | in-order complete reads, every read finishes |
| `axi_write` | three systems: queues of 2; queues of 1 without CUT_READY; independent slaves with bursts | 11,394 | data routing and completeness, responses in order, progress |
| `cdc` | synchronisers of depth 3, three words | 181 | data stable when sampled, abstract channel implemented, sender gets ready again |
| `sram` | two banks of two words | 100,352 | read data survives stalls; every command taken |
| `boot` | three harts with ECLIC, one with PLIC | 1,564 | nothing read before it is loaded; registered handlers serve; every hart reaches main |
| `frt_queue` | three tasks and interrupts: readers, senders, a mailbox that is overwritten and reset | 3,574,590 | no lost wake-up, no early timeout, consistent lists, a bounded sequence implemented |
| `frt_mutex` | three tasks: one mutex; two held at once; two waiters of which one gives up | 90,563 | no inversion, priorities given up again, highest priority runs, scripts end |
| `frt_stream` | seven uses: kinds of buffer, priority orders, an interrupt on either side | 1,106,564 | no lost notification, no mutual wait, sequence of bytes or messages implemented |
| `frt_stream_partial` | the same | - | *violation*: a timed-out send writes less than it could |
| `smp` | two cores, nesting 2, interrupts on both | 1,857,151 | critical sections and suspension exclude, assertions hold, no circular wait |

Bounds. NICE: two values per word distinguish sums and lanes (`WordMod = 1` in `nice_live`,
whose properties do not look at data); four words of memory let the rows of lbuf (0..2), rowsum
(1..3) and sbuf (3,0,1) overlap and the last one wrap; accesses in flight cannot exceed 3. The
core's tags are abstracted to their parity (`ITags`). AXI: three slaves let two be ahead of a
third; bursts of 1 and 2 have a beat that is last, one that is not, and the bypass; `MaxTodo`
bounds how far the master runs ahead with data it has not sent. FreeRTOS: a 2-bit tick counter
wraps within every wait (`TickBits`), `xNumOfOverflows` is kept modulo 2 since it is only
compared; `MaxCalls` (1 per task; three tasks), `MaxPended` (ticks while the scheduler is
suspended) and `MaxLag` (ticks between two steps of the tasks) bound the rest; waits of 1, 2
and portMAX_DELAY all occur; a buffer of four cells wraps, fills and falls below the trigger.
`frt_stream` has no bound on the number of calls. Multi-core: `MaxDepth` 3, `MaxNest` 2 and
`MaxSusp` 1 exercise recursion of the locks; two cores are what the lock order needs, and the
properties are proved for any number. `CHECK_DEADLOCK FALSE` is used in `frt_queue` and
`frt_mutex` only, whose tasks come to an end. `smp` uses the symmetry of the cores, which no
operator tells apart, and checks no liveness.

Fairness. NICE: the clock runs, a response or command is not refused for ever, memory answers
what it accepted; the core is never forced to withdraw a request (`~Withdraws`). AXI: slaves and
master are not unready for ever, slaves answer what they accepted, the master sends the beats
and addresses of the writes it has begun. CDC: both clocks run. SRAM: neither a stall nor the
refusal of a response lasts for ever. Start-up: every hart executes. Mutexes: the processor
executes (some ready task, not each one) and the timer ticks. Queues, stream buffers and the
multi-core kernel are checked for safety only; their "nobody waits in vain" is stated as
invariants (`NoLostWakeup`, `NoLostNotification`, `NotBothAsleep`, `NoCircularWait`).

### Finding

`xStreamBufferSend` (`stream_buffer.c:906`) reads the free space again after its wait only if
the last reading was zero. A send of three bytes that found room for two, waited and timed out
writes two, although the reader has emptied the buffer meanwhile; `stream_buffer.h:553`
promises "as many bytes as possible". For a message buffer the same stale reading makes the
send fail although the message would fit.

### Other observations

These came up while modelling; no run of the project depends on them.

* `rowsum_done` (`e603_subsys_nice_core.v:485`) is any response handshake during ROWSUM, and
  the adder pipe is fed by `nice_req_valid` alone (line 335). With `Blocking = FALSE`, a core
  that issues rowsum before it has taken an earlier response ends the rowsum early, and a
  pipeadd that waits behind a memory instruction enters the pipe every cycle it waits.
* The NICE demo's `insn.h:23` says lbuf and sbuf move four words; `clonum` makes it three (as
  the "12-byte" sentence of the same header says).
* `__sync_harts` (`system_evalsoc.c:1294`): with `Punctual = FALSE` a hart that arrives after
  the boot hart has cleared the MSIP bits spins for ever.
* In PLIC mode with several harts, each hart's `Interrupt_Init` (line 963) refills the tables
  that all harts share, with no barrier before the boot hart's main: a handler registered
  meanwhile is replaced by the default one.
* `xQueueGenericReset` (`queue.c:334`) wakes one of several tasks that wait for room in a
  queue that is then empty; with two senders that wait for a queue of two places and a reset TLC finds
  `NoLostRoom` violated: the second sender sleeps on beside a free place until another item is
  taken or its time is over. The comment at line 331 speaks of one task, so this is no divergence; the use is
  left out of `frt_queue`, and `ResetWakesEnough` names what remains.
* `xQueueGenericSend` (`queue.c:1052`) drops the switch that `xTaskPriorityDisinherit` asks for when
  a task waits for the mutex, although `tasks.c:6747` says it should occur "whether a task is waiting
  on it or not". A ready task between the giver's old and its new priority then waits until the
  running task blocks or yields or another event asks for a switch; a tick does so only if an equal of
  the giver is ready. One mutex is enough: the more urgent waiter has timed out and is about to
  disinherit, a less urgent one is still in the list. The third program of `frt_mutex` gets there; from
  that moment (`ignored`) an inversion is possible too, and the properties speak of the time before it.
* `xTaskPriorityInherit` (`tasks.c:6601`) leaves a task that inherits a priority while it waits
  in another mutex's event list at its place, so that list is then not sorted, and does not pass the
  priority on to the holder of that mutex. In such a chain (a task waits for one mutex while it holds
  another) a waiter can outrank the holder, and a timeout can raise a ready holder above the running task
  without a switch (`vTaskPriorityDisinheritAfterTimeout`). The programs of `frt_mutex` have no such chain.
* A reader below the trigger level and a writer that wants more than is left wait for each other
  until one times out: `NotBothAsleep` excludes it only when the two fit together.

## 4. Proofs

Every theorem holds for all values of the constants that the named assumptions of its module
allow. Some have a further hypothesis, each about the surroundings of the component
and explained in sections 2 and 3: `Blocking`, `SlavesFit`, `OnePlicHart`.

`NiceProofs`, assuming `ModAssumption` and `SysAssumption` (positive widths, an even address
space, well-formed requests):

* `TypeCorrect`: `Spec => []TypeOK`. Each register block keeps its width; the lane FIFO
  never exceeds its depth because writes are gated by it. `TypeOK` is inductive by itself.
* `BlockingCorrect`: `Blocking /\ Spec => []BlockingInv`, with
  `BlockingInv == TypeOK /\ BurstAccounting /\ MemRunsAlone`. `HoldupCoversAccess` and
  `RowbufPortExclusive` are not inductive: the state leaves LBUF with the *third* answer,
  so one has to know that no fourth access can be in flight. `BurstAccounting` says that
  commands sent equal answers received plus accesses in flight, for the burst that
  runs, and that the counters of the others are zero; `MemRunsAlone` says that no
  other response can be taken meanwhile, which is what a core that does not wait would
  violate. Each needs the other.
* `HoldupCorrect`, `RowbufPortCorrect`: consequences.
* `NiceCorrect`: `Blocking /\ Spec => []NiceInv`. `NiceInv` adds to the counts what the data
  are: the running job's accesses are those of its row (`JobTracked`), an error is in the
  unit's flag or in an answer on its way (`ErrTracked`), the pipe holds the sums of its jobs in
  order (`PipeTracked`), the lane FIFO selects the half that carries the word
  (`LaneTracked`), the row buffer is the reference less the words still on their way
  (`ColsTracked`) and the accumulator the sum of the words it has (`SumTracked`). None of the
  value properties is inductive without them, since a value is right when an answer
  *arrives* and the property speaks of when it is *used*, up to three cycles later.
* `ResponseCorrect`, `ErrorsCorrect`, `ColumnsCorrect`, `StoresCorrect`: consequences, for every
  word and address width, wrap-around included.

`SocProofs` on the read half (`ArAssumption`) and `AxiWriteProofs` (`AwAssumption`, `SlavesFit`):

* `RoutesCorrect`: `ArSpec => [](ArTypeOK /\ RouteMatches)`, inductive. The lemma
  `HeadOwnsR` shows that whatever the unmasked queue output is, a beat on the R channel
  belongs to the oldest read; `BeatKeepsMatch` and `AddressKeepsMatch` show that popping
  with the last beat and pushing with an address keep queue and reads in step.
  `ReadsInOrderCorrect` is a consequence.
* `WritesAgree`: `AwSpec => []AwInv`. The invariant relates four lists: the response queue and the
  slaves' writes are the same slaves in the same order; the data queue is the master's writes whose
  address is out; the last so many slaves' writes still miss exactly the beats the master
  has left, and those before them miss none. All four move in one clock edge, in five ways
  (address alone, beat alone, both, with the bypass, last beat), which is why the properties,
  each about two of the lists, need the whole.
  `SlavesFit` excludes the one system in which the lists come apart (`joint`, section 2).
* `WriteDataRoutedCorrect`, `WriteDataCompleteCorrect`, `ResponsesInOrderCorrect`,
  `QueuesFitCorrect`: consequences, for any number of slaves, depth and burst length.

`SocProofs` on the clock-domain crossing, for every synchroniser depth:

* `CdcCorrect`: `CdcSpec => []CdcInv`. The invariant says that the handshake is in one of five
  phases (idle, asking, acknowledged, withdrawn, draining), each of which determines the
  flops at both ends and that each synchroniser holds a single edge on its way. It is needed
  because the data's stability rests on what the flops of the *other* domain hold.
* `DataStableCorrect`: a consequence. `CdcRefinesChannel`: every step is a step of the
  abstract channel or a stutter (the safety part of `ImplementsChannel`).

`SocProofs` on the SRAM: `SramTypeCorrect` and `ReadDataHeldCorrect`, for any number of banks, depth and
data. `ReadDataHeld` is inductive beside the types: a bank's address register moves only with
its chip select, and a command that is accepted replaces the response that waited.

`SocProofs` on the start-up, for any harts and builds:

* `SyncCorrect`: `SyncInv` says that until the boot hart has loaded the sections every other hart is
  before `__sync_harts` or waits there with its MSIP bit set, and that afterwards nothing is
  uninitialised. `SectionsReadyCorrect` is a consequence.
* `ServedByRegisteredCorrect`: from `ServeInv`, which adds that nothing is enabled before main, that
  what is enabled has its handler in the table, and that the way from the trap entry to the table
  is complete. It assumes `OnePlicHart`, since a second hart's initialisation may undo a
  registration (section 3, other observations).

`SmpProofs`, about `SpinLock`, for any number of cores and locks (`SpinLockAssumption`: the
recursion depth fits in 8 bits):

* `SpinLockCorrect`: `SpinSpec => []SpinInv`: at most one core "has" a lock, the lock word is
  set while one does, and owner bit and recursion count agree with where that core is in
  `vPortRecursiveLock` (owner bit and count are written by separate statements, so the invariant
  has to say which of them is already up to date).
* `SpinLockExcludes`, `SpinLockAsserts`: mutual exclusion, and the configASSERTs hold.

and about `SmpCritical`, for any number of cores, nesting and suspensions (`SmpAssumption`):

* `SmpUsesLocks`: every step of `SmpCritical` is a step of `SpinLock` or leaves its variables alone
  (a refinement, with the identity as mapping); hence `SmpExcludes`, `SmpLocksAssert`.
* `SmpCorrect`: `SmpSpec => []SmpInv`. The properties speak of the steps between the locks; to
  get there the invariant has to say at *every* step of every function what the core has. `Shape`
  says which frames can lie on which: an interrupt comes in only where the frame below has
  nothing, a nested section only in the body of another. `Place` gives, for the frame on top, the
  interrupt threshold, the nesting count and the number of times each lock was taken, the TASK lock
  once more for every suspension. `LockCall` ties a call of `vPortRecursiveLock` to the step it
  was made from, `Suspensions` says that one core stands for all suspensions, and `Asked` where a
  request to switch is: pending, on its way to `vTaskSwitchContext`, or put off to the end
  of `xTaskResumeAll`. There is one lemma per action; `MoveKeeps`, `PopKeeps` and `PushKeeps` do
  the work on the stacks once for all of them, and the tables of steps (`AtGet`, `AtRel`, ...)
  are facts about the program text.
* `CriticalAloneCorrect`: a frame between the locks means that the core has the ISR lock.
  `SuspendedAloneCorrect`: the TASK lock is kept over a suspension, so who has it is the one that
  suspended. `SwitchAssertsCorrect`: when the loop of `prvCheckForRunStateChange` masks interrupts
  again the request must have been served, none of the three places being left for it.
  `NoCircularWaitCorrect`: no wait for the TASK lock is made with the ISR lock held.

`FrtKernelProofs` (`KernelAssumption`) is about the operators of `FrtKernel` alone, for any tasks,
priorities, event lists and width of the tick counter: `KernelOK` (types, priorities above the idle
task's, `ListsOK`, `TimesOK`) is kept by `xTaskRemoveFromEventList`, by the tick, by
`vTaskPlaceOnEventList` and by the loops of `xTaskResumeAll` and `prvUnlockQueue`, and each of them asks
for a switch when it has made a task ready that outranks the current one (`WakeFirstServes`,
`TickServes`, `ResumeServes`). `TickCountedFields` shows that the delayed list is empty whenever
`taskSWITCH_DELAYED_LISTS` exchanges the lists, its configASSERT (`tasks.c:253`). `WokenOK` is the
weaker form that holds when a notification comes between `xTaskGenericNotifyWait`'s mark and its
block. A loop is a recursive function; what it computes is shown by induction in the form "a set of
numbers that has 0 and with n also n + 1 has all" (`Reaches`, from the least number missing), which
needs no operator as a parameter. The three modules that follow rest on these lemmas.

`FrtQueueProofs`, for any tasks and priorities, every length, width of the tick counter, calls and
interrupts (`KernelAssumption`; `QueueAssumption`: an overwriting call is made only on a queue of
length one, the configASSERTs at `queue.c:952` and `queue.c:1170`):

* `QueueRefines`: `QueueSpec => ImplementsQueue`. Every copy into or out of the ring is a step of
  the bounded sequence of `FrtAbstractQueue`, every other step a stutter. It rests on
  `QueueInv`: the write pointer is as far ahead of the read pointer as `uxMessagesWaiting`
  says, modulo the length, whichever end was written, and the cells between hold items; and every
  call in progress has a legal item and position. `PutLast`, `PutFirst` and `TakeFirst` say what
  the three copies do to the sequence a ring holds, the wrap of either pointer included
  (`pcReadFrom` names the cell *before* the first item, so that the empty and the full ring
  differ only in the count). The scheduler plays no part: the copies are in critical sections.
* `KernelStaysConsistent`: `QueueSpec => []KernelConsistent`, on the lemmas of `FrtKernelProofs`.
  The invariant is `SchedInv`, which ties calls to the kernel: a call is between
  `vTaskSuspendAll` and `xTaskResumeAll` exactly while the scheduler is suspended, once, by
  the current task; that task is ready until it has placed itself; both locks are set from
  `prvLockQueue` to the first half of `prvUnlockQueue`; the list a task walks is the one it links itself
  into. `KernelConsistent` alone is not inductive: that no interrupt changes an event list rests on
  the locks, and that the right task runs after `xTaskResumeAll` rests on who suspended the scheduler.
* `NeverEarly`: `QueueSpec => []TimeoutNotEarly`. `TimedInv` accounts for a call's ticks: the time it
  has used up (wait asked for less wait left), plus the ticks since it last noted the time, the
  wrap of the counter included, plus the pended ticks are at most its age, or its whole wait is
  over already. The pended ticks
  have to be in the sum, since `xTaskCheckForTimeOut` runs while the scheduler is suspended and does not
  see them; `ResumeCounted` shows that `xTaskResumeAll` moves all of them into the counter.
  The overflow count may be reduced to one bit because a call that is older than one round
  of the counter has its whole wait behind it.
* `WakeUpsReach`: `QueueSpec => [](NoLostItem /\ (ResetWakesEnough => NoLostWakeup))`. That nobody waits
  for an item that no reader comes for holds for every application; that nobody waits for room
  that no sender comes for needs `ResetWakesEnough` (a queue that is reset has one place, or one task
  that sends to it), which TLC shows to be necessary (section 3, other observations). `WakeAll` counts: as
  long as an event list is not empty, the items (places) are at most the tasks that are on their way
  to them plus the wake-ups the lock has counted (`Balanced`), unless the lock has counted as many as
  there are tasks and so will wake everybody (`AllOwed`, the cap of `prvIncrementQueueTxLock`); a task
  about to enter the list has found no more than what the lock has counted since (`Placed`); and whoever
  is in the list wants what it is for and will try again when it leaves (`Waiting`). The property itself is
  far from inductive: it speaks of one task on its way, and the next step may be that task's.

`FrtMutexProofs`, for any tasks, priorities, mutexes and applications (`MutexAssumption`: the entries of
a script are takes, gives and delays):

* `MutexInvariant`: `MutexSpec => []BaseInv`, for every application: the kernel's lists are consistent, a
  task counts exactly the mutexes that name it (`HeldOK`), only a task that holds one is above its
  own priority (`RaisedOK`), and whoever is in an event list waits for that mutex with time left. The
  kernel as a whole is consistent although the lists may be out of order, since no operator of it
  relies on their order.
* `PriorityIsJustified`, `NeverInverted`, `HighestHasProcessor`: the three invariants of `frt_mutex`. The
  first holds for every application (its second half speaks of `OneAtATime` only), the other two for
  those in which a give is between any two takes of a task, and each until a switch is `ignored`: both
  hypotheses are needed (section 3, other observations; TLC finds the counterexamples). The strengthening
  `TopInv` is about who has lent what to whom. None of the three is inductive, because each rests on the
  others in another state of a mutex: while it is *held*, its waiters are not above the holder, and those
  above the holder's own priority know that they have lent it theirs (`LentOK`); while it is *free*, some
  ready task that asks for it is at least as urgent as every waiter (`FreeOK`), and since the
  most urgent ready task runs, whoever takes it next is (`TakesTop`); a raised priority is lent by a
  task that will still take it back (`JustOK`); and the first waiter is the most urgent (`SortedOK`),
  on which the give and the timeout rest (`GivesTop`, `DisinheritsTop`). A waiter has its own priority,
  since it holds nothing (`OneOK`), so the order of the lists cannot go stale.

`FrtStreamProofs`, for any tasks, priorities and uses of the buffer (`StreamAssumption`: a trigger level
between 1 and what the buffer can hold, 1 for messages, and distinct sides, of which at most one is
an interrupt):

* `StreamInvariant`: `StreamSpec => []StreamInv`, the conjunction of `CallsOK` (calls and types),
  `SchedOK` (who may run and who is ready), `RingOK` and `NotesOK`.
* `StreamRefines`: `StreamSpec => ImplementsStream`, bytes or whole messages in order. The two sides move
  `xHead` and `xTail` without a lock, the writer after it has copied and the reader after it has read:
  `RingOK` says that what the writer believes of the free space is at most what there is, that the cells
  it has copied ahead of `xHead` are not the ones the reader still reads, and that the contents of a
  message buffer are whole frames.
* `NotificationNotLost`: `StreamSpec => []NoLostNotification`. `NotesOK` follows a side from the moment it
  found too little until it is notified or gives up, through the five steps of
  `xTaskGenericNotifyWait`: from the first on the pointer of the buffer names it, from the second on its
  notification is awaited, and all along what it waits for has not come or the other side is on
  its way to `sbSEND_COMPLETED` or `sbRECEIVE_COMPLETED`. The property sees only the fourth step, sleeping.
* `NeverBothAsleep`: a consequence with `RingOK`, for sizes and trigger levels that fit together.

The invariants were checked with TLC on the instances of section 3 before they were proved.

Every invariant of the passing runs is thus a theorem, and so is the safety part of each refinement. Only
model-checked: the liveness properties and the fairness in `ImplementsChannel`, which are beyond the
prover. The finding is a run, not a theorem.

## 5. Not modelled, and the plan

* *Obfuscated and generated RTL* (the core, UART, QSPI, UDMA, SDIO, DDR): no definition could
  be compared with its source.
* *AXI decoders, NICE decode, glue*: combinational; *ICB arbiters and splitters*: the id-FIFO
  scheme of the AXI splitter; *ROM, default slave*: single-register responders.
* *FreeRTOS*: task creation and deletion, queue sets, event groups, software timers, tickless
  idle, heaps, `xStreamBufferReset`, priority changes by the application.
* *Other operating systems, NMSIS DSP and NN*: third-party kernels of which one at most is linked
  to an application, single-instruction wrappers and numeric code. They are most of the C
  sources (25,000 lines of `core_feature_dsp.h` alone wrap one instruction each), so the share
  of all C lines that the modules cover stays small, while the Verilog that is modelled is not C.
* *Drivers, profiling, demos*: register accesses and straight-line code.

Next: mutexes held together, with a weaker `LentOK`; event groups and timers on top of `FrtQueue`.
