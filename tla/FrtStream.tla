------------------------------- MODULE FrtStream -------------------------------
(***************************************************************************)
(* A FreeRTOS stream or message buffer (nuclei-sdk/OS/FreeRTOS/Source/          *)
(* stream_buffer.c) between one writer and one reader, each a task or an         *)
(* interrupt, and the task notifications (tasks.c) that wake the side that waits. *)
(* The two sides share the buffer without a lock: the writer alone moves xHead    *)
(* and the reader alone xTail, after the bytes have been copied.  Each critical   *)
(* section and each access to shared state outside one is a step of its task.    *)
(***************************************************************************)
EXTENDS FrtKernel

CONSTANTS Isr,          \* stands for "an interrupt" as a writer or reader
          Null,         \* no task
          Header,       \* sbBYTES_TO_STORE_MESSAGE_LENGTH, in cells of the buffer
          Values,       \* bytes carry the numbers 0 .. Values - 1 in turn
          Uses,         \* ways to use a buffer
          MaxPended     \* bound: ticks while the scheduler is suspended

\* kind: stream, message or batching buffer; length: xLength, one more than it can
\* hold; trigger: xTriggerLevelBytes; writer and reader; sizes and rooms: how much is
\* sent and how much the reader has room for; waits: each task's xTicksToWait.  A
\* message buffer is created with the trigger level 0, which becomes 1.
ASSUME StreamAssumption ==
  /\ Isr \notin Tasks /\ Null \notin Tasks /\ Header = 1 /\ Values \in Nat \ {0}
  /\ \A u \in Uses :
       /\ u.kind \in {"stream", "message", "batching"} /\ u.length \in Nat /\ u.length > 1
       /\ u.trigger \in 1 .. u.length - 1 /\ (u.kind = "message" => u.trigger = 1)
       /\ u.sizes \subseteq Nat /\ u.rooms \subseteq Nat
       /\ u.writer \in Tasks \cup {Isr} /\ u.reader \in Tasks \cup {Isr} /\ u.writer # u.reader
       /\ \A t \in Tasks : u.waits[t] \subseteq TickType

VARIABLES use,        \* how the buffer is used (never changes)
          k,          \* the kernel
          note,       \* ucNotifyState of each task
          s,          \* the buffer: cells, xHead, xTail, xTaskWaitingToSend and -Receive
          me,         \* each task's call
          sent,       \* number of the next byte to send
          got         \* what the last read delivered (history)

streamVars == <<use, k, note, s, me, sent, got>>

NoCall == [pc |-> "idle", size |-> 0, left |-> 0, over |-> 0, tick |-> 0,
           n |-> 0, block |-> FALSE, data |-> <<>>]

StreamInit ==
  /\ use \in Uses
  /\ s = [cell |-> [i \in 0 .. use.length - 1 |-> 0], head |-> 0, tail |-> 0,
          waitTx |-> Null, waitRx |-> Null]
  /\ k = [KernelInit EXCEPT !.st = [t \in Tasks |->
            IF t \in {use.writer, use.reader} THEN "ready" ELSE "suspended"]]
  /\ note = [t \in Tasks |-> "none"] /\ me = [t \in Tasks |-> NoCall]
  /\ sent = 0 /\ got = <<>>

(* ------------------------------- the buffer ------------------------------ *)

IsMessage == use.kind = "message"
Advance(i, n) == (i + n) % use.length

prvBytesInBuffer == (s.head - s.tail) % use.length
\* The reads of xTail and xHead are repeated until xTail has not moved: the result is
\* the space there was at one moment.
xStreamBufferSpacesAvailable_all_cells == use.length - prvBytesInBuffer
xStreamBufferSpacesAvailable == use.length - 1 - prvBytesInBuffer

\* xRequiredSpace
Required(size) ==
  IF IsMessage THEN size + Header ELSE Min({size, use.length - 1})

\* How much prvWriteMessageToBuffer writes when it is told of this much space.
Writable(size, space) ==
  IF IsMessage THEN IF space >= Required(size) THEN size ELSE 0
  ELSE Min({size, space})

Payload(n) == [i \in 1 .. n |-> (sent + i - 1) % Values]

\* prvWriteBytesToBuffer, for the length of a message and for its bytes.
WriteBytes(cell, data, at) ==
  [i \in DOMAIN cell |->
     LET d == (i - at) % use.length IN IF d < Len(data) THEN data[d + 1] ELSE cell[i]]
Written(data) == WriteBytes(s.cell, (IF IsMessage THEN <<Len(data)>> ELSE <<>>) \o data, s.head)
HeadAfter(data) == Advance(s.head, Len(data) + IF IsMessage THEN Header ELSE 0)

\* prvReadBytesFromBuffer
ReadBytes(at, n) == [i \in 1 .. n |-> s.cell[Advance(at, i - 1)]]

\* prvReadMessageFromBuffer: what it copies to a reader with this much room.
Copied(room, avail) ==
  IF IsMessage
  THEN LET len == s.cell[s.tail]
       IN ReadBytes(Advance(s.tail, Header), IF len > room THEN 0 ELSE Min({len, avail - Header}))
  ELSE ReadBytes(s.tail, Min({room, avail}))
TailAfter(data) == Advance(s.tail, Len(data) + IF IsMessage THEN Header ELSE 0)

\* xBytesToStoreMessageLength of xStreamBufferReceive: a read needs more than this.
Threshold == CASE use.kind = "message"  -> Header
               [] use.kind = "batching" -> use.trigger
               [] use.kind = "stream"   -> 0

(* --------------------------- task notifications -------------------------- *)

\* xTaskGenericNotify: from a task, also while the scheduler is suspended.
xTaskGenericNotify(kk, t) ==
  IF note[t] # "waiting" THEN kk
  ELSE portYIELD_if(prvAddTaskToReadyList(kk, t), Outranks(kk, t))

\* xTaskGenericNotifyFromISR, in a service routine that ends with portYIELD_FROM_ISR.
xTaskGenericNotifyFromISR(t) ==
  IF note[t] # "waiting" THEN k
  ELSE LET k1 == [k EXCEPT !.yield = @ \/ Outranks(k, t)]
       IN portYIELD_if(IF k.susp = 0 THEN prvAddTaskToReadyList(k1, t)
                       ELSE [k1 EXCEPT !.pending = Append(@, t)], Outranks(k, t))

Notified(t) == note' = [note EXCEPT ![t] = "received"]

\* xTaskGenericNotifyStateClear
Cleared(t) == note' = [note EXCEPT ![t] = IF @ = "received" THEN "none" ELSE @]

(* ------------------------- a task's own steps --------------------------- *)

At(t, pc) == Running(k, t) /\ me[t].pc = pc
Goto(t, pc) == me' = [me EXCEPT ![t].pc = pc]
Return(t) == me' = [me EXCEPT ![t] = NoCall]

\* xTaskGenericNotifyWait
NotifyWaitSuspend(t) ==
  /\ At(t, "waitSuspend")
  /\ k' = vTaskSuspendAll(k)
  /\ Goto(t, "waitMark")
  /\ UNCHANGED <<note, s, sent, got>>

NotifyWaitMark_always(t) ==
  /\ At(t, "waitMark")
  /\ me' = [me EXCEPT ![t].pc = "waitBlock", ![t].block = TRUE]
  /\ note' = [note EXCEPT ![t] = "waiting"]
  /\ UNCHANGED <<k, s, sent, got>>
NotifyWaitMark(t) ==
  /\ At(t, "waitMark")
  /\ IF note[t] = "received"
     THEN Goto(t, "waitResume") /\ UNCHANGED note
     ELSE /\ me' = [me EXCEPT ![t].pc = "waitBlock", ![t].block = TRUE]
          /\ note' = [note EXCEPT ![t] = "waiting"]
  /\ UNCHANGED <<k, s, sent, got>>

NotifyWaitBlock(t) ==
  /\ At(t, "waitBlock")
  /\ k' = prvAddCurrentTaskToDelayedList(k, me[t].left, TRUE)
  /\ Goto(t, "waitResume")
  /\ UNCHANGED <<note, s, sent, got>>

NotifyWaitResume(t) ==
  /\ At(t, "waitResume")
  /\ k' = xTaskResumeAll(k)
  /\ Goto(t, IF me[t].block /\ ~k'.yield THEN "waitYield" ELSE "waitDone")
  /\ UNCHANGED <<note, s, sent, got>>

NotifyWaitYield(t) ==
  /\ At(t, "waitYield")
  /\ k' = portYIELD(k)
  /\ Goto(t, "waitDone")
  /\ UNCHANGED <<note, s, sent, got>>

NotifyWaitDone(t) ==
  /\ At(t, "waitDone")
  /\ note' = [note EXCEPT ![t] = "none"]
  /\ me' = [me EXCEPT ![t].pc = IF t = use.writer THEN "sendNull" ELSE "receiveNull",
                      ![t].block = FALSE]
  /\ UNCHANGED <<k, s, sent, got>>

(* xStreamBufferSend *)

\* Up to vTaskSetTimeOutState; a message that can never fit does not wait.
BeginSend(t, size, wait) ==
  /\ At(t, "idle") /\ t = use.writer
  /\ LET left == IF IsMessage /\ Required(size) > use.length - 1 THEN 0 ELSE wait
         call == [NoCall EXCEPT !.size = size, !.left = left]
     IN me' = [me EXCEPT ![t] =
          IF left = 0 THEN [call EXCEPT !.pc = "sendLook"]
          ELSE [call EXCEPT !.pc = "sendCheck", !.over = k.over, !.tick = k.tick]]
  /\ UNCHANGED <<k, note, s, sent, got>>

SendCheck(t) ==
  /\ At(t, "sendCheck")
  /\ LET space == xStreamBufferSpacesAvailable
         short == space < Required(me[t].size)
     IN /\ me' = [me EXCEPT ![t].n = space, ![t].pc = IF short THEN "waitSuspend" ELSE "sendLook"]
        /\ IF short THEN Cleared(t) /\ s' = [s EXCEPT !.waitTx = t] ELSE UNCHANGED <<note, s>>
  /\ UNCHANGED <<k, sent, got>>

SendNull(t) ==
  /\ At(t, "sendNull")
  /\ s' = [s EXCEPT !.waitTx = Null]
  /\ Goto(t, "sendTimeout")
  /\ UNCHANGED <<k, note, sent, got>>

\* xTaskCheckForTimeOut
Elapsed(t) == (k.tick - me[t].tick) % (portMAX_DELAY + 1)
SendTimeout(t) ==
  /\ At(t, "sendTimeout")
  /\ me' = [me EXCEPT ![t] =
       IF @.left = portMAX_DELAY THEN [@ EXCEPT !.pc = "sendCheck"]
       ELSE IF (k.over = @.over \/ k.tick < @.tick) /\ Elapsed(t) < @.left
       THEN [@ EXCEPT !.pc = "sendCheck", !.left = me[t].left - Elapsed(t), !.over = k.over, !.tick = k.tick]
       ELSE [@ EXCEPT !.pc = "sendLook", !.left = 0]]
  /\ UNCHANGED <<k, note, s, sent, got>>

\* The space is read again only when the last reading was zero.
SendLook(t) ==
  /\ At(t, "sendLook")
  /\ LET space == IF me[t].n = 0 THEN xStreamBufferSpacesAvailable ELSE me[t].n
         count == Writable(me[t].size, space)
     IN IF count = 0 THEN Return(t)
        ELSE me' = [me EXCEPT ![t].pc = "sendCopy", ![t].data = Payload(count)]
  /\ UNCHANGED <<k, note, s, sent, got>>

SendCopy(t) ==
  /\ At(t, "sendCopy")
  /\ s' = [s EXCEPT !.cell = Written(me[t].data)]
  /\ Goto(t, "sendHead")
  /\ UNCHANGED <<k, note, sent, got>>

SendHead(t) ==
  /\ At(t, "sendHead")
  /\ s' = [s EXCEPT !.head = HeadAfter(me[t].data)]
  /\ sent' = (sent + Len(me[t].data)) % Values
  /\ Goto(t, "sendTrigger")
  /\ UNCHANGED <<k, note, got>>

SendTrigger_above(t) ==
  /\ At(t, "sendTrigger")
  /\ IF prvBytesInBuffer > use.trigger
     THEN me' = [me EXCEPT ![t] = [NoCall EXCEPT !.pc = "doneSuspend"]]
     ELSE Return(t)
  /\ UNCHANGED <<k, note, s, sent, got>>
SendTrigger(t) ==
  /\ At(t, "sendTrigger")
  /\ IF prvBytesInBuffer >= use.trigger
     THEN me' = [me EXCEPT ![t] = [NoCall EXCEPT !.pc = "doneSuspend"]]
     ELSE Return(t)
  /\ UNCHANGED <<k, note, s, sent, got>>

(* xStreamBufferReceive *)

BeginReceive(t, room, wait) ==
  /\ At(t, "idle") /\ t = use.reader
  /\ me' = [me EXCEPT ![t] = [NoCall EXCEPT !.size = room, !.left = wait,
              !.pc = IF wait = 0 THEN "receiveLook" ELSE "receiveCheck"]]
  /\ UNCHANGED <<k, note, s, sent, got>>

ReceiveCheck(t) ==
  /\ At(t, "receiveCheck")
  /\ LET avail == prvBytesInBuffer
         short == avail <= Threshold
     IN /\ me' = [me EXCEPT ![t].n = avail, ![t].pc = IF short THEN "waitSuspend" ELSE "receiveCopy"]
        /\ IF short THEN Cleared(t) /\ s' = [s EXCEPT !.waitRx = t] ELSE UNCHANGED <<note, s>>
  /\ UNCHANGED <<k, sent, got>>

ReceiveNull(t) ==
  /\ At(t, "receiveNull")
  /\ s' = [s EXCEPT !.waitRx = Null]
  /\ Goto(t, "receiveLook")
  /\ UNCHANGED <<k, note, sent, got>>

ReceiveLook(t) ==
  /\ At(t, "receiveLook")
  /\ me' = [me EXCEPT ![t].n = prvBytesInBuffer, ![t].pc = "receiveCopy"]
  /\ UNCHANGED <<k, note, s, sent, got>>

ReceiveCopy(t) ==
  /\ At(t, "receiveCopy")
  /\ LET data == IF me[t].n > Threshold THEN Copied(me[t].size, me[t].n) ELSE <<>>
     IN IF data = <<>> THEN Return(t)
        ELSE me' = [me EXCEPT ![t].pc = "receiveTail", ![t].data = data]
  /\ UNCHANGED <<k, note, s, sent, got>>

ReceiveTail(t) ==
  /\ At(t, "receiveTail")
  /\ s' = [s EXCEPT !.tail = TailAfter(me[t].data)]
  /\ got' = me[t].data
  /\ me' = [me EXCEPT ![t] = [NoCall EXCEPT !.pc = "doneSuspend"]]
  /\ UNCHANGED <<k, note, sent>>

(* sbSEND_COMPLETED, sbRECEIVE_COMPLETED *)

CompletedSuspend(t) ==
  /\ At(t, "doneSuspend")
  /\ k' = vTaskSuspendAll(k)
  /\ Goto(t, "doneNotify")
  /\ UNCHANGED <<note, s, sent, got>>

\* The pointer is cleared before the scheduler resumes; no interrupt reads it meanwhile,
\* for the side that this call is on is a task.
Waiter(t) == IF t = use.writer THEN s.waitRx ELSE s.waitTx
CompletedNotify(t) ==
  /\ At(t, "doneNotify")
  /\ IF Waiter(t) = Null THEN UNCHANGED <<k, note, s>>
     ELSE /\ k' = xTaskGenericNotify(k, Waiter(t))
          /\ Notified(Waiter(t))
          /\ s' = IF t = use.writer THEN [s EXCEPT !.waitRx = Null] ELSE [s EXCEPT !.waitTx = Null]
  /\ Goto(t, "doneResume")
  /\ UNCHANGED <<sent, got>>

CompletedResume(t) ==
  /\ At(t, "doneResume")
  /\ k' = xTaskResumeAll(k)
  /\ Return(t)
  /\ UNCHANGED <<note, s, sent, got>>

(* ------------------------------- interrupts ------------------------------ *)

\* xStreamBufferSendFromISR
SendFromISR(size) ==
  /\ use.writer = Isr
  /\ LET data == Payload(Writable(size, xStreamBufferSpacesAvailable))
         s1   == [s EXCEPT !.cell = Written(data), !.head = HeadAfter(data)]
         wake == s.waitRx # Null /\ (s1.head - s1.tail) % use.length >= use.trigger
     IN /\ data # <<>>
        /\ s' = IF wake THEN [s1 EXCEPT !.waitRx = Null] ELSE s1
        /\ sent' = (sent + Len(data)) % Values
        /\ IF wake THEN Notified(s.waitRx) /\ k' = xTaskGenericNotifyFromISR(s.waitRx)
           ELSE UNCHANGED <<note, k>>
  /\ UNCHANGED <<me, got>>

\* xStreamBufferReceiveFromISR: the trigger level of a batching buffer is not looked at.
ReceiveFromISR(room) ==
  /\ use.reader = Isr
  /\ prvBytesInBuffer > (IF IsMessage THEN Header ELSE 0)
  /\ LET data == Copied(room, prvBytesInBuffer)
     IN /\ data # <<>>
        /\ s' = [s EXCEPT !.tail = TailAfter(data), !.waitTx = Null]
        /\ got' = data
  /\ IF s.waitTx = Null THEN UNCHANGED <<note, k>>
     ELSE Notified(s.waitTx) /\ k' = xTaskGenericNotifyFromISR(s.waitTx)
  /\ UNCHANGED <<me, sent>>

Tick ==
  /\ k.susp # 0 => k.pended < MaxPended
  /\ k' = TickInterrupt(k)
  /\ UNCHANGED <<note, s, me, sent, got>>

Switch(t) ==
  /\ SwitchTo(k, t)
  /\ k' = vTaskSwitchContext(k, t)
  /\ UNCHANGED <<note, s, me, sent, got>>

TaskStep(t) ==
  \/ \E size \in use.sizes, wait \in use.waits[t] : BeginSend(t, size, wait)
  \/ \E room \in use.rooms, wait \in use.waits[t] : BeginReceive(t, room, wait)
  \/ NotifyWaitSuspend(t) \/ NotifyWaitMark(t) \/ NotifyWaitBlock(t)
  \/ NotifyWaitResume(t) \/ NotifyWaitYield(t) \/ NotifyWaitDone(t)
  \/ SendCheck(t) \/ SendNull(t) \/ SendTimeout(t)
  \/ SendLook(t) \/ SendCopy(t) \/ SendHead(t) \/ SendTrigger(t)
  \/ ReceiveCheck(t) \/ ReceiveNull(t) \/ ReceiveLook(t) \/ ReceiveCopy(t) \/ ReceiveTail(t)
  \/ CompletedSuspend(t) \/ CompletedNotify(t) \/ CompletedResume(t)

StreamNext ==
  /\ \/ \E t \in Tasks : TaskStep(t)
     \/ \E t \in Tasks \cup {Idle} : Switch(t)
     \/ Tick
     \/ \E size \in use.sizes : SendFromISR(size)
     \/ \E room \in use.rooms : ReceiveFromISR(room)
  /\ UNCHANGED use

StreamSpec == StreamInit /\ [][StreamNext]_streamVars

(* ------------------------------ properties ------------------------------ *)

\* The cells between xTail and xHead behave as the promised sequence of bytes.
Promise == INSTANCE FrtAbstractStream WITH
             bytes <- ReadBytes(s.tail, prvBytesInBuffer),
             capacity <- use.length - 1, whole <- IsMessage
ImplementsStream == Promise!AbsStreamSpec

\* No lost notification: while a side sleeps it can still be found and woken
\* (xTaskWaitingTo... names it and its notification is awaited), and what it waits for
\* has not come, or the other side is on its way to notify it.
Asleep(t) == t \in Tasks /\ me[t].pc # "idle" /\ k.st[t] # "ready" /\ t \notin ToSet(k.pending)
OnTheWay(t) == t \in Tasks /\ me[t].pc \in {"sendTrigger", "doneSuspend", "doneNotify"}
NoLostNotification ==
  /\ Asleep(use.reader) =>
       /\ s.waitRx = use.reader /\ note[use.reader] = "waiting"
       /\ \/ prvBytesInBuffer <= Threshold \/ prvBytesInBuffer < use.trigger
          \/ OnTheWay(use.writer)
  /\ Asleep(use.writer) =>
       /\ s.waitTx = use.writer /\ note[use.writer] = "waiting"
       /\ xStreamBufferSpacesAvailable < Required(me[use.writer].size) \/ OnTheWay(use.reader)

\* Writer and reader never wait for each other, when what a waiting reader may leave in
\* the buffer (less than the trigger level; at most it, in a batching buffer) and what
\* the writer waits for fit in it together.
Kept == CASE use.kind = "stream" -> use.trigger - 1 [] use.kind = "batching" -> use.trigger
          [] use.kind = "message" -> 0
Fits(size) == Required(size) + Kept < use.length
NotBothAsleep ==
  Asleep(use.writer) /\ Asleep(use.reader) => ~Fits(me[use.writer].size)

\* xStreamBufferSend: "If a task times out before it can write all xDataLengthBytes into
\* the buffer it will still write as many bytes as possible."
PartialWriteMaximal ==
  \A t \in Tasks : me[t].pc = "sendLook" /\ me[t].n # 0 /\ ~IsMessage =>
    Writable(me[t].size, me[t].n) = Writable(me[t].size, xStreamBufferSpacesAvailable)

===============================================================================
