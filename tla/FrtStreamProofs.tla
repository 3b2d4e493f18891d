---------------------------- MODULE FrtStreamProofs ----------------------------
(***************************************************************************)
(* Theorems about FrtStream, for any number of tasks and priorities, any set of  *)
(* uses of the buffer and any width of the tick count:                         *)
(*   StreamInvariant        StreamInv is inductive: CallsOK, SchedOK, RingOK and NotesOK *)
(*   NotificationNotLost    a side that sleeps can be found, for a reason that holds *)
(*   NeverBothAsleep        writer and reader do not sleep on each other        *)
(*   StreamRefines          the ring is the sequence of bytes or of messages that *)
(*                          stream_buffer.h and message_buffer.h promise        *)
(* First the ring as a value, then each step on the calls and the ring, on the     *)
(* scheduler and on the notifications.                                         *)
(***************************************************************************)
EXTENDS FrtStream, FrtKernelProofs

(* ------------------------- the ring, as a value ------------------------- *)

\* The place n after i in a ring of length L, and how far it is from t to h.
Pos(L, i, n) == IF i + n < L THEN i + n ELSE i + n - L
Count(L, h, t) == IF h >= t THEN h - t ELSE h - t + L

\* What n cells from place t on hold.
Bytes(L, c, t, n) == [i \in 1 .. n |-> c[Pos(L, t, i - 1)]]

\* Remainders after less than two turns, forward or back.
LEMMA Turns == \A m \in Nat \ {0} : /\ \A a \in 0 .. m - 1, n \in 0 .. m : (a + n) % m = Pos(m, a, n)
                                    /\ \A a, b \in 0 .. m - 1 : (a - b) % m = Count(m, a, b)
  BY DEF Pos, Count

\* Places are in the ring.
LEMMA PosIn == ASSUME NEW L \in Nat \ {0}, NEW t \in 0 .. L - 1, NEW n \in 0 .. L PROVE Pos(L, t, n) \in 0 .. L - 1
  BY DEF Pos

\* A distance leads from one place to the other.
LEMMA CountIn ==
  ASSUME NEW L \in Nat \ {0}, NEW t \in 0 .. L - 1, NEW h \in 0 .. L - 1
  PROVE  Count(L, h, t) \in 0 .. L - 1 /\ Pos(L, t, Count(L, h, t)) = h
  BY DEF Pos, Count

\* The distance of a place.
LEMMA CountPos ==
  ASSUME NEW L \in Nat \ {0}, NEW t \in 0 .. L - 1, NEW n \in 0 .. L - 1 PROVE Count(L, Pos(L, t, n), t) = n
  BY DEF Pos, Count

\* One way after another.
LEMMA PosPos ==
  ASSUME NEW L \in Nat \ {0}, NEW t \in 0 .. L - 1, NEW m \in 0 .. L, NEW n \in 0 .. L, m + n <= L
  PROVE  Pos(L, Pos(L, t, m), n) = Pos(L, t, m + n)
  BY DEF Pos

\* What is left of a way.
LEMMA CountLess ==
  ASSUME NEW L \in Nat \ {0}, NEW t \in 0 .. L - 1, NEW n \in 0 .. L - 1, NEW m \in 0 .. n
  PROVE  Count(L, Pos(L, t, n), Pos(L, t, m)) = n - m
  BY DEF Pos, Count

\* A place before another is behind it by more than the rest of the ring.
LEMMA CountMore ==
  ASSUME NEW L \in Nat \ {0}, NEW t \in 0 .. L - 1, NEW n \in 0 .. L - 1, NEW m \in 0 .. n - 1
  PROVE  Count(L, Pos(L, t, m), Pos(L, t, n)) >= L - n
  BY DEF Pos, Count

\* The bytes between two places are numbers.
LEMMA BytesSeq ==
  ASSUME NEW L \in Nat \ {0}, NEW c \in [0 .. L - 1 -> Nat], NEW t \in 0 .. L - 1, NEW n \in 0 .. L
  PROVE  /\ Bytes(L, c, t, n) \in Seq(Nat) /\ Len(Bytes(L, c, t, n)) = n
         /\ \A i \in 1 .. n : Bytes(L, c, t, n)[i] = c[Pos(L, t, i - 1)]
<1>1. ASSUME NEW i \in 1 .. n PROVE c[Pos(L, t, i - 1)] \in Nat
  <2>1. i - 1 \in 0 .. L OBVIOUS
  <2>2. Pos(L, t, i - 1) \in 0 .. L - 1 BY <2>1, PosIn
  <2> QED BY <2>2
<1>2. Bytes(L, c, t, n) \in [1 .. n -> Nat] BY <1>1 DEF Bytes
<1>3. \A i \in 1 .. n : Bytes(L, c, t, n)[i] = c[Pos(L, t, i - 1)] BY DEF Bytes
<1>4. n \in Nat OBVIOUS
<1> QED BY <1>2, <1>3, <1>4

\* Two sequences with the same bytes are the same.
LEMMA SameBytes ==
  ASSUME NEW a \in Seq(Nat), NEW b \in Seq(Nat), Len(a) = Len(b), \A i \in 1 .. Len(a) : a[i] = b[i]
  PROVE  a = b
  OBVIOUS

\* One sequence after another, byte by byte.
LEMMA Joined ==
  ASSUME NEW a \in Seq(Nat), NEW b \in Seq(Nat), NEW n \in Nat, NEW m \in Nat, n = Len(a), m = Len(b)
  PROVE  /\ a \o b \in Seq(Nat) /\ Len(a \o b) = n + m
         /\ \A i \in 1 .. n + m : (a \o b)[i] = IF i <= n THEN a[i] ELSE b[i - n]
<1>1. a \o b \in Seq(Nat) /\ Len(a \o b) = n + m OBVIOUS
<1>2. ASSUME NEW i \in 1 .. n + m PROVE (a \o b)[i] = IF i <= n THEN a[i] ELSE b[i - n]
  <2>1. i \in 1 .. Len(a) + Len(b) OBVIOUS
  <2>2. (a \o b)[i] = IF i <= Len(a) THEN a[i] ELSE b[i - Len(a)] BY <2>1
  <2> QED BY <2>2
<1> QED BY <1>1, <1>2

\* The same cells hold the same bytes.
LEMMA BytesSame ==
  ASSUME NEW L, NEW c, NEW d, NEW t, NEW n, \A i \in 1 .. n : d[Pos(L, t, i - 1)] = c[Pos(L, t, i - 1)]
  PROVE  Bytes(L, d, t, n) = Bytes(L, c, t, n)
  BY DEF Bytes

\* The bytes w, m of them, are copied to the cells c from place h on.
Stored(L, c, h, w, m, d) ==
  /\ d = [i \in 0 .. L - 1 |-> d[i]]
  /\ \A i \in 0 .. L - 1 : d[i] = IF (i - h) % L < m THEN w[((i - h) % L) + 1] ELSE c[i]

\* The n cells from t on are kept, the m from h on hold w.
Filled(L, c, t, n, h, w, m, d) ==
  /\ d \in [0 .. L - 1 -> Nat]
  /\ \A i \in 1 .. n : d[Pos(L, t, i - 1)] = c[Pos(L, t, i - 1)]
  /\ \A i \in 1 .. m : d[Pos(L, h, i - 1)] = w[i]

\* What is written after the n bytes that are held goes to the free cells, in order.
LEMMA Wrote ==
  ASSUME NEW L \in Nat \ {0}, NEW c \in [0 .. L - 1 -> Nat], NEW t \in 0 .. L - 1, NEW n \in 0 .. L - 1,
         NEW h, h = Pos(L, t, n), NEW w \in Seq(Nat), NEW m \in Nat, m = Len(w), n + m <= L,
         NEW d, Stored(L, c, h, w, m, d)
  PROVE  Filled(L, c, t, n, h, w, m, d)
<1>0. h \in 0 .. L - 1 BY PosIn
<1>1. ASSUME NEW i \in 0 .. L - 1
      PROVE  /\ d[i] = IF Count(L, i, h) < m THEN w[Count(L, i, h) + 1] ELSE c[i]
             /\ Count(L, i, h) \in 0 .. L - 1
  <2>1. (i - h) % L = Count(L, i, h) BY ONLY <1>0, L \in Nat \ {0}, i \in 0 .. L - 1, Turns
  <2>2. Count(L, i, h) \in 0 .. L - 1 BY <1>0, CountIn
  <2> QED BY <2>1, <2>2 DEF Stored
<1>2. ASSUME NEW e \in 0 .. L - 1, e < m PROVE w[e + 1] \in Nat
  <2>1. e + 1 \in 1 .. m BY ONLY <1>2, m \in Nat, L \in Nat
  <2>2. e + 1 \in 1 .. Len(w) BY <2>1
  <2> QED BY <2>2
<1>3. d \in [0 .. L - 1 -> Nat]
  <2>1. ASSUME NEW i \in 0 .. L - 1 PROVE d[i] \in Nat
    <3>1. PICK e : e = Count(L, i, h) OBVIOUS
    <3>2. e \in 0 .. L - 1 /\ d[i] = IF e < m THEN w[e + 1] ELSE c[i] BY <1>1, <3>1
    <3> QED BY <1>2, <3>2
  <2>2. d = [i \in 0 .. L - 1 |-> d[i]] BY DEF Stored
  <2> QED BY <2>1, <2>2
<1>4. ASSUME NEW i \in 1 .. n PROVE d[Pos(L, t, i - 1)] = c[Pos(L, t, i - 1)]
  <2>0. i - 1 \in 0 .. L /\ i - 1 \in 0 .. n - 1 OBVIOUS
  <2>1. PICK p : p = Pos(L, t, i - 1) OBVIOUS
  <2>2. p \in 0 .. L - 1 BY <2>0, <2>1, PosIn
  <2>3. Count(L, p, h) >= L - n BY <2>0, <2>1, CountMore
  <2>4. ~(Count(L, p, h) < m)
    <3>1. PICK e : e = Count(L, p, h) OBVIOUS
    <3>2. e \in 0 .. L - 1 /\ e >= L - n BY <1>1, <2>2, <2>3, <3>1
    <3>3. ~(e < m) BY ONLY <3>2, n + m <= L, m \in Nat, n \in 0 .. L - 1, L \in Nat
    <3> QED BY <3>1, <3>3
  <2> QED BY <1>1, <2>1, <2>2, <2>4
<1>5. ASSUME NEW i \in 1 .. m PROVE d[Pos(L, h, i - 1)] = w[i]
  <2>1. PICK p : p = Pos(L, h, i - 1) OBVIOUS
  <2>2. i - 1 \in 0 .. L - 1 /\ i - 1 \in 0 .. L /\ i - 1 < m /\ (i - 1) + 1 = i OBVIOUS
  <2>3. p \in 0 .. L - 1 BY <1>0, <2>1, <2>2, PosIn
  <2>4. Count(L, p, h) = i - 1 BY <1>0, <2>1, <2>2, CountPos
  <2> QED BY <1>1, <2>1, <2>2, <2>3, <2>4
<1> QED BY <1>3, <1>4, <1>5 DEF Filled

\* From h, n cells after t, on to the place m after it: w comes last between them.
HeadMoved(L, c, t, n, h, w, m) ==
  /\ Pos(L, h, m) \in 0 .. L - 1 /\ Count(L, Pos(L, h, m), t) = n + m
  /\ Bytes(L, c, t, n + m) = Bytes(L, c, t, n) \o w

\* xHead moves over what was written: those bytes come last.
LEMMA HeadMoves ==
  ASSUME NEW L \in Nat \ {0}, NEW c \in [0 .. L - 1 -> Nat], NEW t \in 0 .. L - 1, NEW n \in 0 .. L - 1,
         NEW h, h = Pos(L, t, n), NEW w \in Seq(Nat), NEW m \in Nat, m = Len(w), n + m <= L - 1,
         \A i \in 1 .. m : c[Pos(L, h, i - 1)] = w[i]
  PROVE  HeadMoved(L, c, t, n, h, w, m)
<1>1. m \in 0 .. L /\ n \in 0 .. L /\ n + m <= L /\ n + m \in 0 .. L - 1 /\ n + m \in 0 .. L OBVIOUS
<1>2. Pos(L, h, m) = Pos(L, t, n + m) BY <1>1, PosPos
<1>3. Pos(L, h, m) \in 0 .. L - 1 /\ Count(L, Pos(L, h, m), t) = n + m BY <1>1, <1>2, PosIn, CountPos
<1>4. PICK a, b : a = Bytes(L, c, t, n + m) /\ b = Bytes(L, c, t, n) OBVIOUS
<1>5. a \in Seq(Nat) /\ Len(a) = n + m /\ \A i \in 1 .. n + m : a[i] = c[Pos(L, t, i - 1)]
  <2>1. PICK N \in 0 .. L : N = n + m BY <1>1
  <2>2. /\ Bytes(L, c, t, N) \in Seq(Nat) /\ Len(Bytes(L, c, t, N)) = N
        /\ \A i \in 1 .. N : Bytes(L, c, t, N)[i] = c[Pos(L, t, i - 1)]
    BY BytesSeq
  <2> QED BY ONLY <1>4, <2>1, <2>2
<1>6. b \in Seq(Nat) /\ Len(b) = n /\ \A i \in 1 .. n : b[i] = c[Pos(L, t, i - 1)]
  <2>1. n \in 0 .. L BY <1>1
  <2>2. /\ Bytes(L, c, t, n) \in Seq(Nat) /\ Len(Bytes(L, c, t, n)) = n
        /\ \A i \in 1 .. n : Bytes(L, c, t, n)[i] = c[Pos(L, t, i - 1)]
    BY <2>1, BytesSeq
  <2> QED BY ONLY <1>4, <2>2
<1>7. b \o w \in Seq(Nat) /\ Len(b \o w) = n + m /\ \A i \in 1 .. n + m : (b \o w)[i] = IF i <= n THEN b[i] ELSE w[i - n]
  <2>1. n \in Nat OBVIOUS
  <2>2. n = Len(b) /\ b \in Seq(Nat) BY <1>6
  <2> QED BY ONLY <2>1, <2>2, w \in Seq(Nat), m = Len(w), m \in Nat, Joined
<1>8. ASSUME NEW i \in 1 .. n + m PROVE a[i] = (b \o w)[i]
  <2>1. CASE i <= n
    <3>1. i \in 1 .. n BY <2>1
    <3> QED BY <1>5, <1>6, <1>7, <2>1, <3>1
  <2>2. CASE ~(i <= n)
    <3>1. PICK j \in 1 .. m : j = i - n BY <2>2
    <3>2. (b \o w)[i] = w[j] BY <1>7, <2>2, <3>1
    <3>3. Pos(L, t, i - 1) = Pos(L, h, j - 1)
      <4>1. j - 1 \in 0 .. L /\ n + (j - 1) <= L /\ n + (j - 1) = i - 1 BY <3>1
      <4>2. PICK e \in 0 .. L : e = j - 1 BY <4>1
      <4>3. Pos(L, Pos(L, t, n), e) = Pos(L, t, n + e) BY <1>1, <4>1, <4>2, PosPos
      <4> QED BY <4>1, <4>2, <4>3
    <3> QED BY <1>5, <3>1, <3>2, <3>3
  <2> QED BY <2>1, <2>2
<1>9. a = b \o w BY <1>5, <1>7, <1>8, SameBytes
<1> QED BY <1>3, <1>4, <1>9 DEF HeadMoved

\* m bytes after the first o of those that are held.
LEMMA SomeBytes ==
  ASSUME NEW L \in Nat \ {0}, NEW c \in [0 .. L - 1 -> Nat], NEW t \in 0 .. L - 1, NEW n \in 0 .. L - 1,
         NEW o \in 0 .. n, NEW m \in 0 .. n - o
  PROVE  Bytes(L, c, Pos(L, t, o), m) = SubSeq(Bytes(L, c, t, n), o + 1, o + m)
<1>1. PICK u : u = Pos(L, t, o) OBVIOUS
<1>2. o \in 0 .. L /\ m \in 0 .. L /\ n \in 0 .. L OBVIOUS
<1>3. u \in 0 .. L - 1 BY <1>1, <1>2, PosIn
<1>4. PICK a, b : a = Bytes(L, c, u, m) /\ b = Bytes(L, c, t, n) OBVIOUS
<1>5. a \in Seq(Nat) /\ Len(a) = m /\ \A i \in 1 .. m : a[i] = c[Pos(L, u, i - 1)]
  <2>1. /\ Bytes(L, c, u, m) \in Seq(Nat) /\ Len(Bytes(L, c, u, m)) = m
        /\ \A i \in 1 .. m : Bytes(L, c, u, m)[i] = c[Pos(L, u, i - 1)]
    BY <1>2, <1>3, BytesSeq
  <2> QED BY ONLY <1>4, <2>1
<1>6. b \in Seq(Nat) /\ Len(b) = n /\ \A i \in 1 .. n : b[i] = c[Pos(L, t, i - 1)]
  <2>1. /\ Bytes(L, c, t, n) \in Seq(Nat) /\ Len(Bytes(L, c, t, n)) = n
        /\ \A i \in 1 .. n : Bytes(L, c, t, n)[i] = c[Pos(L, t, i - 1)]
    BY <1>2, BytesSeq
  <2> QED BY ONLY <1>4, <2>1
<1>7. /\ SubSeq(b, o + 1, o + m) \in Seq(Nat) /\ Len(SubSeq(b, o + 1, o + m)) = m
      /\ \A i \in 1 .. m : SubSeq(b, o + 1, o + m)[i] = b[i + o]
  BY <1>6
<1>8. ASSUME NEW i \in 1 .. m PROVE a[i] = SubSeq(b, o + 1, o + m)[i]
  <2>1. i - 1 \in 0 .. L /\ o + (i - 1) <= L /\ i + o \in 1 .. n /\ (i + o) - 1 = o + (i - 1) OBVIOUS
  <2>2. Pos(L, u, i - 1) = Pos(L, t, o + (i - 1)) BY <1>1, <1>2, <2>1, PosPos
  <2>3. b[i + o] = c[Pos(L, t, (i + o) - 1)] BY <1>6, <2>1
  <2>4. b[i + o] = c[Pos(L, u, i - 1)] BY <2>1, <2>2, <2>3
  <2> QED BY <1>5, <1>7, <2>4
<1>9. a = SubSeq(b, o + 1, o + m) BY <1>5, <1>7, <1>8, SameBytes
<1> QED BY <1>1, <1>4, <1>9

\* From t on to the place m after it: the rest of the n cells up to h stay.
TailMoved(L, c, t, n, h, m) ==
  /\ Pos(L, t, m) \in 0 .. L - 1 /\ Count(L, h, Pos(L, t, m)) = n - m
  /\ Bytes(L, c, Pos(L, t, m), n - m) = SubSeq(Bytes(L, c, t, n), m + 1, n)

\* xTail moves over m of the n bytes that are held: the rest stay.
LEMMA TailMoves ==
  ASSUME NEW L \in Nat \ {0}, NEW c \in [0 .. L - 1 -> Nat], NEW t \in 0 .. L - 1, NEW n \in 0 .. L - 1,
         NEW h, h = Pos(L, t, n), NEW m \in 0 .. n
  PROVE  TailMoved(L, c, t, n, h, m)
<1>1. m \in 0 .. L /\ n - m \in 0 .. n - m /\ m + (n - m) = n OBVIOUS
<1>2. Pos(L, t, m) \in 0 .. L - 1 BY <1>1, PosIn
<1>3. Count(L, h, Pos(L, t, m)) = n - m BY CountLess
<1>4. Bytes(L, c, Pos(L, t, m), n - m) = SubSeq(Bytes(L, c, t, n), m + 1, m + (n - m))
  <2>1. PICK d \in 0 .. n - m : d = n - m BY <1>1
  <2>2. Bytes(L, c, Pos(L, t, m), d) = SubSeq(Bytes(L, c, t, n), m + 1, m + d) BY SomeBytes
  <2> QED BY ONLY <2>1, <2>2
<1> QED BY <1>1, <1>2, <1>3, <1>4 DEF TailMoved

(* --------------------------- the calls and the ring --------------------------- *)

\* Where a call can be: in xStreamBufferSend, in xStreamBufferReceive, in
\* xTaskGenericNotifyWait, or in sbSEND_COMPLETED or sbRECEIVE_COMPLETED.
WritePcs == {"sendCheck", "sendNull", "sendTimeout", "sendLook", "sendCopy", "sendHead", "sendTrigger"}
ReadPcs == {"receiveCheck", "receiveNull", "receiveLook", "receiveCopy", "receiveTail"}
WaitPcs == {"waitSuspend", "waitMark", "waitBlock", "waitResume", "waitYield", "waitDone"}
DonePcs == {"doneSuspend", "doneNotify", "doneResume"}
Pcs == {"idle"} \cup WritePcs \cup ReadPcs \cup WaitPcs \cup DonePcs

\* Between vTaskSuspendAll and xTaskResumeAll; after a task may have blocked; with time to wait.
HeldPcs == {"waitMark", "waitBlock", "waitResume", "doneNotify", "doneResume"}
BlockedPcs == {"waitResume", "waitYield", "waitDone"}
TimedPcs == {"sendCheck", "receiveCheck", "waitSuspend", "waitMark", "waitBlock"}

Calls == [pc : Pcs, size : Nat, left : TickType, over : Overflows, tick : TickType,
          n : Nat, block : BOOLEAN, data : Seq(Nat)]
Buffers(L) == [cell : [0 .. L - 1 -> Nat], head : 0 .. L - 1, tail : 0 .. L - 1,
               waitTx : Tasks \cup {Null}, waitRx : Tasks \cup {Null}]
Sides == {use.writer, use.reader}

\* A call is on the side of its task, and has time left when it may wait.
CallFits(u, t, c) ==
  /\ c.pc \in WritePcs => t = u.writer
  /\ c.pc \in ReadPcs => t = u.reader
  /\ c.pc # "idle" => t \in {u.writer, u.reader}
  /\ c.pc \in TimedPcs => c.left # 0
  /\ c.pc = "waitBlock" => c.block

\* What the tasks share.
SharedOK ==
  /\ use \in Uses /\ note \in [Tasks -> {"none", "waiting", "received"}] /\ sent \in Nat
  /\ s \in Buffers(use.length) /\ s.waitRx \in {Null, use.reader} /\ s.waitTx \in {Null, use.writer}
CallsOK == SharedOK /\ me \in [Tasks -> Calls] /\ \A t \in Tasks : CallFits(use, t, me[t])

\* Nobody waits in an event list: tasks sleep with their notification.
NoEvents(x) == \A l \in Lists : ToSet(x.ev[l]) = {}

\* The scheduler: a task inside vTaskSuspendAll is the current one, a side is ready
\* unless it has gone to sleep, and so is the one that runs.
TaskOK(t) ==
  /\ me[t].pc \in HeldPcs => k.cur = t /\ k.susp = 1
  /\ t \in Sides /\ me[t].pc \notin BlockedPcs => k.st[t] = "ready"
  /\ me[t].pc = "waitResume" /\ ~me[t].block => k.st[t] = "ready"
SchedOK ==
  /\ WokenOK(k) /\ NoEvents(k)
  /\ k.susp # 0 => k.cur \in Tasks /\ me[k.cur].pc \in HeldPcs
  /\ k.susp = 0 /\ ~k.swi /\ k.cur \in Sides /\ k.cur \in Tasks /\ me[k.cur].pc # "waitYield" => k.st[k.cur] = "ready"
  /\ \A t \in Tasks : TaskOK(t)

\* How much a buffer holds and what; how much it has room for.
Held(u, b) == Count(u.length, b.head, b.tail)
Room(u, b) == u.length - 1 - Held(u, b)
Contents(u, b) == Bytes(u.length, b.cell, b.tail, Held(u, b))

\* A write as it is stored.
Frame(u, data) == IF u.kind = "message" THEN <<Len(data)>> \o data ELSE data

\* What the writer believes of the room is still true, and what it copied is there.
WriterFits(u, b, c) ==
  /\ c.pc # "sendTrigger" => c.n <= Room(u, b)
  /\ c.pc \in {"sendCopy", "sendHead"} => c.data # <<>> /\ Len(Frame(u, c.data)) <= Room(u, b)
  /\ c.pc = "sendHead" =>
       \A i \in 1 .. Len(Frame(u, c.data)) : b.cell[Pos(u.length, b.head, i - 1)] = Frame(u, c.data)[i]

\* What was read is what the buffer still holds first: m bytes, behind their number
\* in a message buffer.
Reading(u, b, data) ==
  /\ data # <<>>
  /\ IF u.kind = "message"
     THEN /\ Len(data) = b.cell[b.tail] /\ Len(data) + 1 <= Held(u, b)
          /\ data = Bytes(u.length, b.cell, Pos(u.length, b.tail, 1), Len(data))
     ELSE Len(data) <= Held(u, b) /\ data = Bytes(u.length, b.cell, b.tail, Len(data))
ReaderFits(u, b, c) ==
  /\ c.n <= Held(u, b)
  /\ c.pc = "receiveCopy" /\ u.kind = "message" /\ c.n > 1 => b.cell[b.tail] + 1 <= c.n
  /\ c.pc = "receiveTail" => Reading(u, b, c.data)

\* A sequence of messages, each behind its length: F are the places where one ends.
Frames(q) ==
  \E F \in SUBSET (0 .. Len(q)) :
    0 \in F /\ Len(q) \in F /\ \A f \in F : f < Len(q) => q[f + 1] # 0 /\ f + 1 + q[f + 1] \in F

RingOK ==
  /\ use.writer \in Tasks => WriterFits(use, s, me[use.writer])
  /\ use.reader \in Tasks => ReaderFits(use, s, me[use.reader])
  /\ use.kind = "message" => Frames(Contents(use, s))

\* A side listens from the moment it found too little until it is notified or gives up:
\* t in its call c, with the kernel x and its notification state nt.
Listening(t, c, x, nt) ==
  \/ c.pc \in {"waitSuspend", "waitMark"} /\ nt # "received"
  \/ c.pc = "waitBlock" /\ t \notin ToSet(x.pending)
  \/ c.pc \in BlockedPcs /\ x.st[t] # "ready" /\ t \notin ToSet(x.pending)

\* Then the pointer p names it, its notification is awaited, and D holds.
Heard(t, c, x, nt, p, D) ==
  Listening(t, c, x, nt) => p = t /\ (c.pc \in {"waitBlock"} \cup BlockedPcs => nt = "waiting") /\ D

\* A reader finds too little, or has not been told of it; a writer needs this much room;
\* a task is about to notify the other side.
Low(u, n) == IF u.kind = "stream" THEN n < u.trigger ELSE n <= u.trigger
Needs(u, size) == IF u.kind = "message" THEN size + 1 ELSE Min({size, u.length - 1})
Way(t, m) == t \in Tasks /\ m[t].pc \in {"sendTrigger", "doneSuspend", "doneNotify"}

\* xTaskWaitingToReceive or -Send, and why that side has not been notified.
Ptr(u, t, b) == IF t = u.reader THEN b.waitRx ELSE b.waitTx
Due(u, t, b, m) ==
  IF t = u.reader THEN Low(u, Held(u, b)) \/ Way(u.writer, m)
  ELSE Room(u, b) < Needs(u, m[t].size) \/ Way(u.reader, m)

NotesOK == \A t \in Sides \cap Tasks : Heard(t, me[t], k, note[t], Ptr(use, t, s), Due(use, t, s, me))

(* --------------------- the kernel under notifications -------------------- *)

\* Tasks are woken at most, and none is forgotten.
Eased(x, y) ==
  /\ WokenOK(y) /\ NoEvents(y) /\ (x.swi => y.swi)
  /\ y.cur = x.cur /\ y.susp = x.susp
  /\ \A u \in Tasks : x.st[u] = "ready" => y.st[u] = "ready"
  /\ ToSet(x.pending) \subseteq ToSet(y.pending)

\* To do nothing is one such step.
LEMMA SameEased == ASSUME NEW x, WokenOK(x), NoEvents(x) PROVE Eased(x, x)
  BY DEF Eased

\* One after another.
LEMMA EasedOn == ASSUME NEW x, NEW y, NEW z, Eased(x, y), Eased(y, z) PROVE Eased(x, z)
  BY DEF Eased

\* A request for a switch disturbs nothing.
LEMMA YieldEases == ASSUME NEW x, WokenOK(x), NoEvents(x), NEW y, y = portYIELD(x)
                    PROVE  Eased(x, y) /\ OnlySwi(x, y) /\ y.swi
<1>1. x \in Kernels BY DEF WokenOK
<1>2. y \in Kernels /\ OnlySwi(x, y) /\ y.swi BY <1>1 DEF portYIELD, Kernels, OnlySwi
<1>3. WokenOK(y) /\ NoEvents(y) BY <1>2 DEF WokenOK, OnlySwi, PrioOK, EventsOK, TimesOK, NoEvents
<1> QED BY <1>2, <1>3 DEF Eased, OnlySwi

\* ... also when there is a condition on it.
LEMMA YieldIfEases == ASSUME NEW x, WokenOK(x), NoEvents(x), NEW c, NEW y, y = portYIELD_if(x, c)
                      PROVE  Eased(x, y) /\ y.st = x.st /\ y.pending = x.pending
<1>1. CASE c
  <2>1. y = portYIELD(x) BY <1>1 DEF portYIELD_if
  <2> QED BY <2>1, YieldEases DEF OnlySwi
<1>2. CASE ~c
  <2>1. y = x BY <1>2 DEF portYIELD_if
  <2> QED BY <2>1, SameEased
<1> QED BY <1>1, <1>2

\* prvAddTaskToReadyList.
LEMMA ReadyEases ==
  ASSUME NEW x, WokenOK(x), NoEvents(x), NEW t \in Tasks, NEW y, y = prvAddTaskToReadyList(x, t)
  PROVE  Eased(x, y) /\ y.st[t] = "ready" /\ y.pending = x.pending
<1>0. x \in Kernels /\ PrioOK(x) /\ EventsOK(x) /\ TimesOK(x) BY DEF WokenOK
<1>1. x.st \in [Tasks -> States] /\ x.wake \in [Tasks -> TickType] BY <1>0, KernelFields
<1>2. PICK a, w : a = [x.st EXCEPT ![t] = "ready"] /\ w = [x.wake EXCEPT ![t] = 0] OBVIOUS
<1>3. /\ a \in [Tasks -> States] /\ w \in [Tasks -> TickType] /\ a[t] = "ready"
      /\ \A u \in Tasks \ {t} : a[u] = x.st[u] /\ w[u] = x.wake[u]
  BY <1>1, <1>2, TickTypes DEF States
<1>4. y = [x EXCEPT !.st = a, !.wake = w] BY <1>2 DEF prvAddTaskToReadyList
<1>5. /\ y \in Kernels /\ y.st = a /\ y.wake = w /\ y.ev = x.ev /\ y.pending = x.pending /\ y.prio = x.prio
      /\ y.cur = x.cur /\ y.susp = x.susp /\ y.tick = x.tick /\ y.next = x.next /\ y.swi = x.swi
  BY <1>0, <1>3, <1>4 DEF Kernels
<1>6. TimesOK(y)
  <2>1. ASSUME NEW u \in Tasks, y.st[u] # "ready" PROVE y.st[u] = x.st[u] /\ y.wake[u] = x.wake[u]
    BY <1>3, <1>5, <2>1
  <2> QED BY <1>0, <1>5, <2>1 DEF TimesOK
<1>7. EventsOK(y) /\ NoEvents(y)
  <2>1. NoEvents(y) BY <1>5 DEF NoEvents
  <2> QED BY <1>0, <1>5, <2>1 DEF EventsOK, NoEvents
<1>8. PrioOK(y) BY <1>0, <1>5 DEF PrioOK
<1>9. \A u \in Tasks : x.st[u] = "ready" => y.st[u] = "ready" BY <1>3, <1>5
<1> QED BY <1>3, <1>5, <1>6, <1>7, <1>8, <1>9 DEF Eased, WokenOK

\* xTaskGenericNotify.
LEMMA NotifyEases ==
  ASSUME NEW x, WokenOK(x), NoEvents(x), NEW t \in Tasks, NEW y, y = xTaskGenericNotify(x, t)
  PROVE  Eased(x, y) /\ (note[t] = "waiting" => y.st[t] = "ready")
<1>1. CASE note[t] # "waiting"
  <2>1. y = x BY <1>1 DEF xTaskGenericNotify
  <2> QED BY <1>1, <2>1, SameEased
<1>2. CASE note[t] = "waiting"
  <2>1. PICK z : z = prvAddTaskToReadyList(x, t) OBVIOUS
  <2>2. Eased(x, z) /\ z.st[t] = "ready" BY <2>1, ReadyEases
  <2>3. PICK c : c = Outranks(x, t) OBVIOUS
  <2>4. y = portYIELD_if(z, c) BY <1>2, <2>1, <2>3 DEF xTaskGenericNotify
  <2>5. Eased(z, y) /\ y.st = z.st BY <2>2, <2>4, YieldIfEases DEF Eased
  <2> QED BY <2>2, <2>5, EasedOn
<1> QED BY <1>1, <1>2

\* xTaskGenericNotifyFromISR.
LEMMA NotifyFromISREases ==
  ASSUME WokenOK(k), NoEvents(k), NEW t \in Tasks, NEW y, y = xTaskGenericNotifyFromISR(t)
  PROVE  /\ Eased(k, y)
         /\ note[t] = "waiting" => IF k.susp = 0 THEN y.st[t] = "ready" ELSE t \in ToSet(y.pending)
<1>1. CASE note[t] # "waiting"
  <2>1. y = k BY <1>1 DEF xTaskGenericNotifyFromISR
  <2> QED BY <1>1, <2>1, SameEased
<1>2. CASE note[t] = "waiting"
  <2>1. PICK c : c = Outranks(k, t) OBVIOUS
  <2>2. k \in Kernels /\ PrioOK(k) /\ EventsOK(k) /\ TimesOK(k) BY DEF WokenOK
  <2>3. PICK b \in BOOLEAN : b = (k.yield \/ c) OBVIOUS
  <2>4. PICK k1 : k1 = [k EXCEPT !.yield = b] OBVIOUS
  <2>5. /\ k1 \in Kernels /\ k1.st = k.st /\ k1.wake = k.wake /\ k1.ev = k.ev /\ k1.pending = k.pending
        /\ k1.prio = k.prio /\ k1.cur = k.cur /\ k1.susp = k.susp /\ k1.tick = k.tick /\ k1.next = k.next
        /\ k1.swi = k.swi
    BY <2>2, <2>4 DEF Kernels
  <2>6. Eased(k, k1)
    BY <2>2, <2>5 DEF Eased, WokenOK, NoEvents, PrioOK, EventsOK, TimesOK
  <2>7. PICK z : z = IF k.susp = 0 THEN prvAddTaskToReadyList(k1, t) ELSE [k1 EXCEPT !.pending = Append(@, t)]
    OBVIOUS
  <2>8. y = portYIELD_if(z, c)
    BY <1>2, <2>1, <2>3, <2>4, <2>7, Zenon DEF xTaskGenericNotifyFromISR
  <2>9. Eased(k1, z) /\ IF k.susp = 0 THEN z.st[t] = "ready" ELSE t \in ToSet(z.pending)
    <3>1. CASE k.susp = 0
      <4>1. z = prvAddTaskToReadyList(k1, t) BY <2>7, <3>1
      <4>2. WokenOK(k1) /\ NoEvents(k1) BY <2>6 DEF Eased
      <4> QED BY <3>1, <4>1, <4>2, ReadyEases
    <3>2. CASE k.susp # 0
      <4>1. PICK p : p = Append(k1.pending, t) OBVIOUS
      <4>2. p \in Seq(Tasks) /\ ToSet(p) = ToSet(k1.pending) \cup {t} BY <2>5, <4>1, KernelFields, AppendJoins
      <4>3. z = [k1 EXCEPT !.pending = p] BY <2>5, <2>7, <3>2, <4>1 DEF Kernels
      <4>4. /\ z \in Kernels /\ z.st = k1.st /\ z.wake = k1.wake /\ z.ev = k1.ev /\ z.pending = p
            /\ z.prio = k1.prio /\ z.cur = k1.cur /\ z.susp = k1.susp /\ z.tick = k1.tick /\ z.next = k1.next
            /\ z.swi = k1.swi
        BY <2>5, <4>2, <4>3 DEF Kernels
      <4>5. NoEvents(z) BY <2>6, <4>4 DEF Eased, NoEvents
      <4>6. EventsOK(z)
        <5>1. EventsOK(k1) BY <2>6 DEF Eased, WokenOK
        <5>2. z.susp # 0 BY <2>5, <3>2, <4>4
        <5> QED BY <4>4, <4>5, <5>1, <5>2 DEF EventsOK, NoEvents
      <4>7. WokenOK(z) BY <2>6, <4>4, <4>6 DEF Eased, WokenOK, PrioOK, TimesOK
      <4> QED BY <3>2, <4>2, <4>4, <4>5, <4>7 DEF Eased
    <3> QED BY <3>1, <3>2
  <2>10. Eased(z, y) /\ y.st = z.st /\ y.pending = z.pending BY <2>8, <2>9, YieldIfEases DEF Eased
  <2>11. Eased(k, z) BY <2>6, <2>9, EasedOn
  <2>12. Eased(k, y) BY <2>10, <2>11, EasedOn
  <2> QED BY <2>9, <2>10, <2>12
<1> QED BY <1>1, <1>2

\* A tick interrupt.
LEMMA TickEases ==
  ASSUME NEW x, WokenOK(x), NoEvents(x), NEW y, y = TickInterrupt(x)
  PROVE  Eased(x, y)
<1>0. x \in Kernels BY DEF WokenOK
<1>1. CASE x.susp # 0
  <2>1. PICK n : n = x.pended + 1 OBVIOUS
  <2>2. n \in Nat BY <1>0, <2>1, KernelFields
  <2>3. y = [x EXCEPT !.pended = n] BY <1>1, <2>1 DEF TickInterrupt
  <2>4. /\ y \in Kernels /\ y.st = x.st /\ y.wake = x.wake /\ y.ev = x.ev /\ y.pending = x.pending
        /\ y.prio = x.prio /\ y.cur = x.cur /\ y.susp = x.susp /\ y.tick = x.tick /\ y.next = x.next
        /\ y.swi = x.swi
    BY <1>0, <2>2, <2>3 DEF Kernels
  <2> QED BY <2>4 DEF Eased, WokenOK, NoEvents, PrioOK, EventsOK, TimesOK
<1>2. CASE x.susp = 0
  <2>1. KernelOK(x) BY <1>2, RunningWoken
  <2>2. Served(x, y) /\ Shrinks(x, y) BY <2>1, TickServes
  <2>3. WokenOK(y) BY <2>2, KernelWoken DEF Served
  <2>4. NoEvents(y) BY <2>2 DEF Shrinks, NoEvents
  <2>5. ToSet(x.pending) = {}
    <3>1. x.pending = <<>> BY <1>2 DEF WokenOK, EventsOK
    <3> QED BY <3>1 DEF ToSet
  <2> QED BY <2>2, <2>3, <2>4, <2>5 DEF Eased, Served, Wakes
<1> QED BY <1>1, <1>2

\* vTaskSuspendAll.
LEMMA SuspendKeeps ==
  ASSUME NEW x, WokenOK(x), NoEvents(x), x.susp = 0, NEW y, y = vTaskSuspendAll(x)
  PROVE  WokenOK(y) /\ NoEvents(y) /\ y.cur = x.cur /\ y.susp = 1 /\ y.st = x.st /\ y.pending = x.pending
<1>1. x \in Kernels BY DEF WokenOK
<1>2. PICK n \in Nat : n = x.susp + 1 BY <1>1, KernelFields
<1>3. y = [x EXCEPT !.susp = n] BY <1>2 DEF vTaskSuspendAll
<1>4. /\ y \in Kernels /\ y.st = x.st /\ y.wake = x.wake /\ y.ev = x.ev /\ y.pending = x.pending
      /\ y.prio = x.prio /\ y.cur = x.cur /\ y.susp = n /\ y.tick = x.tick /\ y.next = x.next
  BY <1>1, <1>3 DEF Kernels
<1>5. n = 1 BY <1>2
<1> QED BY <1>4, <1>5 DEF WokenOK, NoEvents, PrioOK, EventsOK, TimesOK

\* xTaskResumeAll: who was woken meanwhile is ready.
LEMMA ResumeKeeps ==
  ASSUME NEW x, WokenOK(x), NoEvents(x), x.susp = 1, NEW y, y = xTaskResumeAll(x)
  PROVE  /\ WokenOK(y) /\ NoEvents(y) /\ y.cur = x.cur /\ y.susp = 0 /\ (x.swi \/ y.yield => y.swi)
         /\ \A u \in Tasks : x.st[u] = "ready" \/ u \in ToSet(x.pending) => y.st[u] = "ready"
<1>1. /\ KernelOK(y) /\ y.cur = x.cur /\ y.susp = 0 /\ Shrinks(x, y)
      /\ \A u \in Tasks : x.st[u] = "ready" \/ u \in ToSet(x.pending) => y.st[u] = "ready"
      /\ y.swi = (x.swi \/ y.yield)
  BY ResumeServes
<1>2. NoEvents(y) BY <1>1 DEF Shrinks, NoEvents
<1> QED BY <1>1, <1>2, KernelWoken

\* What the kernel keeps when the current task goes to sleep.
Slept(x, y) ==
  /\ WokenOK(y) /\ NoEvents(y) /\ y.cur = x.cur /\ y.susp = x.susp /\ y.swi = x.swi /\ y.pending = x.pending
  /\ \A u \in Tasks \ {x.cur} : y.st[u] = x.st[u]

\* The current task goes to sleep.
LEMMA SleepKeeps ==
  ASSUME NEW x, WokenOK(x), NoEvents(x), x.cur \in Tasks, NEW d \in TickType \ {0},
         NEW y, y = prvAddCurrentTaskToDelayedList(x, d, TRUE)
  PROVE  Slept(x, y)
<1>0. x \in Kernels /\ PrioOK(x) /\ EventsOK(x) /\ TimesOK(x) BY DEF WokenOK
<1>1. Delayed(x, y) BY <1>0, DelayBlocks
<1>2. TimesOK(y)
  <2>1. \A a \in TickType : a \in Nat BY TickTypes DEF TickType
  <2>2. \A u \in Tasks : x.wake[u] \in Nat /\ x.next \in Nat /\ y.next \in Nat
    BY <1>0, <1>1, <2>1, KernelFields DEF Delayed
  <2>3. y.tick = x.tick BY <1>1 DEF Delayed, SameTime
  <2>4. ASSUME NEW u \in Tasks, u # x.cur, y.st[u] = "delayed" PROVE y.wake[u] > y.tick /\ y.next <= y.wake[u]
    <3>1. y.st[u] = x.st[u] /\ y.wake[u] = x.wake[u] /\ y.next <= x.next BY <1>1, <2>4 DEF Delayed
    <3>2. x.wake[u] > x.tick /\ x.next <= x.wake[u] BY <1>0, <2>4, <3>1 DEF TimesOK
    <3>3. PICK w \in Nat, a \in Nat, b \in Nat : w = x.wake[u] /\ a = x.next /\ b = y.next BY <2>2
    <3>4. a <= w /\ b <= a BY <3>1, <3>2, <3>3
    <3>5. b <= w BY <3>4
    <3> QED BY <2>3, <3>1, <3>2, <3>3, <3>5
  <2>5. ASSUME NEW u \in Tasks, u # x.cur, y.st[u] = "overflow" PROVE y.wake[u] <= y.tick
    BY <1>0, <1>1, <2>3, <2>5 DEF TimesOK, Delayed
  <2> QED BY <1>1, <2>3, <2>4, <2>5 DEF TimesOK, Delayed
<1>3. NoEvents(y) BY <1>1 DEF Delayed, NoEvents
<1>4. EventsOK(y) BY <1>0, <1>1, <1>3 DEF EventsOK, NoEvents, Delayed
<1>5. PrioOK(y) BY <1>0, <1>1 DEF PrioOK, Delayed
<1> QED BY <1>1, <1>2, <1>3, <1>4, <1>5 DEF WokenOK, Delayed, Slept

\* vTaskSwitchContext: the task that runs next is ready, unless the scheduler is suspended.
LEMMA SwitchKeeps ==
  ASSUME NEW x, WokenOK(x), NoEvents(x), NEW t \in Tasks \cup {Idle}, SwitchTo(x, t), NEW y, y = vTaskSwitchContext(x, t)
  PROVE  /\ WokenOK(y) /\ NoEvents(y) /\ y.cur = t /\ y.susp = x.susp /\ y.st = x.st /\ y.pending = x.pending
         /\ x.susp # 0 => t = x.cur
         /\ x.susp = 0 /\ t \in Tasks => y.st[t] = "ready"
<1>0. x \in Kernels BY DEF WokenOK
<1>1. PICK b \in BOOLEAN : b = (x.susp # 0) OBVIOUS
<1>2. y = [x EXCEPT !.swi = FALSE, !.yield = b, !.cur = t] BY <1>1 DEF vTaskSwitchContext
<1>3. /\ y \in Kernels /\ y.st = x.st /\ y.wake = x.wake /\ y.ev = x.ev /\ y.pending = x.pending
      /\ y.prio = x.prio /\ y.cur = t /\ y.susp = x.susp /\ y.tick = x.tick /\ y.next = x.next
  <2>1. y \in Kernels
    <3>1. b \in BOOLEAN /\ t \in Tasks \cup {Idle} BY <1>1
    <3>2. PICK z : z = [x EXCEPT !.swi = FALSE, !.yield = b] OBVIOUS
    <3>3. z \in Kernels BY ONLY <1>0, <3>1, <3>2 DEF Kernels
    <3>4. y = [z EXCEPT !.cur = t]
      <4>1. y = [x EXCEPT !.swi = FALSE, !.yield = b, !.cur = t] BY ONLY <1>2
      <4> QED BY ONLY <1>0, <3>2, <4>1 DEF Kernels
    <3> QED BY ONLY <3>1, <3>3, <3>4 DEF Kernels
  <2>2. /\ y.st = x.st /\ y.wake = x.wake /\ y.ev = x.ev /\ y.pending = x.pending /\ y.prio = x.prio
        /\ y.susp = x.susp /\ y.tick = x.tick /\ y.next = x.next
    BY <1>2
  <2>3. y.cur = t BY <1>0, <1>2 DEF Kernels
  <2> QED BY <2>1, <2>2, <2>3
<1>4. WokenOK(y) /\ NoEvents(y) BY <1>3 DEF WokenOK, NoEvents, PrioOK, EventsOK, TimesOK
<1>5. x.susp = 0 /\ t \in Tasks => x.st[t] = "ready"
  <2>1. Idle \notin Tasks BY KernelAssumption
  <2> QED BY <2>1 DEF SwitchTo, TopReady, On
<1> QED BY <1>3, <1>4, <1>5 DEF SwitchTo

(* ------------------------ the operators on the buffer ----------------------- *)

\* A way to use a buffer.
LEMMA UseFacts ==
  ASSUME NEW u \in Uses
  PROVE  /\ u.length \in Nat \ {0} /\ u.length > 1 /\ u.kind \in {"stream", "message", "batching"}
         /\ u.trigger \in 1 .. u.length - 1 /\ (u.kind = "message" => u.trigger = 1)
         /\ u.sizes \subseteq Nat /\ u.rooms \subseteq Nat /\ u.writer # u.reader
         /\ u.writer \in Tasks \cup {Isr} /\ u.reader \in Tasks \cup {Isr}
         /\ \A t \in Tasks : u.waits[t] \subseteq TickType
         /\ Isr \notin Tasks /\ Null \notin Tasks
<1>1. /\ u.kind \in {"stream", "message", "batching"} /\ u.length \in Nat /\ u.length > 1
      /\ u.trigger \in 1 .. u.length - 1 /\ (u.kind = "message" => u.trigger = 1)
      /\ u.sizes \subseteq Nat /\ u.rooms \subseteq Nat /\ u.writer # u.reader
      /\ u.writer \in Tasks \cup {Isr} /\ u.reader \in Tasks \cup {Isr}
      /\ \A t \in Tasks : u.waits[t] \subseteq TickType
      /\ Isr \notin Tasks /\ Null \notin Tasks
  BY StreamAssumption
<1> QED BY <1>1

\* The fields of a buffer.
LEMMA BufferFields ==
  ASSUME NEW L, NEW b \in Buffers(L)
  PROVE  /\ b.cell \in [0 .. L - 1 -> Nat] /\ b.head \in 0 .. L - 1 /\ b.tail \in 0 .. L - 1
         /\ b.waitTx \in Tasks \cup {Null} /\ b.waitRx \in Tasks \cup {Null}
  BY DEF Buffers

\* How much a buffer holds.
LEMMA HeldFacts ==
  ASSUME NEW u \in Uses, NEW b \in Buffers(u.length)
  PROVE  /\ Held(u, b) \in 0 .. u.length - 1 /\ Room(u, b) \in 0 .. u.length - 1
         /\ b.head = Pos(u.length, b.tail, Held(u, b))
         /\ Contents(u, b) \in Seq(Nat) /\ Len(Contents(u, b)) = Held(u, b)
         /\ Held(u, b) + Room(u, b) = u.length - 1
<1>1. u.length \in Nat \ {0} BY UseFacts
<1>2. b.cell \in [0 .. u.length - 1 -> Nat] /\ b.head \in 0 .. u.length - 1 /\ b.tail \in 0 .. u.length - 1
  BY BufferFields
<1>3. Held(u, b) \in 0 .. u.length - 1 /\ b.head = Pos(u.length, b.tail, Held(u, b))
  BY <1>1, <1>2, CountIn DEF Held
<1>4. PICK n \in 0 .. u.length : n = Held(u, b) BY <1>1, <1>3
<1>5. Room(u, b) \in 0 .. u.length - 1 /\ Held(u, b) + Room(u, b) = u.length - 1 BY <1>1, <1>3 DEF Room
<1>6. Contents(u, b) \in Seq(Nat) /\ Len(Contents(u, b)) = n BY <1>1, <1>2, <1>4, BytesSeq DEF Contents
<1> QED BY <1>3, <1>4, <1>5, <1>6

\* prvBytesInBuffer and xStreamBufferSpacesAvailable say so.
LEMMA BytesNow ==
  ASSUME use \in Uses, s \in Buffers(use.length)
  PROVE  prvBytesInBuffer = Held(use, s) /\ xStreamBufferSpacesAvailable = Room(use, s)
<1>1. use.length \in Nat \ {0} /\ s.head \in 0 .. use.length - 1 /\ s.tail \in 0 .. use.length - 1
  BY UseFacts, BufferFields
<1>2. (s.head - s.tail) % use.length = Count(use.length, s.head, s.tail) BY <1>1, Turns
<1> QED BY <1>2 DEF prvBytesInBuffer, xStreamBufferSpacesAvailable, Held, Room

\* ... and after a step.
LEMMA BytesNext ==
  ASSUME use \in Uses, UNCHANGED use, s' \in Buffers(use.length)
  PROVE  prvBytesInBuffer' = Held(use, s') /\ xStreamBufferSpacesAvailable' = Room(use, s')
<1>1. use.length \in Nat \ {0} /\ s'.head \in 0 .. use.length - 1 /\ s'.tail \in 0 .. use.length - 1
  BY UseFacts, BufferFields
<1>2. (s'.head - s'.tail) % use.length = Count(use.length, s'.head, s'.tail) BY <1>1, Turns
<1> QED BY <1>2 DEF prvBytesInBuffer, xStreamBufferSpacesAvailable, Held, Room

\* Advance is Pos.
LEMMA AdvanceIs ==
  ASSUME use \in Uses, NEW i \in 0 .. use.length - 1, NEW n \in 0 .. use.length
  PROVE  Advance(i, n) = Pos(use.length, i, n)
  BY UseFacts, Turns DEF Advance

\* prvReadBytesFromBuffer.
LEMMA ReadBytesIs ==
  ASSUME use \in Uses, s \in Buffers(use.length), NEW i \in 0 .. use.length - 1, NEW n \in 0 .. use.length
  PROVE  ReadBytes(i, n) = Bytes(use.length, s.cell, i, n)
<1>1. use.length \in Nat \ {0} BY UseFacts
<1>2. ASSUME NEW j \in 1 .. n PROVE Advance(i, j - 1) = Pos(use.length, i, j - 1)
  <2>1. j - 1 \in 0 .. use.length BY <1>1
  <2> QED BY <2>1, AdvanceIs
<1> QED BY <1>2 DEF ReadBytes, Bytes

\* The mapped sequence of bytes is what the buffer holds.
LEMMA ContentsNow ==
  ASSUME use \in Uses, s \in Buffers(use.length)
  PROVE  ReadBytes(s.tail, prvBytesInBuffer) = Contents(use, s)
<1>1. use.length \in Nat \ {0} /\ s.tail \in 0 .. use.length - 1 BY UseFacts, BufferFields
<1>2. prvBytesInBuffer = Held(use, s) /\ Held(use, s) \in 0 .. use.length
  <2>1. Held(use, s) \in 0 .. use.length - 1 BY HeldFacts
  <2> QED BY <1>1, <2>1, BytesNow
<1> QED BY <1>1, <1>2, ReadBytesIs DEF Contents

\* The bytes of a write.
LEMMA PayloadSeq ==
  ASSUME sent \in Nat, NEW n \in Nat PROVE Payload(n) \in Seq(Nat) /\ Len(Payload(n)) = n
<1>1. Values \in Nat \ {0} BY StreamAssumption
<1>2. \A i \in 1 .. n : (sent + i - 1) % Values \in Nat BY <1>1
<1>3. Payload(n) \in [1 .. n -> Nat] BY <1>2 DEF Payload
<1> QED BY <1>3

\* How many cells a write takes.
LEMMA FrameSeq ==
  ASSUME NEW u, NEW data \in Seq(Nat)
  PROVE  /\ Frame(u, data) \in Seq(Nat)
         /\ Len(Frame(u, data)) = Len(data) + IF u.kind = "message" THEN 1 ELSE 0
         /\ u.kind = "message" => Frame(u, data)[1] = Len(data)
  BY DEF Frame

\* The least of two.
LEMMA MinOfTwo == ASSUME NEW a \in Nat, NEW b \in Nat PROVE Min({a, b}) = IF a <= b THEN a ELSE b
<1>1. {a, b} \subseteq Nat /\ {a, b} # {} OBVIOUS
<1>2. Min({a, b}) \in {a, b} /\ \A j \in {a, b} : Min({a, b}) <= j BY <1>1, MinLeast
<1> QED BY <1>2

\* What is written fits into the space that was seen.
LEMMA WritableFits ==
  ASSUME use \in Uses, NEW size \in Nat, NEW space \in Nat
  PROVE  /\ Writable(size, space) \in Nat
         /\ Writable(size, space) # 0 => Writable(size, space) + (IF IsMessage THEN 1 ELSE 0) <= space
<1>1. Header = 1 BY StreamAssumption
<1>2. CASE IsMessage BY <1>1, <1>2 DEF Writable, Required
<1>3. CASE ~IsMessage
  <2>1. Writable(size, space) = IF size <= space THEN size ELSE space BY <1>3, MinOfTwo DEF Writable
  <2> QED BY <1>3, <2>1
<1> QED BY <1>2, <1>3

\* prvWriteBytesToBuffer, for a length and its bytes: the cells after xHead hold them.
LEMMA WrittenIs ==
  ASSUME use \in Uses, s \in Buffers(use.length), NEW data \in Seq(Nat), NEW w, w = Frame(use, data),
         Len(w) <= Room(use, s), NEW c, c = Written(data)
  PROVE  /\ c \in [0 .. use.length - 1 -> Nat]
         /\ \A i \in 1 .. Held(use, s) : c[Pos(use.length, s.tail, i - 1)] = s.cell[Pos(use.length, s.tail, i - 1)]
         /\ \A i \in 1 .. Len(w) : c[Pos(use.length, s.head, i - 1)] = w[i]
         /\ HeadAfter(data) = Pos(use.length, s.head, Len(w))
<1>1. PICK L \in Nat \ {0} : L = use.length BY UseFacts
<1>2. s.cell \in [0 .. L - 1 -> Nat] /\ s.head \in 0 .. L - 1 /\ s.tail \in 0 .. L - 1 BY <1>1, BufferFields
<1>3. w \in Seq(Nat) /\ Len(w) = Len(data) + IF use.kind = "message" THEN 1 ELSE 0 BY FrameSeq
<1>4. PICK n : n = Held(use, s) OBVIOUS
<1>5. n \in 0 .. L - 1 /\ Room(use, s) = L - 1 - n /\ s.head = Pos(L, s.tail, n)
  BY <1>1, <1>4, HeldFacts DEF Room
<1>6. PICK m \in Nat : m = Len(w) BY <1>3
<1>7. n + m <= L /\ m \in 0 .. L BY <1>5, <1>6
<1>8. Stored(L, s.cell, s.head, w, m, c)
  <2>1. (IF IsMessage THEN <<Len(data)>> ELSE <<>>) \o data = w BY DEF Frame, IsMessage
  <2>2. DOMAIN s.cell = 0 .. L - 1 BY <1>2
  <2> QED BY <1>1, <1>6, <2>1, <2>2 DEF Written, WriteBytes, Stored
<1>9. /\ c \in [0 .. L - 1 -> Nat]
      /\ \A i \in 1 .. n : c[Pos(L, s.tail, i - 1)] = s.cell[Pos(L, s.tail, i - 1)]
      /\ \A i \in 1 .. m : c[Pos(L, s.head, i - 1)] = w[i]
  <2>1. PICK d, t, h : d = s.cell /\ t = s.tail /\ h = s.head OBVIOUS
  <2>2. /\ d \in [0 .. L - 1 -> Nat] /\ t \in 0 .. L - 1 /\ h = Pos(L, t, n)
        /\ Stored(L, d, h, w, m, c)
    BY <1>2, <1>5, <1>8, <2>1
  <2>3. Filled(L, d, t, n, h, w, m, c)
    <3>1. w \in Seq(Nat) /\ m \in Nat /\ m = Len(w) /\ n + m <= L /\ n \in 0 .. L - 1 BY <1>3, <1>5, <1>6, <1>7
    <3> QED BY ONLY <2>2, <3>1, L \in Nat \ {0}, Wrote
  <2> QED BY <2>1, <2>3 DEF Filled
<1>10. HeadAfter(data) = Pos(L, s.head, m)
  <2>1. Len(data) + (IF IsMessage THEN Header ELSE 0) = m BY <1>3, <1>6, StreamAssumption DEF IsMessage
  <2> QED BY <1>1, <1>2, <1>7, <2>1, AdvanceIs DEF HeadAfter
<1> QED BY <1>1, <1>4, <1>6, <1>9, <1>10

\* xTail after a read.
LEMMA TailAfterIs ==
  ASSUME use \in Uses, s \in Buffers(use.length), NEW data \in Seq(Nat), Reading(use, s, data), NEW m, m = Len(Frame(use, data))
  PROVE  m \in 0 .. Held(use, s) /\ m # 0 /\ TailAfter(data) = Pos(use.length, s.tail, m)
<1>1. PICK L \in Nat \ {0} : L = use.length BY UseFacts
<1>2. s.tail \in 0 .. L - 1 BY <1>1, BufferFields
<1>3. m = Len(data) + IF use.kind = "message" THEN 1 ELSE 0 BY FrameSeq
<1>4. PICK n : n = Held(use, s) OBVIOUS
<1>5. n \in 0 .. L - 1 BY <1>1, <1>4, HeldFacts
<1>6. PICK e \in Nat : e = Len(data) OBVIOUS
<1>7. e # 0 BY <1>6 DEF Reading
<1>8. m <= n BY <1>3, <1>4, <1>6 DEF Reading
<1>9. m \in 0 .. n /\ m # 0 /\ m \in 0 .. L BY <1>3, <1>5, <1>6, <1>7, <1>8
<1>10. Len(data) + (IF IsMessage THEN Header ELSE 0) = m BY <1>3, StreamAssumption DEF IsMessage
<1>11. TailAfter(data) = Advance(s.tail, m) BY <1>10 DEF TailAfter
<1> QED BY <1>1, <1>2, <1>4, <1>9, <1>11, AdvanceIs

\* prvReadMessageFromBuffer: what is copied comes first in the buffer, and is a whole message.
LEMMA CopiedIs ==
  ASSUME use \in Uses, s \in Buffers(use.length), NEW room \in Nat, NEW avail \in Nat, avail <= Held(use, s),
         use.kind = "message" => avail > 1 /\ s.cell[s.tail] + 1 <= avail,
         NEW data, data = Copied(room, avail), data # <<>>
  PROVE  data \in Seq(Nat) /\ Reading(use, s, data)
<1>1. PICK L \in Nat \ {0} : L = use.length BY UseFacts
<1>2. s.cell \in [0 .. L - 1 -> Nat] /\ s.tail \in 0 .. L - 1 BY <1>1, BufferFields
<1>3. PICK n : n = Held(use, s) OBVIOUS
<1>4. n \in 0 .. L - 1 BY <1>1, <1>3, HeldFacts
<1>5. avail \in 0 .. L BY <1>3, <1>4
<1>6. Header = 1 BY StreamAssumption
<1>7. CASE use.kind = "message"
  <2>1. PICK len \in Nat : len = s.cell[s.tail] BY <1>2
  <2>2. avail > 1 /\ len + 1 <= avail BY <1>7, <2>1
  <2>3. PICK m \in {0, len} : m = IF len > room THEN 0 ELSE Min({len, avail - Header})
    <3>1. PICK a \in Nat : a = avail - Header BY <1>6, <2>2
    <3>2. Min({len, a}) = IF len <= a THEN len ELSE a BY MinOfTwo
    <3>3. len <= a BY <1>6, <2>2, <3>1
    <3> QED BY <3>1, <3>2, <3>3
  <2>4. PICK at : at = Pos(L, s.tail, 1) OBVIOUS
  <2>5. 1 \in 0 .. L BY <1>1
  <2>6. at \in 0 .. L - 1 /\ Advance(s.tail, Header) = at BY <1>1, <1>2, <1>6, <2>4, <2>5, PosIn, AdvanceIs
  <2>7. m \in 0 .. L BY <1>5, <2>2, <2>3
  <2>8. data = ReadBytes(at, m) BY <1>7, <2>1, <2>3, <2>6 DEF Copied, IsMessage
  <2>9. data = Bytes(L, s.cell, at, m) BY <1>1, <2>6, <2>7, <2>8, ReadBytesIs
  <2>10. data \in Seq(Nat) /\ Len(data) = m
    <3>1. PICK c \in {s.cell}, j \in 0 .. L : j = m BY <2>7
    <3>2. Bytes(L, c, at, j) \in Seq(Nat) /\ Len(Bytes(L, c, at, j)) = j BY <1>2, <2>6, <3>1, BytesSeq
    <3> QED BY <2>9, <3>1, <3>2
  <2>11. m = len BY <2>3, <2>10
  <2>12. Len(data) + 1 <= n BY <1>3, <1>4, <2>2, <2>10, <2>11
  <2> QED BY <1>1, <1>3, <1>7, <2>1, <2>4, <2>9, <2>10, <2>11, <2>12 DEF Reading
<1>8. CASE use.kind # "message"
  <2>1. PICK m : m = IF room <= avail THEN room ELSE avail OBVIOUS
  <2>2. m \in 0 .. L /\ m <= n BY <1>3, <1>4, <1>5, <2>1
  <2>3. data = ReadBytes(s.tail, m) BY <1>8, <2>1, MinOfTwo DEF Copied, IsMessage
  <2>4. data = Bytes(L, s.cell, s.tail, m) BY <1>1, <1>2, <2>2, <2>3, ReadBytesIs
  <2>5. data \in Seq(Nat) /\ Len(data) = m
    <3>1. PICK c \in [0 .. L - 1 -> Nat], at \in 0 .. L - 1, j \in 0 .. L : c = s.cell /\ at = s.tail /\ j = m
      BY <1>2, <2>2
    <3>2. Bytes(L, c, at, j) \in Seq(Nat) /\ Len(Bytes(L, c, at, j)) = j BY BytesSeq
    <3> QED BY <2>4, <3>1, <3>2
  <2> QED BY <1>1, <1>3, <1>8, <2>2, <2>4, <2>5 DEF Reading
<1> QED BY <1>7, <1>8

(* ------------------------------- messages ------------------------------- *)

\* An empty buffer holds no message.
LEMMA FramesNone == Frames(<<>>)
<1>1. PICK q : q = <<>> OBVIOUS
<1>2. Len(q) = 0 BY <1>1
<1>3. {0} \in SUBSET (0 .. Len(q)) /\ 0 \in {0} /\ Len(q) \in {0} BY <1>2
<1>4. \A f \in {0} : ~(f < Len(q)) BY <1>2
<1>5. \A f \in {0} : f < Len(q) => q[f + 1] # 0 /\ f + 1 + q[f + 1] \in {0} BY <1>4, Zenon
<1> QED BY <1>1, <1>3, <1>5, Zenon DEF Frames

\* A message buffer that holds something holds a message that is all there.
LEMMA FramesHead ==
  ASSUME NEW q \in Seq(Nat), Frames(q), q # <<>> PROVE q[1] \in Nat \ {0} /\ q[1] + 1 <= Len(q)
<1>1. PICK F \in SUBSET (0 .. Len(q)) :
        0 \in F /\ Len(q) \in F /\ \A f \in F : f < Len(q) => q[f + 1] # 0 /\ f + 1 + q[f + 1] \in F
  BY DEF Frames
<1>2. Len(q) \in Nat /\ Len(q) # 0 OBVIOUS
<1>3. q[1] \in Nat BY <1>2
<1>4. 0 < Len(q) BY <1>2
<1>5. q[0 + 1] # 0 /\ 0 + 1 + q[0 + 1] \in F BY <1>1, <1>4
<1>6. q[1] # 0 /\ 1 + q[1] \in F BY <1>5
<1> QED BY <1>2, <1>3, <1>6

\* A write adds one message at the end.
LEMMA FramesAdd ==
  ASSUME NEW q \in Seq(Nat), Frames(q), NEW data \in Seq(Nat), data # <<>>
  PROVE  Frames(q \o (<<Len(data)>> \o data))
<1>1. PICK F \in SUBSET (0 .. Len(q)) :
        0 \in F /\ Len(q) \in F /\ \A f \in F : f < Len(q) => q[f + 1] # 0 /\ f + 1 + q[f + 1] \in F
  BY DEF Frames
<1>2. PICK n \in Nat, e \in Nat : n = Len(q) /\ e = Len(data) OBVIOUS
<1>3. e # 0 BY <1>2
<1>4. PICK w : w = <<e>> \o data OBVIOUS
<1>5. w \in Seq(Nat) /\ Len(w) = e + 1 /\ w[1] = e BY <1>2, <1>4
<1>6. PICK m \in Nat : m = e + 1 OBVIOUS
<1>7. PICK z : z = q \o w OBVIOUS
<1>8. z \in Seq(Nat) /\ Len(z) = n + m /\ \A i \in 1 .. n + m : z[i] = IF i <= n THEN q[i] ELSE w[i - n]
  <2>1. m = Len(w) /\ n = Len(q) /\ w \in Seq(Nat) BY <1>2, <1>5, <1>6
  <2>2. /\ q \o w \in Seq(Nat) /\ Len(q \o w) = n + m
        /\ \A i \in 1 .. n + m : (q \o w)[i] = IF i <= n THEN q[i] ELSE w[i - n]
    BY ONLY <2>1, q \in Seq(Nat), n \in Nat, m \in Nat, Joined
  <2> QED BY ONLY <1>7, <2>2
<1>9. PICK G : G = F \cup {n + m} OBVIOUS
<1>10. G \in SUBSET (0 .. n + m)
  <2>1. \A f \in F : f \in 0 .. n BY <1>1, <1>2
  <2>2. \A f \in 0 .. n : f \in 0 .. n + m OBVIOUS
  <2>3. n + m \in 0 .. n + m OBVIOUS
  <2> QED BY <1>9, <2>1, <2>2, <2>3
<1>11. ASSUME NEW f \in G, f < n + m PROVE z[f + 1] # 0 /\ f + 1 + z[f + 1] \in G
  <2>1. f \in F BY <1>9, <1>11
  <2>2. f \in 0 .. n BY <1>1, <1>2, <2>1
  <2>3. CASE f < n
    <3>1. f + 1 \in 1 .. n + m /\ f + 1 <= n BY <2>2, <2>3
    <3>2. z[f + 1] = q[f + 1] BY <1>8, <3>1
    <3>3. q[f + 1] # 0 /\ f + 1 + q[f + 1] \in F BY <1>1, <1>2, <2>1, <2>3
    <3> QED BY <1>9, <3>2, <3>3
  <2>4. CASE ~(f < n)
    <3>1. f = n BY <2>2, <2>4
    <3>2. n + 1 \in 1 .. n + m /\ ~(n + 1 <= n) /\ (n + 1) - n = 1 BY <1>6
    <3>3. z[n + 1] = w[1] BY <1>8, <3>2
    <3>4. z[f + 1] = e BY <1>5, <3>1, <3>3
    <3>5. f + 1 + z[f + 1] = n + m BY <1>6, <3>1, <3>4
    <3> QED BY <1>3, <1>9, <3>4, <3>5
  <2> QED BY <2>3, <2>4
<1>12. 0 \in G /\ n + m \in G BY <1>1, <1>9
<1>13. Frames(z)
  <2>1. Len(z) = n + m BY <1>8
  <2> QED BY <1>10, <1>11, <1>12, <2>1 DEF Frames
<1> QED BY <1>2, <1>4, <1>7, <1>13

\* A read takes one message away at the front.
LEMMA FramesRest ==
  ASSUME NEW q \in Seq(Nat), Frames(q), q # <<>>, NEW m, m = q[1] + 1
  PROVE  Frames(SubSeq(q, m + 1, Len(q)))
<1>1. PICK F \in SUBSET (0 .. Len(q)) :
        0 \in F /\ Len(q) \in F /\ \A f \in F : f < Len(q) => q[f + 1] # 0 /\ f + 1 + q[f + 1] \in F
  BY DEF Frames
<1>2. PICK n \in Nat : n = Len(q) OBVIOUS
<1>0. m \in Nat /\ m <= n BY <1>2, FramesHead
<1>3. m \in Nat /\ m <= n /\ 0 < n /\ q[1] \in Nat BY <1>2, FramesHead
<1>4. m \in F
  <2>1. 0 + 1 + q[0 + 1] \in F BY <1>1, <1>2, <1>3
  <2> QED BY <1>3, <2>1
<1>5. PICK d \in Nat : d = n - m BY <1>3
<1>6. PICK z : z = SubSeq(q, m + 1, n) OBVIOUS
<1>7. Len(z) = d /\ \A i \in 1 .. d : z[i] = q[i + m] BY ONLY <1>0, <1>2, <1>5, <1>6, q \in Seq(Nat), n \in Nat, d \in Nat
<1>8. PICK G : G = {g \in 0 .. d : g + m \in F} OBVIOUS
<1>9. 0 \in G /\ d \in G /\ G \in SUBSET (0 .. d)
  <2>1. 0 + m = m /\ d + m = n /\ 0 \in 0 .. d /\ d \in 0 .. d BY ONLY <1>0, <1>5, n \in Nat, d \in Nat
  <2> QED BY <1>1, <1>2, <1>4, <1>8, <2>1
<1>10. ASSUME NEW g \in G, g < d PROVE z[g + 1] # 0 /\ g + 1 + z[g + 1] \in G
  <2>1. g \in 0 .. d /\ g + m \in F BY <1>8
  <2>2. PICK f \in F : f = g + m BY <2>1
  <2>3. f < n /\ g + 1 \in 1 .. d /\ (g + 1) + m = f + 1
    BY ONLY <1>0, <1>5, <1>10, <2>1, <2>2, n \in Nat, d \in Nat
  <2>4. q[f + 1] # 0 /\ f + 1 + q[f + 1] \in F BY <1>1, <1>2, <2>3
  <2>5. z[g + 1] = q[f + 1]
    <3>1. z[g + 1] = q[(g + 1) + m] BY ONLY <1>7, <2>3
    <3> QED BY ONLY <2>3, <3>1
  <2>6. PICK v : v = q[f + 1] OBVIOUS
  <2>7. v \in Nat
    <3>1. f + 1 \in 1 .. n BY ONLY <1>0, <2>1, <2>2, <2>3, n \in Nat, d \in Nat
    <3> QED BY <1>2, <2>6, <3>1
  <2>8. f + 1 + v \in F /\ f + 1 + v \in 0 .. n BY <1>1, <1>2, <2>4, <2>6
  <2>9. g + 1 + v \in 0 .. d /\ (g + 1 + v) + m = f + 1 + v BY ONLY <1>0, <1>5, <2>1, <2>2, <2>7, <2>8, d \in Nat, n \in Nat
  <2> QED BY <1>8, <2>4, <2>5, <2>6, <2>8, <2>9
<1> QED BY <1>2, <1>6, <1>7, <1>9, <1>10 DEF Frames

(* --------------------------- writes and reads --------------------------- *)

\* b and d are the same ring; the bytes w come to the end of what b holds; m bytes leave
\* at its front.
SameRing(b, d) == d.cell = b.cell /\ d.head = b.head /\ d.tail = b.tail
Puts(u, b, w, d) ==
  /\ d.tail = b.tail /\ Held(u, d) = Held(u, b) + Len(w) /\ Contents(u, d) = Contents(u, b) \o w
  /\ \A i \in 1 .. Held(u, b) : d.cell[Pos(u.length, b.tail, i - 1)] = b.cell[Pos(u.length, b.tail, i - 1)]
Takes(u, b, m, d) ==
  /\ d.cell = b.cell /\ d.head = b.head /\ m \in 0 .. Held(u, b) /\ Held(u, d) = Held(u, b) - m
  /\ Contents(u, d) = SubSeq(Contents(u, b), m + 1, Held(u, b))

\* The copy of prvWriteBytesToBuffer, before xHead moves, changes nothing that is held.
LEMMA CopyPuts ==
  ASSUME NEW u \in Uses, NEW b \in Buffers(u.length), NEW d \in Buffers(u.length), d.head = b.head, d.tail = b.tail,
         \A i \in 1 .. Held(u, b) : d.cell[Pos(u.length, b.tail, i - 1)] = b.cell[Pos(u.length, b.tail, i - 1)]
  PROVE  Puts(u, b, <<>>, d)
<1>1. PICK n \in Nat : n = Held(u, b) BY HeldFacts
<1>2. Held(u, d) = n BY <1>1 DEF Held
<1>3. Contents(u, d) = Contents(u, b) BY <1>1, <1>2, BytesSame DEF Contents
<1>4. Contents(u, b) \in Seq(Nat) BY HeldFacts
<1>5. Contents(u, b) \o <<>> = Contents(u, b) BY <1>4
<1>6. Held(u, d) = Held(u, b) + Len(<<>>) BY <1>1, <1>2
<1> QED BY <1>3, <1>5, <1>6 DEF Puts

\* xHead moves over bytes that have been copied.
LEMMA HeadPuts ==
  ASSUME NEW u \in Uses, NEW b \in Buffers(u.length), NEW d, d.cell = b.cell, d.tail = b.tail,
         NEW w \in Seq(Nat), Len(w) <= Room(u, b), d.head = Pos(u.length, b.head, Len(w)),
         \A i \in 1 .. Len(w) : b.cell[Pos(u.length, b.head, i - 1)] = w[i]
  PROVE  Puts(u, b, w, d) /\ d.head \in 0 .. u.length - 1
<1>1. PICK L \in Nat \ {0} : L = u.length BY UseFacts
<1>2. PICK c \in [0 .. L - 1 -> Nat], h \in 0 .. L - 1, t \in 0 .. L - 1 : c = b.cell /\ h = b.head /\ t = b.tail
  BY <1>1, BufferFields
<1>3. PICK n \in 0 .. L - 1 : n = Held(u, b) /\ h = Pos(L, t, n) BY <1>1, <1>2, HeldFacts
<1>4. PICK m \in Nat : m = Len(w) OBVIOUS
<1>5. n + m <= L - 1
  <2>1. Room(u, b) = L - 1 - n BY <1>1, <1>3 DEF Room
  <2>2. m <= L - 1 - n BY <1>4, <2>1
  <2> QED BY ONLY <2>2, m \in Nat, n \in 0 .. L - 1, L \in Nat \ {0}
<1>6. \A i \in 1 .. m : c[Pos(L, h, i - 1)] = w[i] BY <1>1, <1>2, <1>4
<1>7. HeadMoved(L, c, t, n, h, w, m)
  BY ONLY <1>3, <1>4, <1>5, <1>6, L \in Nat \ {0}, c \in [0 .. L - 1 -> Nat], t \in 0 .. L - 1, n \in 0 .. L - 1,
     w \in Seq(Nat), m \in Nat, HeadMoves
<1>8. Held(u, d) = n + m BY <1>1, <1>2, <1>4, <1>7 DEF Held, HeadMoved
<1>9. Contents(u, d) = Contents(u, b) \o w BY <1>1, <1>2, <1>3, <1>7, <1>8 DEF Contents, HeadMoved
<1> QED BY <1>1, <1>2, <1>3, <1>4, <1>7, <1>8, <1>9 DEF Puts, HeadMoved

\* A copy and then the move of xHead.
LEMMA PutsOn ==
  ASSUME NEW u \in Uses, NEW b \in Buffers(u.length), NEW d, NEW e, NEW w \in Seq(Nat), Puts(u, b, <<>>, d), Puts(u, d, w, e)
  PROVE  Puts(u, b, w, e)
<1>1. PICK n \in Nat : n = Held(u, b) BY HeldFacts
<1>2. Held(u, d) = n /\ d.tail = b.tail
  <2>1. Held(u, d) = n + Len(<<>>) /\ d.tail = b.tail BY <1>1 DEF Puts
  <2>2. Len(<<>>) = 0 OBVIOUS
  <2> QED BY <2>1, <2>2
<1>3. Contents(u, d) = Contents(u, b)
  <2>1. Contents(u, d) = Contents(u, b) \o <<>> BY DEF Puts
  <2>2. Contents(u, b) \in Seq(Nat) BY HeldFacts
  <2> QED BY <2>1, <2>2
<1>4. e.tail = b.tail /\ Held(u, e) = Held(u, b) + Len(w) /\ Contents(u, e) = Contents(u, b) \o w
  BY <1>1, <1>2, <1>3 DEF Puts
<1>5. ASSUME NEW i \in 1 .. n PROVE e.cell[Pos(u.length, b.tail, i - 1)] = b.cell[Pos(u.length, b.tail, i - 1)]
  BY <1>1, <1>2 DEF Puts
<1> QED BY <1>1, <1>4, <1>5 DEF Puts

\* xTail moves over bytes that have been read.
LEMMA TailTakes ==
  ASSUME NEW u \in Uses, NEW b \in Buffers(u.length), NEW d, d.cell = b.cell, d.head = b.head,
         NEW m \in 0 .. Held(u, b), d.tail = Pos(u.length, b.tail, m)
  PROVE  Takes(u, b, m, d) /\ d.tail \in 0 .. u.length - 1
<1>1. PICK L \in Nat \ {0} : L = u.length BY UseFacts
<1>2. PICK c \in [0 .. L - 1 -> Nat], h \in 0 .. L - 1, t \in 0 .. L - 1 : c = b.cell /\ h = b.head /\ t = b.tail
  BY <1>1, BufferFields
<1>3. PICK n \in 0 .. L - 1 : n = Held(u, b) /\ h = Pos(L, t, n) BY <1>1, <1>2, HeldFacts
<1>4. m \in 0 .. n BY <1>3
<1>5. TailMoved(L, c, t, n, h, m)
  BY ONLY <1>3, <1>4, L \in Nat \ {0}, c \in [0 .. L - 1 -> Nat], t \in 0 .. L - 1, n \in 0 .. L - 1, TailMoves
<1>6. Held(u, d) = n - m BY <1>1, <1>2, <1>5 DEF Held, TailMoved
<1>7. Contents(u, d) = SubSeq(Contents(u, b), m + 1, n) BY <1>1, <1>2, <1>3, <1>5, <1>6 DEF Contents, TailMoved
<1> QED BY <1>1, <1>2, <1>3, <1>5, <1>6, <1>7 DEF Takes, TailMoved

\* What was read stays what comes first while the writer writes.
LEMMA ReadingUnderPut ==
  ASSUME NEW u \in Uses, NEW b \in Buffers(u.length), NEW d, NEW w \in Seq(Nat), Puts(u, b, w, d),
         NEW data \in Seq(Nat), Reading(u, b, data)
  PROVE  Reading(u, d, data)
<1>1. PICK L \in Nat \ {0} : L = u.length BY UseFacts
<1>2. PICK t \in 0 .. L - 1 : t = b.tail BY <1>1, BufferFields
<1>3. PICK n \in 0 .. L - 1 : n = Held(u, b) BY <1>1, HeldFacts
<1>4. PICK e \in Nat, m \in Nat : e = Len(data) /\ m = Len(w) OBVIOUS
<1>5. d.tail = t /\ Held(u, d) = n + m /\ \A i \in 1 .. n : d.cell[Pos(L, t, i - 1)] = b.cell[Pos(L, t, i - 1)]
  BY <1>1, <1>2, <1>3, <1>4 DEF Puts
<1>6. data # <<>> BY DEF Reading
<1>7. e # 0 BY <1>4, <1>6
<1>8. CASE u.kind = "message"
  <2>1. e = b.cell[t] /\ e + 1 <= n /\ data = Bytes(L, b.cell, Pos(L, t, 1), e)
    BY <1>1, <1>2, <1>3, <1>4, <1>8 DEF Reading
  <2>2. d.cell[t] = b.cell[t]
    <3>1. 1 \in 1 .. n /\ Pos(L, t, 1 - 1) = t BY <1>7, <2>1 DEF Pos
    <3>2. d.cell[Pos(L, t, 1 - 1)] = b.cell[Pos(L, t, 1 - 1)] BY <1>5, <3>1
    <3> QED BY <3>1, <3>2
  <2>3. ASSUME NEW i \in 1 .. e
        PROVE  d.cell[Pos(L, Pos(L, t, 1), i - 1)] = b.cell[Pos(L, Pos(L, t, 1), i - 1)]
    <3>1. PICK j \in 1 .. n : j = i + 1 BY <2>1
    <3>2. 1 \in 0 .. L /\ i - 1 \in 0 .. L /\ 1 + (i - 1) <= L /\ 1 + (i - 1) = j - 1 BY <1>7, <2>1, <3>1
    <3>3. Pos(L, Pos(L, t, 1), i - 1) = Pos(L, t, 1 + (i - 1)) BY <3>2, PosPos
    <3>4. d.cell[Pos(L, t, j - 1)] = b.cell[Pos(L, t, j - 1)] BY <1>5
    <3> QED BY <3>2, <3>3, <3>4
  <2>4. Bytes(L, d.cell, Pos(L, t, 1), e) = Bytes(L, b.cell, Pos(L, t, 1), e)
    <3>1. PICK v, f, g : v = Pos(L, t, 1) /\ f = d.cell /\ g = b.cell OBVIOUS
    <3>2. \A i \in 1 .. e : f[Pos(L, v, i - 1)] = g[Pos(L, v, i - 1)] BY <2>3, <3>1
    <3>3. Bytes(L, f, v, e) = Bytes(L, g, v, e) BY ONLY <3>2, BytesSame
    <3> QED BY <3>1, <3>3
  <2>5. e + 1 <= n + m BY <2>1
  <2> QED BY <1>1, <1>4, <1>5, <1>6, <1>8, <2>1, <2>2, <2>4, <2>5 DEF Reading
<1>9. CASE u.kind # "message"
  <2>1. e <= n /\ data = Bytes(L, b.cell, t, e) BY <1>1, <1>2, <1>3, <1>4, <1>9 DEF Reading
  <2>2. ASSUME NEW i \in 1 .. e PROVE d.cell[Pos(L, t, i - 1)] = b.cell[Pos(L, t, i - 1)]
    <3>1. i \in 1 .. n BY <2>1
    <3> QED BY <1>5, <3>1
  <2>3. Bytes(L, d.cell, t, e) = Bytes(L, b.cell, t, e) BY <2>2, BytesSame
  <2>4. e <= n + m BY <2>1
  <2> QED BY <1>1, <1>4, <1>5, <1>6, <1>9, <2>1, <2>3, <2>4 DEF Reading
<1> QED BY <1>8, <1>9

\* The reader's call under a write.
LEMMA ReaderUnderPut ==
  ASSUME NEW u \in Uses, NEW b \in Buffers(u.length), NEW d, NEW w \in Seq(Nat), Puts(u, b, w, d),
         NEW c \in Calls, ReaderFits(u, b, c)
  PROVE  ReaderFits(u, d, c)
<1>1. PICK L \in Nat \ {0} : L = u.length BY UseFacts
<1>2. PICK t \in 0 .. L - 1 : t = b.tail BY <1>1, BufferFields
<1>3. PICK n \in 0 .. L - 1 : n = Held(u, b) BY <1>1, HeldFacts
<1>4. PICK m \in Nat : m = Len(w) OBVIOUS
<1>5. c.n \in Nat /\ c.data \in Seq(Nat) BY DEF Calls
<1>6. d.tail = t /\ Held(u, d) = n + m /\ \A i \in 1 .. n : d.cell[Pos(L, t, i - 1)] = b.cell[Pos(L, t, i - 1)]
  BY <1>1, <1>2, <1>3, <1>4 DEF Puts
<1>7. c.n <= n BY <1>3 DEF ReaderFits
<1>8. c.n <= n + m BY <1>5, <1>7
<1>9. c.n > 1 => d.cell[t] = b.cell[t]
  <2>1. SUFFICES ASSUME c.n > 1 PROVE d.cell[t] = b.cell[t] OBVIOUS
  <2>2. 1 \in 1 .. n /\ Pos(L, t, 1 - 1) = t BY <1>5, <1>7, <2>1 DEF Pos
  <2>3. d.cell[Pos(L, t, 1 - 1)] = b.cell[Pos(L, t, 1 - 1)] BY <1>6, <2>2
  <2> QED BY <2>2, <2>3
<1>10. c.pc = "receiveTail" => Reading(u, d, c.data) BY <1>5, ReadingUnderPut DEF ReaderFits
<1> QED BY <1>2, <1>6, <1>8, <1>9, <1>10 DEF ReaderFits

\* The writer's call under a read: there is more room.
LEMMA WriterUnderTake ==
  ASSUME NEW u \in Uses, NEW b \in Buffers(u.length), NEW d, NEW m, Takes(u, b, m, d),
         NEW c \in Calls, WriterFits(u, b, c)
  PROVE  WriterFits(u, d, c)
<1>1. PICK n \in Nat, r \in Int : n = Held(u, b) /\ r = Room(u, b) BY HeldFacts
<1>2. u.length \in Nat BY UseFacts
<1>3. Room(u, d) = r + m /\ m \in Nat
  <2>1. m \in 0 .. n /\ Held(u, d) = n - m BY <1>1 DEF Takes
  <2>2. r = u.length - 1 - n BY <1>1 DEF Room
  <2>3. Room(u, d) = u.length - 1 - (n - m) BY <2>1 DEF Room
  <2> QED BY <1>2, <2>1, <2>2, <2>3
<1>4. c.n \in Nat /\ c.data \in Seq(Nat) BY DEF Calls
<1>5. PICK e \in Nat : e = Len(Frame(u, c.data)) BY <1>4, FrameSeq
<1>6. (c.n <= r => c.n <= r + m) /\ (e <= r => e <= r + m) BY <1>3, <1>4
<1>7. d.cell = b.cell /\ d.head = b.head BY DEF Takes
<1> QED BY <1>1, <1>3, <1>5, <1>6, <1>7 DEF WriterFits

\* The same ring fits the same calls.
LEMMA SameFits ==
  ASSUME NEW u, NEW b, NEW d, SameRing(b, d)
  PROVE  /\ Held(u, d) = Held(u, b) /\ Room(u, d) = Room(u, b) /\ Contents(u, d) = Contents(u, b)
         /\ \A c : WriterFits(u, b, c) => WriterFits(u, d, c)
         /\ \A c : ReaderFits(u, b, c) => ReaderFits(u, d, c)
<1>1. Held(u, d) = Held(u, b) BY DEF SameRing, Held
<1>2. Room(u, d) = Room(u, b) BY <1>1 DEF Room
<1>3. Contents(u, d) = Contents(u, b) BY <1>1 DEF SameRing, Contents
<1>4. ASSUME NEW c, WriterFits(u, b, c) PROVE WriterFits(u, d, c) BY <1>2, <1>4 DEF SameRing, WriterFits
<1>5. ASSUME NEW c, ReaderFits(u, b, c) PROVE ReaderFits(u, d, c) BY <1>1, <1>5 DEF SameRing, ReaderFits, Reading
<1> QED BY <1>1, <1>2, <1>3, <1>4, <1>5

(* ------------------------------- a task's step ------------------------------ *)

\* The call of t becomes c; what is left of the call d.
Stepped(t, c) == c \in Calls /\ me' = [me EXCEPT ![t] = c]
Rest(c, d) == c.size = d.size /\ c.left = d.left /\ c.n = d.n /\ c.block = d.block /\ c.data = d.data

\* Only t's call changes.
LEMMA SteppedFacts ==
  ASSUME CallsOK, NEW t \in Tasks, NEW c, Stepped(t, c)
  PROVE  me' \in [Tasks -> Calls] /\ me'[t] = c /\ \A u \in Tasks : u # t => me'[u] = me[u]
  BY DEF CallsOK, Stepped

\* A step that goes to another place in the call.
LEMMA GotoSteps ==
  ASSUME CallsOK, NEW t \in Tasks, NEW pc \in Pcs, Goto(t, pc)
  PROVE  \E c : Stepped(t, c) /\ c.pc = pc /\ Rest(c, me[t])
<1>1. me \in [Tasks -> Calls] /\ me[t] \in Calls BY DEF CallsOK
<1>2. PICK c : c = [me[t] EXCEPT !.pc = pc] OBVIOUS
<1>3. c \in Calls /\ c.pc = pc /\ Rest(c, me[t]) BY <1>1, <1>2 DEF Calls, Rest
<1>4. me' = [me EXCEPT ![t] = c] BY <1>1, <1>2 DEF Goto
<1> QED BY <1>3, <1>4 DEF Stepped

\* The end of a call, or of its part that looks at the buffer.
LEMMA NoCallFields ==
  /\ NoCall \in Calls /\ NoCall.pc = "idle" /\ NoCall.n = 0
  /\ [NoCall EXCEPT !.pc = "doneSuspend"] \in Calls /\ [NoCall EXCEPT !.pc = "doneSuspend"].pc = "doneSuspend"
  /\ [NoCall EXCEPT !.pc = "doneSuspend"].n = 0
<1>1. 0 \in TickType /\ 0 \in Overflows BY TickTypes DEF Overflows
<1>2. <<>> \in Seq(Nat) OBVIOUS
<1>3. "idle" \in Pcs /\ "doneSuspend" \in Pcs BY DEF Pcs, DonePcs
<1> QED BY <1>1, <1>2, <1>3 DEF NoCall, Calls

\* What the tasks share keeps its type when the buffer stays.
LEMMA SharedStays ==
  ASSUME SharedOK, UNCHANGED <<use, s, sent>>, note' \in [Tasks -> {"none", "waiting", "received"}]
  PROVE  SharedOK' /\ SameRing(s, s')
  BY DEF SharedOK, SameRing

\* A step that leaves the ring alone, with a call that fits it.
LEMMA PlainKeeps ==
  ASSUME CallsOK, RingOK, SharedOK', UNCHANGED use, SameRing(s, s'), NEW t \in Tasks, NEW c, Stepped(t, c), CallFits(use, t, c),
         t = use.writer => WriterFits(use, s, c), t = use.reader => ReaderFits(use, s, c)
  PROVE  CallsOK' /\ RingOK'
<1>1. me' \in [Tasks -> Calls] /\ me'[t] = c /\ \A u \in Tasks : u # t => me'[u] = me[u] BY SteppedFacts
<1>2. CallsOK'
  <2>1. ASSUME NEW u \in Tasks PROVE CallFits(use, u, me'[u])
    <3>1. CASE u = t BY <1>1, <3>1
    <3>2. CASE u # t BY <1>1, <3>2 DEF CallsOK
    <3> QED BY <3>1, <3>2
  <2> QED BY <1>1, <2>1 DEF CallsOK
<1>3. Contents(use, s') = Contents(use, s) BY SameFits
<1>4. use.writer \in Tasks => WriterFits(use, s', me'[use.writer])
  <2>1. SUFFICES ASSUME use.writer \in Tasks PROVE WriterFits(use, s', me'[use.writer]) OBVIOUS
  <2>2. WriterFits(use, s, me'[use.writer])
    <3>1. CASE use.writer = t BY <1>1, <3>1
    <3>2. CASE use.writer # t BY <1>1, <2>1, <3>2 DEF RingOK
    <3> QED BY <3>1, <3>2
  <2> QED BY <2>2, SameFits
<1>5. use.reader \in Tasks => ReaderFits(use, s', me'[use.reader])
  <2>1. SUFFICES ASSUME use.reader \in Tasks PROVE ReaderFits(use, s', me'[use.reader]) OBVIOUS
  <2>2. ReaderFits(use, s, me'[use.reader])
    <3>1. CASE use.reader = t BY <1>1, <3>1
    <3>2. CASE use.reader # t BY <1>1, <2>1, <3>2 DEF RingOK
    <3> QED BY <3>1, <3>2
  <2> QED BY <2>2, SameFits
<1> QED BY <1>2, <1>3, <1>4, <1>5 DEF RingOK

\* A call that knows no more of the buffer than before fits it.
LEMMA PlainFits ==
  ASSUME CallsOK, RingOK, NEW t \in Tasks, NEW c, (c.n = me[t].n /\ me[t].pc # "sendTrigger") \/ c.n = 0,
         c.pc \notin {"sendCopy", "sendHead", "receiveCopy", "receiveTail"}
  PROVE  (t = use.writer => WriterFits(use, s, c)) /\ (t = use.reader => ReaderFits(use, s, c))
<1>1. Held(use, s) \in Nat /\ Room(use, s) \in Nat
  <2>1. use \in Uses /\ s \in Buffers(use.length) BY DEF CallsOK, SharedOK
  <2>2. use.length \in Nat BY <2>1, UseFacts
  <2>3. Held(use, s) \in 0 .. use.length - 1 /\ Room(use, s) \in 0 .. use.length - 1 BY <2>1, HeldFacts
  <2> QED BY <2>2, <2>3
<1>2. ASSUME t = use.writer PROVE WriterFits(use, s, c)
  <2>1. WriterFits(use, s, me[t]) BY <1>2 DEF RingOK
  <2>2. c.n <= Room(use, s) BY <1>1, <2>1 DEF WriterFits
  <2> QED BY <2>2 DEF WriterFits
<1>3. ASSUME t = use.reader PROVE ReaderFits(use, s, c)
  <2>1. ReaderFits(use, s, me[t]) BY <1>3 DEF RingOK
  <2>2. c.n <= Held(use, s) BY <1>1, <2>1 DEF ReaderFits
  <2> QED BY <2>2 DEF ReaderFits
<1> QED BY <1>2, <1>3

\* Both together.
LEMMA PlainStep ==
  ASSUME CallsOK, RingOK, SharedOK', UNCHANGED use, SameRing(s, s'), NEW t \in Tasks, NEW c, Stepped(t, c), CallFits(use, t, c),
         (c.n = me[t].n /\ me[t].pc # "sendTrigger") \/ c.n = 0,
         c.pc \notin {"sendCopy", "sendHead", "receiveCopy", "receiveTail"}
  PROVE  CallsOK' /\ RingOK'
<1>1. (t = use.writer => WriterFits(use, s, c)) /\ (t = use.reader => ReaderFits(use, s, c)) BY PlainFits
<1> QED BY <1>1, PlainKeeps

\* A call outside "idle" is a side's.
LEMMA SideSteps == ASSUME CallsOK, NEW t \in Tasks, me[t].pc # "idle" PROVE t \in Sides
  BY DEF CallsOK, CallFits, Sides

\* A step that goes to another place and leaves the buffer alone.
LEMMA GotoKeeps ==
  ASSUME CallsOK, RingOK, SharedOK', UNCHANGED use, SameRing(s, s'), NEW t \in Tasks, NEW pc \in Pcs, Goto(t, pc),
         me[t].pc \notin {"idle", "sendTrigger"}, pc \notin {"sendCopy", "sendHead", "receiveCopy", "receiveTail"},
         pc \in WritePcs => t = use.writer, pc \in ReadPcs => t = use.reader,
         pc \in TimedPcs => me[t].pc \in TimedPcs, pc # "waitBlock"
  PROVE  CallsOK' /\ RingOK' /\ \E c : Stepped(t, c) /\ c.pc = pc /\ Rest(c, me[t])
<1>1. PICK c : Stepped(t, c) /\ c.pc = pc /\ Rest(c, me[t]) BY GotoSteps
<1>2. CallFits(use, t, c)
  <2>1. CallFits(use, t, me[t]) BY DEF CallsOK
  <2> QED BY <1>1, <2>1 DEF CallFits, Rest
<1>3. CallsOK' /\ RingOK'
  <2>1. c.n = me[t].n /\ me[t].pc # "sendTrigger" BY <1>1 DEF Rest
  <2> QED BY <1>1, <1>2, <2>1, PlainStep
<1> QED BY <1>1, <1>3

(* --------------------- each action, on its call and the ring --------------------- *)

\* Where the calls begin, and the scheduler's part of xTaskGenericNotifyWait.
LEMMA WaitSuspendCalls ==
  ASSUME CallsOK, RingOK, UNCHANGED use, NEW t \in Tasks, NotifyWaitSuspend(t)
  PROVE  CallsOK' /\ RingOK' /\ \E c : Stepped(t, c) /\ c.pc = "waitMark" /\ Rest(c, me[t])
<1>1. SharedOK' /\ SameRing(s, s') BY SharedStays DEF NotifyWaitSuspend, CallsOK, SharedOK
<1>2. me[t].pc = "waitSuspend" /\ Goto(t, "waitMark") BY DEF NotifyWaitSuspend, At
<1> QED BY <1>1, <1>2, GotoKeeps DEF Pcs, WaitPcs, WritePcs, ReadPcs, TimedPcs

\* The task marks itself as waiting, unless it has been notified.
LEMMA WaitMarkCalls ==
  ASSUME CallsOK, RingOK, UNCHANGED use, NEW t \in Tasks, NotifyWaitMark(t)
  PROVE  /\ CallsOK' /\ RingOK'
         /\ \E c : /\ Stepped(t, c) /\ c.size = me[t].size
                   /\ IF note[t] = "received" THEN c.pc = "waitResume" /\ note' = note
                      ELSE c.pc = "waitBlock" /\ note' = [note EXCEPT ![t] = "waiting"]
<1>0. me \in [Tasks -> Calls] /\ me[t] \in Calls /\ CallFits(use, t, me[t]) /\ me[t].pc = "waitMark"
  BY DEF CallsOK, NotifyWaitMark, At
<1>1. note' \in [Tasks -> {"none", "waiting", "received"}] BY DEF NotifyWaitMark, CallsOK, SharedOK
<1>2. SharedOK' /\ SameRing(s, s') BY <1>1, SharedStays DEF NotifyWaitMark, CallsOK
<1>3. CASE note[t] = "received"
  <2>1. Goto(t, "waitResume") /\ note' = note BY <1>3 DEF NotifyWaitMark
  <2>2. CallsOK' /\ RingOK' /\ \E c : Stepped(t, c) /\ c.pc = "waitResume" /\ Rest(c, me[t])
    BY <1>0, <1>2, <2>1, GotoKeeps DEF Pcs, WaitPcs, WritePcs, ReadPcs, TimedPcs
  <2> QED BY <1>3, <2>1, <2>2 DEF Rest
<1>4. CASE note[t] # "received"
  <2>1. PICK c : c = [me[t] EXCEPT !.pc = "waitBlock", !.block = TRUE] OBVIOUS
  <2>2. c \in Calls /\ c.pc = "waitBlock" /\ c.block /\ c.size = me[t].size /\ c.left = me[t].left /\ c.n = me[t].n
    BY <1>0, <2>1 DEF Calls, Pcs, WaitPcs
  <2>3. Stepped(t, c) /\ note' = [note EXCEPT ![t] = "waiting"] BY <1>0, <1>4, <2>1, <2>2 DEF NotifyWaitMark, Stepped
  <2>4. CallFits(use, t, c) BY <1>0, <2>2 DEF CallFits, WritePcs, ReadPcs, TimedPcs
  <2>5. c.n = me[t].n /\ me[t].pc # "sendTrigger" BY <1>0, <2>2
  <2>6. CallsOK' /\ RingOK' BY <1>2, <2>2, <2>3, <2>4, <2>5, PlainStep
  <2> QED BY <1>4, <2>2, <2>3, <2>6
<1> QED BY <1>3, <1>4

\* It goes to sleep.
LEMMA WaitBlockCalls ==
  ASSUME CallsOK, RingOK, UNCHANGED use, NEW t \in Tasks, NotifyWaitBlock(t)
  PROVE  CallsOK' /\ RingOK' /\ \E c : Stepped(t, c) /\ c.pc = "waitResume" /\ Rest(c, me[t])
<1>1. SharedOK' /\ SameRing(s, s') BY SharedStays DEF NotifyWaitBlock, CallsOK, SharedOK
<1>2. me[t].pc = "waitBlock" /\ Goto(t, "waitResume") BY DEF NotifyWaitBlock, At
<1> QED BY <1>1, <1>2, GotoKeeps DEF Pcs, WaitPcs, WritePcs, ReadPcs, TimedPcs

\* It resumes the scheduler.
LEMMA WaitResumeCalls ==
  ASSUME CallsOK, RingOK, UNCHANGED use, NEW t \in Tasks, NotifyWaitResume(t)
  PROVE  /\ CallsOK' /\ RingOK'
         /\ \E c : Stepped(t, c) /\ c.pc = (IF me[t].block /\ ~k'.yield THEN "waitYield" ELSE "waitDone") /\ Rest(c, me[t])
<1>1. SharedOK' /\ SameRing(s, s') BY SharedStays DEF NotifyWaitResume, CallsOK, SharedOK
<1>2. PICK pc : pc = IF me[t].block /\ ~k'.yield THEN "waitYield" ELSE "waitDone" OBVIOUS
<1>3. pc \in {"waitYield", "waitDone"} BY <1>2
<1>4. me[t].pc = "waitResume" /\ Goto(t, pc) BY <1>2 DEF NotifyWaitResume, At
<1>5. CallsOK' /\ RingOK' /\ \E c : Stepped(t, c) /\ c.pc = pc /\ Rest(c, me[t])
  BY <1>1, <1>3, <1>4, GotoKeeps DEF Pcs, WaitPcs, WritePcs, ReadPcs, TimedPcs
<1> QED BY <1>2, <1>5

\* It gives the processor away.
LEMMA WaitYieldCalls ==
  ASSUME CallsOK, RingOK, UNCHANGED use, NEW t \in Tasks, NotifyWaitYield(t)
  PROVE  CallsOK' /\ RingOK' /\ \E c : Stepped(t, c) /\ c.pc = "waitDone" /\ Rest(c, me[t])
<1>1. SharedOK' /\ SameRing(s, s') BY SharedStays DEF NotifyWaitYield, CallsOK, SharedOK
<1>2. me[t].pc = "waitYield" /\ Goto(t, "waitDone") BY DEF NotifyWaitYield, At
<1> QED BY <1>1, <1>2, GotoKeeps DEF Pcs, WaitPcs, WritePcs, ReadPcs, TimedPcs

\* It is back, notified or timed out.
LEMMA WaitDoneCalls ==
  ASSUME CallsOK, RingOK, UNCHANGED use, NEW t \in Tasks, NotifyWaitDone(t)
  PROVE  CallsOK' /\ RingOK' /\ \E c : Stepped(t, c) /\ c.pc \in {"sendNull", "receiveNull"}
<1>0. me \in [Tasks -> Calls] /\ me[t] \in Calls /\ CallFits(use, t, me[t]) /\ me[t].pc = "waitDone"
  BY DEF CallsOK, NotifyWaitDone, At
<1>1. note' \in [Tasks -> {"none", "waiting", "received"}] BY DEF NotifyWaitDone, CallsOK, SharedOK
<1>2. SharedOK' /\ SameRing(s, s') BY <1>1, SharedStays DEF NotifyWaitDone, CallsOK
<1>3. PICK pc : pc = IF t = use.writer THEN "sendNull" ELSE "receiveNull" OBVIOUS
<1>4. PICK c : c = [me[t] EXCEPT !.pc = pc, !.block = FALSE] OBVIOUS
<1>5. c \in Calls /\ c.pc = pc /\ c.n = me[t].n BY <1>0, <1>3, <1>4 DEF Calls, Pcs, WritePcs, ReadPcs
<1>6. Stepped(t, c) BY <1>0, <1>3, <1>4, <1>5 DEF NotifyWaitDone, Stepped
<1>7. pc \in {"sendNull", "receiveNull"} BY <1>3
<1>8. CallFits(use, t, c) BY <1>0, <1>3, <1>5 DEF CallFits, WritePcs, ReadPcs, TimedPcs
<1>9. c.n = me[t].n /\ me[t].pc # "sendTrigger" BY <1>0, <1>5
<1>10. CallsOK' /\ RingOK' BY <1>2, <1>5, <1>6, <1>7, <1>8, <1>9, PlainStep
<1> QED BY <1>5, <1>6, <1>7, <1>10

\* xStreamBufferSend begins.
LEMMA BeginSendCalls ==
  ASSUME CallsOK, RingOK, k \in Kernels, UNCHANGED use, NEW t \in Tasks, NEW size \in use.sizes, NEW wait \in use.waits[t],
         BeginSend(t, size, wait)
  PROVE  CallsOK' /\ RingOK' /\ \E c : Stepped(t, c) /\ c.pc \in {"sendLook", "sendCheck"} /\ t = use.writer
<1>0. /\ me \in [Tasks -> Calls] /\ me[t] \in Calls /\ CallFits(use, t, me[t]) /\ me[t].pc = "idle" /\ t = use.writer
      /\ use \in Uses
  BY DEF CallsOK, SharedOK, BeginSend, At
<1>1. SharedOK' /\ SameRing(s, s') BY SharedStays DEF BeginSend, CallsOK, SharedOK
<1>2. size \in Nat /\ wait \in TickType BY <1>0, UseFacts
<1>3. PICK left \in TickType : left = IF IsMessage /\ Required(size) > use.length - 1 THEN 0 ELSE wait BY <1>2, TickTypes
<1>4. PICK call : call = [NoCall EXCEPT !.size = size, !.left = left] OBVIOUS
<1>5. call \in Calls /\ call.left = left /\ call.n = 0 BY <1>2, <1>4, NoCallFields DEF Calls, NoCall
<1>6. PICK c : c = IF left = 0 THEN [call EXCEPT !.pc = "sendLook"]
                   ELSE [call EXCEPT !.pc = "sendCheck", !.over = k.over, !.tick = k.tick]
  OBVIOUS
<1>7. k.over \in Overflows /\ k.tick \in TickType BY KernelFields
<1>8. "sendLook" \in Pcs /\ "sendCheck" \in Pcs BY DEF Pcs, WritePcs
<1>9. /\ c \in Calls /\ c.n = 0 /\ c.pc \in {"sendLook", "sendCheck"} /\ (c.pc = "sendCheck" => c.left # 0)
  <2>1. CASE left = 0 BY <1>5, <1>6, <1>8, <2>1 DEF Calls
  <2>2. CASE left # 0 BY <1>5, <1>6, <1>7, <1>8, <2>2 DEF Calls
  <2> QED BY <2>1, <2>2
<1>10. Stepped(t, c) BY <1>3, <1>4, <1>6, <1>9, Zenon DEF BeginSend, Stepped
<1>11. CallFits(use, t, c) BY <1>0, <1>9 DEF CallFits, WritePcs, ReadPcs, TimedPcs
<1>12. CallsOK' /\ RingOK'
  <2>1. c.pc \notin {"sendCopy", "sendHead", "receiveCopy", "receiveTail"} /\ c.n = 0 BY <1>9
  <2> QED BY <1>1, <1>10, <1>11, <2>1, PlainStep
<1> QED BY <1>0, <1>9, <1>10, <1>12

\* xStreamBufferReceive begins.
LEMMA BeginReceiveCalls ==
  ASSUME CallsOK, RingOK, UNCHANGED use, NEW t \in Tasks, NEW room \in use.rooms, NEW wait \in use.waits[t],
         BeginReceive(t, room, wait)
  PROVE  CallsOK' /\ RingOK' /\ \E c : Stepped(t, c) /\ c.pc \in {"receiveLook", "receiveCheck"} /\ t = use.reader
<1>0. /\ me \in [Tasks -> Calls] /\ me[t] \in Calls /\ CallFits(use, t, me[t]) /\ me[t].pc = "idle" /\ t = use.reader
      /\ use \in Uses
  BY DEF CallsOK, SharedOK, BeginReceive, At
<1>1. SharedOK' /\ SameRing(s, s') BY SharedStays DEF BeginReceive, CallsOK, SharedOK
<1>2. room \in Nat /\ wait \in TickType BY <1>0, UseFacts
<1>3. PICK pc : pc = IF wait = 0 THEN "receiveLook" ELSE "receiveCheck" OBVIOUS
<1>4. PICK c : c = [NoCall EXCEPT !.size = room, !.left = wait, !.pc = pc] OBVIOUS
<1>5. pc \in Pcs /\ pc \in {"receiveLook", "receiveCheck"} BY <1>3 DEF Pcs, ReadPcs
<1>6. c \in Calls /\ c.left = wait /\ c.n = 0 /\ c.pc = pc BY <1>2, <1>4, <1>5, NoCallFields DEF Calls, NoCall
<1>7. Stepped(t, c) BY <1>3, <1>4, <1>6 DEF BeginReceive, Stepped
<1>8. CallFits(use, t, c) BY <1>0, <1>3, <1>5, <1>6 DEF CallFits, WritePcs, ReadPcs, TimedPcs
<1>9. CallsOK' /\ RingOK' BY <1>1, <1>5, <1>6, <1>7, <1>8, PlainStep
<1> QED BY <1>0, <1>5, <1>6, <1>7, <1>9

\* The notification is given up.
LEMMA NullCalls ==
  ASSUME CallsOK, RingOK, UNCHANGED use, NEW t \in Tasks, SendNull(t) \/ ReceiveNull(t)
  PROVE  CallsOK' /\ RingOK' /\ \E c : Stepped(t, c) /\ c.pc \in {"sendTimeout", "receiveLook"}
<1>1. SharedOK' /\ SameRing(s, s')
  <2>1. s \in Buffers(use.length) BY DEF CallsOK, SharedOK
  <2>2. s' \in Buffers(use.length) /\ SameRing(s, s') /\ s'.waitRx \in {s.waitRx, Null} /\ s'.waitTx \in {s.waitTx, Null}
    BY <2>1 DEF SendNull, ReceiveNull, Buffers, SameRing
  <2> QED BY <2>2 DEF CallsOK, SharedOK, SendNull, ReceiveNull
<1>0. CallFits(use, t, me[t]) BY DEF CallsOK
<1>2. CASE SendNull(t)
  <2>1. me[t].pc = "sendNull" /\ Goto(t, "sendTimeout") BY <1>2 DEF SendNull, At
  <2>2. t = use.writer BY <1>0, <2>1 DEF CallFits, WritePcs
  <2> QED BY <1>1, <2>1, <2>2, GotoKeeps DEF Pcs, WritePcs, ReadPcs, TimedPcs
<1>3. CASE ReceiveNull(t)
  <2>1. me[t].pc = "receiveNull" /\ Goto(t, "receiveLook") BY <1>3 DEF ReceiveNull, At
  <2>2. t = use.reader BY <1>0, <2>1 DEF CallFits, ReadPcs
  <2> QED BY <1>1, <2>1, <2>2, GotoKeeps DEF Pcs, WritePcs, ReadPcs, TimedPcs
<1> QED BY <1>2, <1>3

\* xTaskCheckForTimeOut: the time that is left is not zero.
LEMMA TimeoutCalls ==
  ASSUME CallsOK, RingOK, k \in Kernels, UNCHANGED use, NEW t \in Tasks, SendTimeout(t)
  PROVE  CallsOK' /\ RingOK' /\ \E c : Stepped(t, c) /\ c.pc \in {"sendCheck", "sendLook"}
<1>0. me \in [Tasks -> Calls] /\ me[t] \in Calls /\ CallFits(use, t, me[t]) /\ me[t].pc = "sendTimeout"
  BY DEF CallsOK, SendTimeout, At
<1>1. SharedOK' /\ SameRing(s, s') BY SharedStays DEF SendTimeout, CallsOK, SharedOK
<1>2. PICK left \in TickType : left = me[t].left BY <1>0 DEF Calls
<1>3. PICK e : e = Elapsed(t) OBVIOUS
<1>4. portMAX_DELAY \in Nat /\ portMAX_DELAY >= 1 BY TickTypes, SomeDelay
<1>5. k.over \in Overflows /\ k.tick \in TickType /\ me[t].tick \in TickType BY <1>0, KernelFields DEF Calls
<1>6. e \in Nat
  <2>1. k.tick - me[t].tick \in Int BY <1>4, <1>5 DEF TickType
  <2> QED BY <1>3, <1>4, <2>1 DEF Elapsed
<1>7. PICK c : c = IF left = portMAX_DELAY THEN [me[t] EXCEPT !.pc = "sendCheck"]
                   ELSE IF (k.over = me[t].over \/ k.tick < me[t].tick) /\ e < left
                   THEN [me[t] EXCEPT !.pc = "sendCheck", !.left = left - e, !.over = k.over, !.tick = k.tick]
                   ELSE [me[t] EXCEPT !.pc = "sendLook", !.left = 0]
  OBVIOUS
<1>8. me' = [me EXCEPT ![t] = c] BY <1>0, <1>2, <1>3, <1>7 DEF SendTimeout
<1>9. "sendLook" \in Pcs /\ "sendCheck" \in Pcs BY DEF Pcs, WritePcs
<1>10. /\ c \in Calls /\ c.n = me[t].n /\ c.pc \in {"sendLook", "sendCheck"} /\ (c.pc = "sendCheck" => c.left # 0)
  <2>1. CASE left = portMAX_DELAY
    <3>1. c = [me[t] EXCEPT !.pc = "sendCheck"] BY <1>7, <2>1
    <3>2. left # 0 BY <1>4, <2>1
    <3>3. c \in Calls /\ c.n = me[t].n /\ c.pc = "sendCheck" /\ c.left = me[t].left BY <1>0, <1>9, <3>1 DEF Calls
    <3> QED BY <1>2, <3>2, <3>3
  <2>2. CASE left # portMAX_DELAY /\ (k.over = me[t].over \/ k.tick < me[t].tick) /\ e < left
    <3>1. PICK d : d = left - e OBVIOUS
    <3>2. c = [me[t] EXCEPT !.pc = "sendCheck", !.left = d, !.over = k.over, !.tick = k.tick] BY <1>7, <2>2, <3>1
    <3>3. left \in Nat /\ left <= portMAX_DELAY BY <1>4 DEF TickType
    <3>4. e < left BY <2>2
    <3>5. d \in Nat /\ d # 0 /\ d <= portMAX_DELAY BY ONLY <1>4, <1>6, <3>1, <3>3, <3>4
    <3>6. d \in TickType BY <1>4, <3>5 DEF TickType
    <3> QED BY <1>0, <1>5, <1>9, <3>2, <3>5, <3>6 DEF Calls
  <2>3. CASE left # portMAX_DELAY /\ ~((k.over = me[t].over \/ k.tick < me[t].tick) /\ e < left)
    <3>1. c = [me[t] EXCEPT !.pc = "sendLook", !.left = 0] BY <1>7, <2>3
    <3> QED BY <1>0, <1>9, <3>1, TickTypes DEF Calls
  <2> QED BY <2>1, <2>2, <2>3
<1>11. Stepped(t, c) BY <1>8, <1>10 DEF Stepped
<1>12. CallFits(use, t, c)
  <2>1. t = use.writer BY <1>0 DEF CallFits, WritePcs
  <2> QED BY <1>10, <2>1 DEF CallFits, WritePcs, ReadPcs, TimedPcs
<1>13. CallsOK' /\ RingOK'
  <2>1. c.pc \notin {"sendCopy", "sendHead", "receiveCopy", "receiveTail"} /\ c.n = me[t].n /\ me[t].pc # "sendTrigger"
    BY <1>0, <1>10
  <2> QED BY <1>1, <1>11, <1>12, <2>1, PlainStep
<1> QED BY <1>10, <1>11, <1>13

\* What the space and the amount in the buffer are.
LEMMA NowFacts ==
  ASSUME CallsOK
  PROVE  /\ use \in Uses /\ s \in Buffers(use.length) /\ use.length \in Nat \ {0} /\ use.length > 1
         /\ prvBytesInBuffer = Held(use, s) /\ xStreamBufferSpacesAvailable = Room(use, s)
         /\ Held(use, s) \in Nat /\ Room(use, s) \in Nat /\ Held(use, s) + Room(use, s) = use.length - 1
<1>1. use \in Uses /\ s \in Buffers(use.length) BY DEF CallsOK, SharedOK
<1>2. use.length \in Nat \ {0} /\ use.length > 1 BY <1>1, UseFacts
<1>3. Held(use, s) \in 0 .. use.length - 1 /\ Room(use, s) \in 0 .. use.length - 1 /\ Held(use, s) + Room(use, s) = use.length - 1
  BY <1>1, HeldFacts
<1>4. Held(use, s) \in Nat /\ Room(use, s) \in Nat BY <1>2, <1>3
<1> QED BY <1>1, <1>2, <1>3, <1>4, BytesNow

\* Looking for space: the task waits when there is too little.
LEMMA SendCheckCalls ==
  ASSUME CallsOK, RingOK, UNCHANGED use, NEW t \in Tasks, SendCheck(t)
  PROVE  /\ CallsOK' /\ RingOK' /\ t = use.writer /\ SameRing(s, s') /\ s'.waitRx = s.waitRx
         /\ \E c : /\ Stepped(t, c) /\ c.size = me[t].size
                   /\ IF Room(use, s) < Required(me[t].size)
                      THEN c.pc = "waitSuspend" /\ s'.waitTx = t /\ note'[t] # "received" /\ \A u \in Tasks : u # t => note'[u] = note[u]
                      ELSE c.pc = "sendLook" /\ note' = note /\ s' = s
<1>0. /\ me \in [Tasks -> Calls] /\ me[t] \in Calls /\ CallFits(use, t, me[t]) /\ me[t].pc = "sendCheck"
      /\ note \in [Tasks -> {"none", "waiting", "received"}]
  BY DEF CallsOK, SharedOK, SendCheck, At
<1>1. t = use.writer BY <1>0 DEF CallFits, WritePcs
<1>2. PICK space \in Nat : space = Room(use, s) /\ xStreamBufferSpacesAvailable = space BY NowFacts
<1>3. PICK short : short = (space < Required(me[t].size)) OBVIOUS
<1>4. PICK pc : pc = IF short THEN "waitSuspend" ELSE "sendLook" OBVIOUS
<1>5. PICK c : c = [me[t] EXCEPT !.n = space, !.pc = pc] OBVIOUS
<1>6. pc \in Pcs /\ pc \in {"waitSuspend", "sendLook"} BY <1>4 DEF Pcs, WaitPcs, WritePcs
<1>7. c \in Calls /\ c.pc = pc /\ c.n = space /\ c.size = me[t].size /\ c.left = me[t].left BY <1>0, <1>5, <1>6 DEF Calls
<1>8. me' = [me EXCEPT ![t] = c]
  <2>1. me' = [me EXCEPT ![t].n = space, ![t].pc = pc] BY <1>2, <1>3, <1>4, Zenon DEF SendCheck
  <2> QED BY <1>0, <1>5, <2>1
<1>9. Stepped(t, c) BY <1>7, <1>8 DEF Stepped
<1>10. CallFits(use, t, c) BY <1>0, <1>1, <1>6, <1>7 DEF CallFits, WritePcs, ReadPcs, TimedPcs
<1>11. IF short THEN Cleared(t) /\ s' = [s EXCEPT !.waitTx = t] ELSE note' = note /\ s' = s
  BY <1>2, <1>3, Zenon DEF SendCheck
<1>12. /\ SameRing(s, s') /\ s' \in Buffers(use.length) /\ s'.waitRx = s.waitRx
       /\ IF short THEN s'.waitTx = t ELSE s' = s
  <2>1. s \in Buffers(use.length) BY DEF CallsOK, SharedOK
  <2>2. CASE short
    <3>1. s' = [s EXCEPT !.waitTx = t] BY <1>11, <2>2
    <3> QED BY <2>1, <2>2, <3>1 DEF Buffers, SameRing
  <2>3. CASE ~short BY <1>11, <2>1, <2>3 DEF SameRing
  <2> QED BY <2>2, <2>3
<1>13. /\ note' \in [Tasks -> {"none", "waiting", "received"}] /\ \A u \in Tasks : u # t => note'[u] = note[u]
       /\ short => note'[t] # "received"
  <2>1. CASE short
    <3>1. note' = [note EXCEPT ![t] = IF note[t] = "received" THEN "none" ELSE note[t]] BY <1>0, <1>11, <2>1 DEF Cleared
    <3> QED BY <1>0, <3>1
  <2>2. CASE ~short BY <1>0, <1>11, <2>2
  <2> QED BY <2>1, <2>2
<1>14. SharedOK'
  <2>1. s'.waitTx \in {Null, use.writer}
    <3>1. CASE short BY <1>1, <1>12, <3>1
    <3>2. CASE ~short BY <1>12, <3>2 DEF CallsOK, SharedOK
    <3> QED BY <3>1, <3>2
  <2>2. sent' = sent BY DEF SendCheck
  <2> QED BY <1>12, <1>13, <2>1, <2>2 DEF CallsOK, SharedOK
<1>15. CallsOK' /\ RingOK'
  <2>1. WriterFits(use, s, c) BY <1>2, <1>6, <1>7 DEF WriterFits
  <2>2. t # use.reader BY <1>1, NowFacts, UseFacts
  <2> QED BY <1>9, <1>10, <1>12, <1>14, <2>1, <2>2, PlainKeeps
<1>16. /\ Stepped(t, c) /\ c.size = me[t].size
       /\ IF Room(use, s) < Required(me[t].size)
          THEN c.pc = "waitSuspend" /\ s'.waitTx = t /\ note'[t] # "received" /\ \A u \in Tasks : u # t => note'[u] = note[u]
          ELSE c.pc = "sendLook" /\ note' = note /\ s' = s
  <2>1. CASE short BY <1>2, <1>3, <1>4, <1>7, <1>9, <1>12, <1>13, <2>1
  <2>2. CASE ~short BY <1>2, <1>3, <1>4, <1>7, <1>9, <1>11, <2>2
  <2> QED BY <2>1, <2>2
<1> QED BY <1>1, <1>12, <1>15, <1>16

\* Deciding how much to write.
LEMMA SendLookCalls ==
  ASSUME CallsOK, RingOK, UNCHANGED use, NEW t \in Tasks, SendLook(t)
  PROVE  CallsOK' /\ RingOK' /\ \E c : Stepped(t, c) /\ c.pc \in {"sendCopy", "idle"}
<1>0. me \in [Tasks -> Calls] /\ me[t] \in Calls /\ CallFits(use, t, me[t]) /\ me[t].pc = "sendLook"
  BY DEF CallsOK, SendLook, At
<1>1. t = use.writer /\ t # use.reader /\ use \in Uses
  <2>1. t = use.writer BY <1>0 DEF CallFits, WritePcs
  <2> QED BY <2>1, NowFacts, UseFacts
<1>2. SharedOK' /\ SameRing(s, s') BY SharedStays DEF SendLook, CallsOK, SharedOK
<1>3. PICK space \in Nat : space = IF me[t].n = 0 THEN xStreamBufferSpacesAvailable ELSE me[t].n
  BY <1>0, NowFacts DEF Calls
<1>4. space <= Room(use, s)
  <2>1. WriterFits(use, s, me[t]) BY <1>1 DEF RingOK
  <2>2. me[t].n <= Room(use, s) BY <1>0, <2>1 DEF WriterFits
  <2> QED BY <1>3, <2>2, NowFacts
<1>5. PICK count : count = Writable(me[t].size, space) OBVIOUS
<1>6. me[t].size \in Nat BY <1>0 DEF Calls
<1>7. count \in Nat /\ (count # 0 => count + (IF IsMessage THEN 1 ELSE 0) <= space) BY <1>1, <1>5, <1>6, WritableFits
<1>8. CASE count = 0
  <2>1. Return(t) BY <1>3, <1>5, <1>8, Zenon DEF SendLook
  <2>2. Stepped(t, NoCall) BY <2>1, NoCallFields DEF Return, Stepped
  <2>3. CallFits(use, t, NoCall) BY NoCallFields DEF CallFits, WritePcs, ReadPcs, TimedPcs
  <2>4. CallsOK' /\ RingOK' BY <1>2, <2>2, <2>3, NoCallFields, PlainStep
  <2> QED BY <2>2, <2>4, NoCallFields
<1>9. CASE count # 0
  <2>1. PICK data : data = Payload(count) OBVIOUS
  <2>2. data \in Seq(Nat) /\ Len(data) = count BY <1>7, <2>1, PayloadSeq DEF CallsOK, SharedOK
  <2>3. PICK c : c = [me[t] EXCEPT !.pc = "sendCopy", !.data = data] OBVIOUS
  <2>4. c \in Calls /\ c.pc = "sendCopy" /\ c.data = data /\ c.n = me[t].n BY <1>0, <2>2, <2>3 DEF Calls, Pcs, WritePcs
  <2>5. me' = [me EXCEPT ![t] = c]
    <3>1. me' = [me EXCEPT ![t].pc = "sendCopy", ![t].data = data] BY <1>3, <1>5, <1>9, <2>1, Zenon DEF SendLook
    <3> QED BY <1>0, <2>3, <3>1
  <2>6. Stepped(t, c) BY <2>4, <2>5 DEF Stepped
  <2>7. CallFits(use, t, c) BY <1>1, <2>4 DEF CallFits, WritePcs, ReadPcs, TimedPcs
  <2>8. WriterFits(use, s, c)
    <3>1. Len(Frame(use, data)) = count + IF use.kind = "message" THEN 1 ELSE 0 BY <2>2, FrameSeq
    <3>2. count + (IF use.kind = "message" THEN 1 ELSE 0) <= space BY <1>7, <1>9 DEF IsMessage
    <3>3. Len(Frame(use, data)) <= Room(use, s) BY <1>4, <1>7, <3>1, <3>2, NowFacts
    <3>4. data # <<>> BY <1>9, <2>2
    <3>5. me[t].n <= Room(use, s) BY <1>0, <1>1 DEF RingOK, WriterFits
    <3> QED BY <2>4, <3>3, <3>4, <3>5 DEF WriterFits
  <2>9. CallsOK' /\ RingOK' BY <1>1, <1>2, <2>6, <2>7, <2>8, PlainKeeps
  <2> QED BY <2>4, <2>6, <2>9
<1> QED BY <1>8, <1>9

\* The trigger level is compared with what the buffer holds now.
LEMMA SendTriggerCalls ==
  ASSUME CallsOK, RingOK, UNCHANGED use, NEW t \in Tasks, SendTrigger(t)
  PROVE  /\ CallsOK' /\ RingOK' /\ t = use.writer
         /\ \E c : Stepped(t, c) /\ c.pc = IF Held(use, s) >= use.trigger THEN "doneSuspend" ELSE "idle"
<1>0. CallFits(use, t, me[t]) /\ me[t].pc = "sendTrigger" BY DEF CallsOK, SendTrigger, At
<1>1. t = use.writer BY <1>0 DEF CallFits, WritePcs
<1>2. SharedOK' /\ SameRing(s, s') BY SharedStays DEF SendTrigger, CallsOK, SharedOK
<1>3. PICK c : c = IF Held(use, s) >= use.trigger THEN [NoCall EXCEPT !.pc = "doneSuspend"] ELSE NoCall OBVIOUS
<1>4. c \in Calls /\ c.n = 0 /\ c.pc = IF Held(use, s) >= use.trigger THEN "doneSuspend" ELSE "idle" BY <1>3, NoCallFields
<1>5. Stepped(t, c) BY <1>3, <1>4, NowFacts DEF SendTrigger, Return, Stepped
<1>6. c.pc \in {"doneSuspend", "idle"} BY <1>4
<1>7. CallFits(use, t, c) BY <1>1, <1>6 DEF CallFits, WritePcs, ReadPcs, TimedPcs
<1>8. CallsOK' /\ RingOK' BY <1>2, <1>4, <1>5, <1>6, <1>7, PlainStep
<1> QED BY <1>1, <1>4, <1>5, <1>8

(* ---------------- the steps that move bytes, and interrupts --------------- *)

\* The first message of a message buffer.
LEMMA HeadFrame ==
  ASSUME CallsOK, use.kind = "message", Frames(Contents(use, s)), Held(use, s) # 0
  PROVE  s.cell[s.tail] \in Nat \ {0} /\ s.cell[s.tail] + 1 <= Held(use, s) /\ Contents(use, s)[1] = s.cell[s.tail]
<1>1. use \in Uses /\ s \in Buffers(use.length) BY NowFacts
<1>2. PICK L \in Nat \ {0} : L = use.length BY <1>1, UseFacts
<1>3. PICK c \in [0 .. L - 1 -> Nat], t \in 0 .. L - 1 : c = s.cell /\ t = s.tail BY <1>1, <1>2, BufferFields
<1>4. PICK n \in Nat : n = Held(use, s) BY NowFacts
<1>5. PICK q : q = Contents(use, s) OBVIOUS
<1>6. q \in Seq(Nat) /\ Len(q) = n BY <1>1, <1>4, <1>5, HeldFacts
<1>7. q # <<>> BY <1>4, <1>6
<1>8. q[1] \in Nat \ {0} /\ q[1] + 1 <= Len(q) BY <1>5, <1>6, <1>7, FramesHead
<1>9. q[1] = c[t]
  <2>1. q = Bytes(L, c, t, n) BY <1>2, <1>3, <1>4, <1>5 DEF Contents
  <2>2. 1 \in 1 .. n /\ Pos(L, t, 1 - 1) = t BY <1>4 DEF Pos
  <2> QED BY <2>1, <2>2 DEF Bytes
<1> QED BY <1>3, <1>4, <1>5, <1>6, <1>8, <1>9

\* A write keeps the reader's call and the messages.
LEMMA PutKeeps ==
  ASSUME CallsOK, RingOK, SharedOK', UNCHANGED use, NEW w \in Seq(Nat), Puts(use, s, w, s'),
         me' \in [Tasks -> Calls], \A t \in Tasks : CallFits(use, t, me'[t]),
         use.reader \in Tasks => me'[use.reader] = me[use.reader],
         use.writer \in Tasks => WriterFits(use, s', me'[use.writer]),
         use.kind = "message" => w = <<>> \/ \E data \in Seq(Nat) : data # <<>> /\ w = <<Len(data)>> \o data
  PROVE  CallsOK' /\ RingOK'
<1>0. use \in Uses /\ s \in Buffers(use.length) BY NowFacts
<1>1. CallsOK' BY DEF CallsOK
<1>2. ASSUME use.reader \in Tasks PROVE ReaderFits(use, s', me'[use.reader])
  <2>1. me[use.reader] \in Calls /\ ReaderFits(use, s, me[use.reader]) BY <1>2 DEF CallsOK, RingOK
  <2> QED BY <1>0, <1>2, <2>1, ReaderUnderPut
<1>3. ASSUME use.kind = "message" PROVE Frames(Contents(use, s'))
  <2>1. PICK q : q = Contents(use, s) OBVIOUS
  <2>2. q \in Seq(Nat) /\ Frames(q) BY <1>0, <1>3, <2>1, HeldFacts DEF RingOK
  <2>3. Contents(use, s') = q \o w BY <2>1 DEF Puts
  <2>4. CASE w = <<>>
    <3>1. q \o w = q BY <2>2, <2>4
    <3> QED BY <2>2, <2>3, <3>1
  <2>5. CASE w # <<>>
    <3>1. PICK data \in Seq(Nat) : data # <<>> /\ w = <<Len(data)>> \o data BY <1>3, <2>5
    <3> QED BY <2>2, <2>3, <3>1, FramesAdd
  <2> QED BY <2>4, <2>5
<1> QED BY <1>1, <1>2, <1>3 DEF RingOK

\* A read keeps the writer's call and the messages.
LEMMA TakeKeeps ==
  ASSUME CallsOK, RingOK, SharedOK', UNCHANGED use, NEW data \in Seq(Nat), Reading(use, s, data),
         NEW m, m = Len(Frame(use, data)), Takes(use, s, m, s'),
         me' \in [Tasks -> Calls], \A t \in Tasks : CallFits(use, t, me'[t]),
         use.writer \in Tasks => me'[use.writer] = me[use.writer],
         use.reader \in Tasks => ReaderFits(use, s', me'[use.reader])
  PROVE  CallsOK' /\ RingOK'
<1>0. use \in Uses /\ s \in Buffers(use.length) BY NowFacts
<1>1. CallsOK' BY DEF CallsOK
<1>2. ASSUME use.writer \in Tasks PROVE WriterFits(use, s', me'[use.writer])
  <2>1. me[use.writer] \in Calls /\ WriterFits(use, s, me[use.writer]) BY <1>2 DEF CallsOK, RingOK
  <2> QED BY <1>0, <1>2, <2>1, WriterUnderTake
<1>3. ASSUME use.kind = "message" PROVE Frames(Contents(use, s'))
  <2>1. PICK q : q = Contents(use, s) OBVIOUS
  <2>2. q \in Seq(Nat) /\ Frames(q) /\ Len(q) = Held(use, s) BY <1>0, <1>3, <2>1, HeldFacts DEF RingOK
  <2>3. Len(data) = s.cell[s.tail] /\ Len(data) + 1 <= Held(use, s) BY <1>3 DEF Reading
  <2>4. Held(use, s) # 0 BY <2>3
  <2>5. q[1] = s.cell[s.tail] BY <1>3, <2>1, <2>2, <2>4, HeadFrame
  <2>6. m = q[1] + 1
    <3>1. m = Len(data) + 1 BY <1>3, FrameSeq
    <3> QED BY ONLY <2>3, <2>5, <3>1
  <2>7. q # <<>> BY <2>2, <2>4
  <2>8. Contents(use, s') = SubSeq(q, m + 1, Len(q)) BY <2>1, <2>2 DEF Takes
  <2>9. Frames(SubSeq(q, m + 1, Len(q))) BY <2>2, <2>6, <2>7, FramesRest
  <2> QED BY <2>8, <2>9
<1> QED BY <1>1, <1>2, <1>3 DEF RingOK

\* The bytes are copied.
LEMMA SendCopyCalls ==
  ASSUME CallsOK, RingOK, UNCHANGED use, NEW t \in Tasks, SendCopy(t)
  PROVE  /\ CallsOK' /\ RingOK' /\ t = use.writer /\ Puts(use, s, <<>>, s')
         /\ s'.waitTx = s.waitTx /\ s'.waitRx = s.waitRx /\ s'.head = s.head
         /\ \E c : Stepped(t, c) /\ c.pc = "sendHead"
<1>0. /\ me \in [Tasks -> Calls] /\ me[t] \in Calls /\ CallFits(use, t, me[t]) /\ me[t].pc = "sendCopy"
      /\ use \in Uses /\ s \in Buffers(use.length)
  BY DEF CallsOK, SharedOK, SendCopy, At
<1>1. t = use.writer /\ t # use.reader
  <2>1. t = use.writer BY <1>0 DEF CallFits, WritePcs
  <2> QED BY <1>0, <2>1, UseFacts
<1>2. PICK c : Stepped(t, c) /\ c.pc = "sendHead" /\ Rest(c, me[t])
  BY GotoSteps DEF SendCopy, Pcs, WritePcs
<1>3. PICK data \in Seq(Nat) : data = me[t].data BY <1>0 DEF Calls
<1>4. PICK w : w = Frame(use, data) OBVIOUS
<1>5. WriterFits(use, s, me[t]) BY <1>1 DEF RingOK
<1>6. data # <<>> /\ Len(w) <= Room(use, s) /\ me[t].n <= Room(use, s) BY <1>0, <1>3, <1>4, <1>5 DEF WriterFits
<1>7. PICK f : f = Written(data) OBVIOUS
<1>8. /\ f \in [0 .. use.length - 1 -> Nat]
      /\ \A i \in 1 .. Held(use, s) : f[Pos(use.length, s.tail, i - 1)] = s.cell[Pos(use.length, s.tail, i - 1)]
      /\ \A i \in 1 .. Len(w) : f[Pos(use.length, s.head, i - 1)] = w[i]
  BY <1>0, <1>4, <1>6, <1>7, WrittenIs
<1>9. s' = [s EXCEPT !.cell = f] BY <1>3, <1>7 DEF SendCopy
<1>10. /\ s' \in Buffers(use.length) /\ s'.cell = f /\ s'.head = s.head /\ s'.tail = s.tail
       /\ s'.waitTx = s.waitTx /\ s'.waitRx = s.waitRx
  BY <1>0, <1>8, <1>9 DEF Buffers
<1>11. SharedOK' BY <1>10 DEF SendCopy, CallsOK, SharedOK
<1>12. Puts(use, s, <<>>, s') BY <1>0, <1>8, <1>10, CopyPuts
<1>13. WriterFits(use, s', c)
  <2>1. Room(use, s') = Room(use, s) BY <1>10 DEF Room, Held
  <2>2. c.n = me[t].n /\ c.data = data BY <1>2, <1>3 DEF Rest
  <2> QED BY <1>2, <1>4, <1>6, <1>8, <1>10, <2>1, <2>2 DEF WriterFits
<1>14. me' \in [Tasks -> Calls] /\ me'[t] = c /\ \A u \in Tasks : u # t => me'[u] = me[u] BY <1>2, SteppedFacts
<1>15. ASSUME NEW u \in Tasks PROVE CallFits(use, u, me'[u])
  <2>1. CASE u = t BY <1>1, <1>2, <1>14, <2>1 DEF CallFits, WritePcs, ReadPcs, TimedPcs
  <2>2. CASE u # t BY <1>14, <2>2 DEF CallsOK
  <2> QED BY <2>1, <2>2
<1>16. CallsOK' /\ RingOK'
  <2>1. <<>> \in Seq(Nat) OBVIOUS
  <2>2. (use.reader \in Tasks => me'[use.reader] = me[use.reader]) /\ WriterFits(use, s', me'[use.writer])
    BY <1>1, <1>13, <1>14
  <2> QED BY <1>11, <1>12, <1>14, <1>15, <2>1, <2>2, PutKeeps
<1> QED BY <1>1, <1>2, <1>10, <1>12, <1>16

\* xHead moves.
LEMMA SendHeadCalls ==
  ASSUME CallsOK, RingOK, UNCHANGED use, NEW t \in Tasks, SendHead(t)
  PROVE  /\ CallsOK' /\ RingOK' /\ t = use.writer /\ s'.waitTx = s.waitTx /\ s'.waitRx = s.waitRx
         /\ \E data \in Seq(Nat) : data # <<>> /\ Len(Frame(use, data)) <= Room(use, s) /\ Puts(use, s, Frame(use, data), s')
         /\ \E c : Stepped(t, c) /\ c.pc = "sendTrigger"
<1>0. /\ me \in [Tasks -> Calls] /\ me[t] \in Calls /\ CallFits(use, t, me[t]) /\ me[t].pc = "sendHead"
      /\ use \in Uses /\ s \in Buffers(use.length)
  BY DEF CallsOK, SharedOK, SendHead, At
<1>1. t = use.writer /\ t # use.reader
  <2>1. t = use.writer BY <1>0 DEF CallFits, WritePcs
  <2> QED BY <1>0, <2>1, UseFacts
<1>2. PICK c : Stepped(t, c) /\ c.pc = "sendTrigger" /\ Rest(c, me[t])
  BY GotoSteps DEF SendHead, Pcs, WritePcs
<1>3. PICK data \in Seq(Nat) : data = me[t].data BY <1>0 DEF Calls
<1>4. PICK w : w = Frame(use, data) OBVIOUS
<1>5. WriterFits(use, s, me[t]) BY <1>1 DEF RingOK
<1>6. /\ data # <<>> /\ Len(w) <= Room(use, s)
      /\ \A i \in 1 .. Len(w) : s.cell[Pos(use.length, s.head, i - 1)] = w[i]
  BY <1>0, <1>3, <1>4, <1>5 DEF WriterFits
<1>7. w \in Seq(Nat) BY <1>4, FrameSeq
<1>8. PICK h : h = HeadAfter(data) OBVIOUS
<1>9. h = Pos(use.length, s.head, Len(w))
  <2>1. PICK f : f = Written(data) OBVIOUS
  <2> QED BY <1>0, <1>4, <1>6, <1>8, <2>1, WrittenIs
<1>10. s' = [s EXCEPT !.head = h] BY <1>3, <1>8 DEF SendHead
<1>11. s'.cell = s.cell /\ s'.head = h /\ s'.tail = s.tail /\ s'.waitTx = s.waitTx /\ s'.waitRx = s.waitRx
  BY <1>0, <1>10 DEF Buffers
<1>12. Puts(use, s, w, s') /\ s'.head \in 0 .. use.length - 1 BY <1>0, <1>6, <1>7, <1>9, <1>11, HeadPuts
<1>13. s' \in Buffers(use.length) BY <1>0, <1>10, <1>11, <1>12 DEF Buffers
<1>14. sent' \in Nat
  <2>1. sent \in Nat /\ Len(data) \in Nat /\ Values \in Nat \ {0} BY StreamAssumption DEF CallsOK, SharedOK
  <2>2. sent' = (sent + Len(data)) % Values BY <1>3 DEF SendHead
  <2> QED BY <2>1, <2>2
<1>15. SharedOK' BY <1>11, <1>13, <1>14 DEF SendHead, CallsOK, SharedOK
<1>16. WriterFits(use, s', c) BY <1>2 DEF WriterFits
<1>17. me' \in [Tasks -> Calls] /\ me'[t] = c /\ \A u \in Tasks : u # t => me'[u] = me[u] BY <1>2, SteppedFacts
<1>18. ASSUME NEW u \in Tasks PROVE CallFits(use, u, me'[u])
  <2>1. CASE u = t BY <1>1, <1>2, <1>17, <2>1 DEF CallFits, WritePcs, ReadPcs, TimedPcs
  <2>2. CASE u # t BY <1>17, <2>2 DEF CallsOK
  <2> QED BY <2>1, <2>2
<1>19. CallsOK' /\ RingOK'
  <2>1. (use.reader \in Tasks => me'[use.reader] = me[use.reader]) /\ WriterFits(use, s', me'[use.writer])
    BY <1>1, <1>16, <1>17
  <2>2. use.kind = "message" => w = <<Len(data)>> \o data BY <1>4 DEF Frame
  <2> QED BY <1>6, <1>7, <1>12, <1>15, <1>17, <1>18, <2>1, <2>2, PutKeeps
<1> QED BY <1>1, <1>2, <1>4, <1>6, <1>11, <1>12, <1>19

\* Looking at what there is, after or without waiting.
LEMMA LookFits ==
  ASSUME CallsOK, RingOK, NEW c, c.n = Held(use, s), c.pc # "receiveTail" PROVE ReaderFits(use, s, c)
<1>1. c.n <= Held(use, s) BY NowFacts
<1>2. ASSUME use.kind = "message", c.n > 1 PROVE s.cell[s.tail] + 1 <= c.n
  <2>1. Held(use, s) # 0 /\ Frames(Contents(use, s)) BY <1>2 DEF RingOK
  <2> QED BY <1>2, <2>1, HeadFrame
<1> QED BY <1>1, <1>2 DEF ReaderFits

\* The reader waits when there is too little.
LEMMA ReceiveCheckCalls ==
  ASSUME CallsOK, RingOK, UNCHANGED use, NEW t \in Tasks, ReceiveCheck(t)
  PROVE  /\ CallsOK' /\ RingOK' /\ t = use.reader /\ SameRing(s, s') /\ s'.waitTx = s.waitTx
         /\ \E c : /\ Stepped(t, c)
                   /\ IF Held(use, s) <= Threshold
                      THEN c.pc = "waitSuspend" /\ s'.waitRx = t /\ note'[t] # "received" /\ \A u \in Tasks : u # t => note'[u] = note[u]
                      ELSE c.pc = "receiveCopy" /\ note' = note /\ s' = s
<1>0. /\ me \in [Tasks -> Calls] /\ me[t] \in Calls /\ CallFits(use, t, me[t]) /\ me[t].pc = "receiveCheck"
      /\ note \in [Tasks -> {"none", "waiting", "received"}]
  BY DEF CallsOK, SharedOK, ReceiveCheck, At
<1>1. t = use.reader BY <1>0 DEF CallFits, ReadPcs
<1>2. PICK avail \in Nat : avail = Held(use, s) /\ prvBytesInBuffer = avail BY NowFacts
<1>3. PICK short : short = (avail <= Threshold) OBVIOUS
<1>4. PICK pc : pc = IF short THEN "waitSuspend" ELSE "receiveCopy" OBVIOUS
<1>5. PICK c : c = [me[t] EXCEPT !.n = avail, !.pc = pc] OBVIOUS
<1>6. pc \in Pcs /\ pc \in {"waitSuspend", "receiveCopy"} BY <1>4 DEF Pcs, WaitPcs, ReadPcs
<1>7. c \in Calls /\ c.pc = pc /\ c.n = avail /\ c.left = me[t].left BY <1>0, <1>5, <1>6 DEF Calls
<1>8. me' = [me EXCEPT ![t] = c]
  <2>1. me' = [me EXCEPT ![t].n = avail, ![t].pc = pc] BY <1>2, <1>3, <1>4, Zenon DEF ReceiveCheck
  <2> QED BY <1>0, <1>5, <2>1
<1>9. Stepped(t, c) BY <1>7, <1>8 DEF Stepped
<1>10. CallFits(use, t, c) BY <1>0, <1>1, <1>6, <1>7 DEF CallFits, WritePcs, ReadPcs, TimedPcs
<1>11. IF short THEN Cleared(t) /\ s' = [s EXCEPT !.waitRx = t] ELSE note' = note /\ s' = s
  BY <1>2, <1>3, Zenon DEF ReceiveCheck
<1>12. /\ SameRing(s, s') /\ s' \in Buffers(use.length) /\ s'.waitTx = s.waitTx
       /\ IF short THEN s'.waitRx = t ELSE s' = s
  <2>1. s \in Buffers(use.length) BY DEF CallsOK, SharedOK
  <2>2. CASE short
    <3>1. s' = [s EXCEPT !.waitRx = t] BY <1>11, <2>2
    <3> QED BY <2>1, <2>2, <3>1 DEF Buffers, SameRing
  <2>3. CASE ~short BY <1>11, <2>1, <2>3 DEF SameRing
  <2> QED BY <2>2, <2>3
<1>13. /\ note' \in [Tasks -> {"none", "waiting", "received"}] /\ \A u \in Tasks : u # t => note'[u] = note[u]
       /\ short => note'[t] # "received"
  <2>1. CASE short
    <3>1. note' = [note EXCEPT ![t] = IF note[t] = "received" THEN "none" ELSE note[t]] BY <1>0, <1>11, <2>1 DEF Cleared
    <3> QED BY <1>0, <3>1
  <2>2. CASE ~short BY <1>0, <1>11, <2>2
  <2> QED BY <2>1, <2>2
<1>14. SharedOK'
  <2>1. s'.waitRx \in {Null, use.reader}
    <3>1. CASE short BY <1>1, <1>12, <3>1
    <3>2. CASE ~short BY <1>12, <3>2 DEF CallsOK, SharedOK
    <3> QED BY <3>1, <3>2
  <2>2. sent' = sent BY DEF ReceiveCheck
  <2> QED BY <1>12, <1>13, <2>1, <2>2 DEF CallsOK, SharedOK
<1>15. CallsOK' /\ RingOK'
  <2>1. ReaderFits(use, s, c) BY <1>2, <1>6, <1>7, LookFits
  <2>2. t # use.writer BY <1>1, NowFacts, UseFacts
  <2> QED BY <1>9, <1>10, <1>12, <1>14, <2>1, <2>2, PlainKeeps
<1>16. /\ Stepped(t, c)
       /\ IF Held(use, s) <= Threshold
          THEN c.pc = "waitSuspend" /\ s'.waitRx = t /\ note'[t] # "received" /\ \A u \in Tasks : u # t => note'[u] = note[u]
          ELSE c.pc = "receiveCopy" /\ note' = note /\ s' = s
  <2>1. CASE short BY <1>2, <1>3, <1>4, <1>7, <1>9, <1>12, <1>13, <2>1
  <2>2. CASE ~short BY <1>2, <1>3, <1>4, <1>7, <1>9, <1>11, <2>2
  <2> QED BY <2>1, <2>2
<1> QED BY <1>1, <1>12, <1>15, <1>16

\* Looking at what there is.
LEMMA ReceiveLookCalls ==
  ASSUME CallsOK, RingOK, UNCHANGED use, NEW t \in Tasks, ReceiveLook(t)
  PROVE  CallsOK' /\ RingOK' /\ \E c : Stepped(t, c) /\ c.pc = "receiveCopy"
<1>0. me \in [Tasks -> Calls] /\ me[t] \in Calls /\ CallFits(use, t, me[t]) /\ me[t].pc = "receiveLook"
  BY DEF CallsOK, ReceiveLook, At
<1>1. t = use.reader /\ t # use.writer
  <2>1. t = use.reader BY <1>0 DEF CallFits, ReadPcs
  <2> QED BY <2>1, NowFacts, UseFacts
<1>2. SharedOK' /\ SameRing(s, s') BY SharedStays DEF ReceiveLook, CallsOK, SharedOK
<1>3. PICK avail \in Nat : avail = Held(use, s) /\ prvBytesInBuffer = avail BY NowFacts
<1>4. PICK c : c = [me[t] EXCEPT !.n = avail, !.pc = "receiveCopy"] OBVIOUS
<1>5. c \in Calls /\ c.pc = "receiveCopy" /\ c.n = avail BY <1>0, <1>4 DEF Calls, Pcs, ReadPcs
<1>6. me' = [me EXCEPT ![t] = c] BY <1>0, <1>3, <1>4 DEF ReceiveLook
<1>7. Stepped(t, c) BY <1>5, <1>6 DEF Stepped
<1>8. CallFits(use, t, c) BY <1>1, <1>5 DEF CallFits, WritePcs, ReadPcs, TimedPcs
<1>9. ReaderFits(use, s, c) BY <1>3, <1>5, LookFits
<1>10. CallsOK' /\ RingOK' BY <1>1, <1>2, <1>7, <1>8, <1>9, PlainKeeps
<1> QED BY <1>5, <1>7, <1>10

\* The bytes are copied to the reader.
LEMMA ReceiveCopyCalls ==
  ASSUME CallsOK, RingOK, UNCHANGED use, NEW t \in Tasks, ReceiveCopy(t)
  PROVE  CallsOK' /\ RingOK' /\ \E c : Stepped(t, c) /\ c.pc \in {"receiveTail", "idle"}
<1>0. me \in [Tasks -> Calls] /\ me[t] \in Calls /\ CallFits(use, t, me[t]) /\ me[t].pc = "receiveCopy"
  BY DEF CallsOK, ReceiveCopy, At
<1>1. t = use.reader /\ t # use.writer
  <2>1. t = use.reader BY <1>0 DEF CallFits, ReadPcs
  <2> QED BY <2>1, NowFacts, UseFacts
<1>2. SharedOK' /\ SameRing(s, s') BY SharedStays DEF ReceiveCopy, CallsOK, SharedOK
<1>3. PICK data : data = IF me[t].n > Threshold THEN Copied(me[t].size, me[t].n) ELSE <<>> OBVIOUS
<1>4. CASE data = <<>>
  <2>1. Return(t) BY <1>3, <1>4, Zenon DEF ReceiveCopy
  <2>2. Stepped(t, NoCall) BY <2>1, NoCallFields DEF Return, Stepped
  <2>3. CallFits(use, t, NoCall) BY NoCallFields DEF CallFits, WritePcs, ReadPcs, TimedPcs
  <2>4. CallsOK' /\ RingOK' BY <1>2, <2>2, <2>3, NoCallFields, PlainStep
  <2> QED BY <2>2, <2>4, NoCallFields
<1>5. CASE data # <<>>
  <2>1. me[t].n > Threshold /\ data = Copied(me[t].size, me[t].n) BY <1>3, <1>5
  <2>2. ReaderFits(use, s, me[t]) BY <1>1 DEF RingOK
  <2>3. me[t].size \in Nat /\ me[t].n \in Nat /\ me[t].n <= Held(use, s) BY <1>0, <2>2 DEF Calls, ReaderFits
  <2>4. use.kind = "message" => me[t].n > 1 /\ s.cell[s.tail] + 1 <= me[t].n
    <3>1. use.kind = "message" => Threshold = 1 BY StreamAssumption DEF Threshold
    <3> QED BY <1>0, <2>1, <2>2, <3>1 DEF ReaderFits
  <2>5. data \in Seq(Nat) /\ Reading(use, s, data) BY <1>5, <2>1, <2>3, <2>4, NowFacts, CopiedIs
  <2>6. PICK c : c = [me[t] EXCEPT !.pc = "receiveTail", !.data = data] OBVIOUS
  <2>7. c \in Calls /\ c.pc = "receiveTail" /\ c.data = data /\ c.n = me[t].n BY <1>0, <2>5, <2>6 DEF Calls, Pcs, ReadPcs
  <2>8. me' = [me EXCEPT ![t] = c]
    <3>1. me' = [me EXCEPT ![t].pc = "receiveTail", ![t].data = data] BY <1>3, <1>5, Zenon DEF ReceiveCopy
    <3> QED BY <1>0, <2>6, <3>1
  <2>9. Stepped(t, c) BY <2>7, <2>8 DEF Stepped
  <2>10. CallFits(use, t, c) BY <1>1, <2>7 DEF CallFits, WritePcs, ReadPcs, TimedPcs
  <2>11. ReaderFits(use, s, c) BY <2>3, <2>5, <2>7 DEF ReaderFits
  <2>12. CallsOK' /\ RingOK' BY <1>1, <1>2, <2>9, <2>10, <2>11, PlainKeeps
  <2> QED BY <2>7, <2>9, <2>12
<1> QED BY <1>4, <1>5

\* What a read of these bytes does to the buffer.
LEMMA ReadTakes ==
  ASSUME CallsOK, NEW data \in Seq(Nat), Reading(use, s, data), NEW d, d.cell = s.cell, d.head = s.head, d.tail = TailAfter(data)
  PROVE  Takes(use, s, Len(Frame(use, data)), d) /\ d.tail \in 0 .. use.length - 1
<1>1. use \in Uses /\ s \in Buffers(use.length) BY NowFacts
<1>2. PICK m : m = Len(Frame(use, data)) OBVIOUS
<1>3. m \in 0 .. Held(use, s) /\ TailAfter(data) = Pos(use.length, s.tail, m) BY <1>1, <1>2, TailAfterIs
<1> QED BY <1>1, <1>2, <1>3, TailTakes

\* xTail moves.
LEMMA ReceiveTailCalls ==
  ASSUME CallsOK, RingOK, UNCHANGED use, NEW t \in Tasks, ReceiveTail(t)
  PROVE  /\ CallsOK' /\ RingOK' /\ t = use.reader /\ s'.waitTx = s.waitTx /\ s'.waitRx = s.waitRx
         /\ \E data \in Seq(Nat) : Reading(use, s, data) /\ Takes(use, s, Len(Frame(use, data)), s') /\ got' = data
         /\ \E c : Stepped(t, c) /\ c.pc = "doneSuspend"
<1>0. /\ me \in [Tasks -> Calls] /\ me[t] \in Calls /\ CallFits(use, t, me[t]) /\ me[t].pc = "receiveTail"
      /\ use \in Uses /\ s \in Buffers(use.length)
  BY DEF CallsOK, SharedOK, ReceiveTail, At
<1>1. t = use.reader /\ t # use.writer
  <2>1. t = use.reader BY <1>0 DEF CallFits, ReadPcs
  <2> QED BY <1>0, <2>1, UseFacts
<1>2. PICK c : c = [NoCall EXCEPT !.pc = "doneSuspend"] OBVIOUS
<1>3. Stepped(t, c) /\ c.pc = "doneSuspend" /\ c.n = 0 BY <1>2, NoCallFields DEF ReceiveTail, Stepped
<1>4. PICK data \in Seq(Nat) : data = me[t].data BY <1>0 DEF Calls
<1>5. Reading(use, s, data) BY <1>0, <1>1, <1>4 DEF RingOK, ReaderFits
<1>6. PICK a : a = TailAfter(data) OBVIOUS
<1>7. s' = [s EXCEPT !.tail = a] /\ got' = data BY <1>4, <1>6 DEF ReceiveTail
<1>8. s'.cell = s.cell /\ s'.head = s.head /\ s'.tail = a /\ s'.waitTx = s.waitTx /\ s'.waitRx = s.waitRx
  BY <1>0, <1>7 DEF Buffers
<1>9. Takes(use, s, Len(Frame(use, data)), s') /\ s'.tail \in 0 .. use.length - 1 BY <1>5, <1>6, <1>8, ReadTakes
<1>10. s' \in Buffers(use.length) BY <1>0, <1>7, <1>8, <1>9 DEF Buffers
<1>11. SharedOK' BY <1>8, <1>10 DEF ReceiveTail, CallsOK, SharedOK
<1>12. ReaderFits(use, s', c)
  <2>1. Held(use, s') \in 0 .. use.length - 1 BY <1>0, <1>10, HeldFacts
  <2>2. 0 <= Held(use, s') BY <2>1
  <2> QED BY <1>3, <2>2 DEF ReaderFits
<1>13. me' \in [Tasks -> Calls] /\ me'[t] = c /\ \A u \in Tasks : u # t => me'[u] = me[u] BY <1>3, SteppedFacts
<1>14. ASSUME NEW u \in Tasks PROVE CallFits(use, u, me'[u])
  <2>1. CASE u = t BY <1>1, <1>3, <1>13, <2>1 DEF CallFits, WritePcs, ReadPcs, TimedPcs
  <2>2. CASE u # t BY <1>13, <2>2 DEF CallsOK
  <2> QED BY <2>1, <2>2
<1>15. CallsOK' /\ RingOK'
  <2>1. (use.writer \in Tasks => me'[use.writer] = me[use.writer]) /\ ReaderFits(use, s', me'[use.reader])
    BY <1>1, <1>12, <1>13
  <2> QED BY <1>5, <1>9, <1>11, <1>13, <1>14, <2>1, TakeKeeps
<1> QED BY <1>1, <1>3, <1>5, <1>7, <1>8, <1>9, <1>15

\* sbSEND_COMPLETED and sbRECEIVE_COMPLETED suspend the scheduler,
LEMMA DoneSuspendCalls ==
  ASSUME CallsOK, RingOK, UNCHANGED use, NEW t \in Tasks, CompletedSuspend(t)
  PROVE  CallsOK' /\ RingOK' /\ \E c : Stepped(t, c) /\ c.pc = "doneNotify"
<1>1. SharedOK' /\ SameRing(s, s') BY SharedStays DEF CompletedSuspend, CallsOK, SharedOK
<1>2. me[t].pc = "doneSuspend" /\ Goto(t, "doneNotify") BY DEF CompletedSuspend, At
<1> QED BY <1>1, <1>2, GotoKeeps DEF Pcs, DonePcs, WritePcs, ReadPcs, TimedPcs

\* notify the side that waits,
LEMMA DoneNotifyCalls ==
  ASSUME CallsOK, RingOK, UNCHANGED use, NEW t \in Tasks, CompletedNotify(t)
  PROVE  /\ CallsOK' /\ RingOK' /\ SameRing(s, s') /\ \E c : Stepped(t, c) /\ c.pc = "doneResume"
         /\ t = use.writer => s'.waitTx = s.waitTx
         /\ t = use.reader => s'.waitRx = s.waitRx
         /\ IF Waiter(t) = Null THEN k' = k /\ note' = note /\ s' = s
            ELSE Waiter(t) \in Tasks /\ k' = xTaskGenericNotify(k, Waiter(t)) /\ note' = [note EXCEPT ![Waiter(t)] = "received"]
<1>0. s \in Buffers(use.length) /\ use.writer # use.reader BY NowFacts, UseFacts
<1>1. Waiter(t) \in Tasks \cup {Null} BY <1>0, BufferFields DEF Waiter
<1>2. IF Waiter(t) = Null THEN k' = k /\ note' = note /\ s' = s
      ELSE Waiter(t) \in Tasks /\ k' = xTaskGenericNotify(k, Waiter(t)) /\ note' = [note EXCEPT ![Waiter(t)] = "received"]
  BY <1>1 DEF CompletedNotify, Notified
<1>3. /\ SameRing(s, s') /\ s' \in Buffers(use.length)
      /\ s'.waitRx \in {s.waitRx, Null} /\ s'.waitTx \in {s.waitTx, Null}
      /\ (t = use.writer => s'.waitTx = s.waitTx) /\ (t = use.reader => s'.waitRx = s.waitRx)
  <2>1. CASE s' = s BY <1>0, <2>1 DEF SameRing
  <2>2. CASE s' # s
    <3>1. s' = IF t = use.writer THEN [s EXCEPT !.waitRx = Null] ELSE [s EXCEPT !.waitTx = Null]
      BY <2>2, Zenon DEF CompletedNotify
    <3> QED BY <1>0, <3>1 DEF Buffers, SameRing
  <2> QED BY <2>1, <2>2
<1>4. SharedOK' BY <1>2, <1>3 DEF CompletedNotify, CallsOK, SharedOK
<1>5. me[t].pc = "doneNotify" /\ Goto(t, "doneResume") BY DEF CompletedNotify, At
<1>6. CallsOK' /\ RingOK' /\ \E c : Stepped(t, c) /\ c.pc = "doneResume"
  BY <1>3, <1>4, <1>5, GotoKeeps DEF Pcs, DonePcs, WritePcs, ReadPcs, TimedPcs
<1> QED BY <1>2, <1>3, <1>6

\* and resume it.
LEMMA DoneResumeCalls ==
  ASSUME CallsOK, RingOK, UNCHANGED use, NEW t \in Tasks, CompletedResume(t)
  PROVE  CallsOK' /\ RingOK' /\ \E c : Stepped(t, c) /\ c.pc = "idle"
<1>1. SharedOK' /\ SameRing(s, s') BY SharedStays DEF CompletedResume, CallsOK, SharedOK
<1>2. Stepped(t, NoCall) BY NoCallFields DEF CompletedResume, Return, Stepped
<1>3. CallFits(use, t, NoCall) BY NoCallFields DEF CallFits, WritePcs, ReadPcs, TimedPcs
<1>4. CallsOK' /\ RingOK' BY <1>1, <1>2, <1>3, NoCallFields, PlainStep
<1> QED BY <1>2, <1>4, NoCallFields

\* xStreamBufferSendFromISR writes, and notifies a reader that waits when the trigger level is reached.
LEMMA SendISRCalls ==
  ASSUME CallsOK, RingOK, UNCHANGED use, NEW size \in use.sizes, SendFromISR(size)
  PROVE  /\ CallsOK' /\ RingOK' /\ use.writer = Isr /\ me' = me /\ s'.waitTx = s.waitTx
         /\ \E data \in Seq(Nat) : data # <<>> /\ Len(Frame(use, data)) <= Room(use, s) /\ Puts(use, s, Frame(use, data), s')
         /\ IF s.waitRx # Null /\ Held(use, s') >= use.trigger
            THEN /\ s.waitRx \in Tasks /\ k' = xTaskGenericNotifyFromISR(s.waitRx)
                 /\ note' = [note EXCEPT ![s.waitRx] = "received"]
            ELSE s'.waitRx = s.waitRx /\ k' = k /\ note' = note
<1>0. use \in Uses /\ s \in Buffers(use.length) /\ use.length \in Nat \ {0} /\ use.writer = Isr
  BY NowFacts DEF SendFromISR
<1>1. Isr \notin Tasks /\ size \in Nat BY <1>0, UseFacts
<1>2. PICK space \in Nat : space = Room(use, s) /\ space = xStreamBufferSpacesAvailable BY NowFacts
<1>3. PICK count : count = Writable(size, space) OBVIOUS
<1>4. count \in Nat /\ (count # 0 => count + (IF IsMessage THEN 1 ELSE 0) <= space) BY <1>0, <1>1, <1>3, WritableFits
<1>5. PICK data : data = Payload(count) OBVIOUS
<1>6. data \in Seq(Nat) /\ Len(data) = count BY <1>4, <1>5, PayloadSeq DEF CallsOK, SharedOK
<1>7. PICK f, h : f = Written(data) /\ h = HeadAfter(data) OBVIOUS
<1>8. PICK s1 : s1 = [s EXCEPT !.cell = f, !.head = h] OBVIOUS
<1>9. PICK wake : wake = (s.waitRx # Null /\ (s1.head - s1.tail) % use.length >= use.trigger) OBVIOUS
<1>10. /\ data # <<>> /\ s' = (IF wake THEN [s1 EXCEPT !.waitRx = Null] ELSE s1)
       /\ sent' = (sent + Len(data)) % Values
       /\ IF wake THEN Notified(s.waitRx) /\ k' = xTaskGenericNotifyFromISR(s.waitRx) ELSE UNCHANGED <<note, k>>
       /\ me' = me
  BY <1>2, <1>3, <1>5, <1>7, <1>8, <1>9, Zenon DEF SendFromISR
<1>11. PICK w : w = Frame(use, data) OBVIOUS
<1>12. w \in Seq(Nat) /\ Len(w) <= Room(use, s)
  <2>1. count # 0 BY <1>6, <1>10
  <2>2. w \in Seq(Nat) /\ Len(w) = count + IF use.kind = "message" THEN 1 ELSE 0 BY <1>6, <1>11, FrameSeq
  <2> QED BY <1>2, <1>4, <2>1, <2>2 DEF IsMessage
<1>13. /\ f \in [0 .. use.length - 1 -> Nat]
       /\ \A i \in 1 .. Held(use, s) : f[Pos(use.length, s.tail, i - 1)] = s.cell[Pos(use.length, s.tail, i - 1)]
       /\ \A i \in 1 .. Len(w) : f[Pos(use.length, s.head, i - 1)] = w[i]
       /\ h = Pos(use.length, s.head, Len(w))
  BY <1>0, <1>6, <1>7, <1>11, <1>12, WrittenIs
<1>14. PICK s0 : s0 = [s EXCEPT !.cell = f] OBVIOUS
<1>15. s0 \in Buffers(use.length) /\ s0.cell = f /\ s0.head = s.head /\ s0.tail = s.tail
  BY <1>0, <1>13, <1>14 DEF Buffers
<1>16. Puts(use, s, <<>>, s0) BY <1>0, <1>13, <1>15, CopyPuts
<1>17. /\ s'.cell = f /\ s'.head = h /\ s'.tail = s.tail /\ s'.waitTx = s.waitTx /\ s'.waitRx = (IF wake THEN Null ELSE s.waitRx)
       /\ s1.head = h /\ s1.tail = s.tail
  <2>1. s1.cell = f /\ s1.head = h /\ s1.tail = s.tail /\ s1.waitTx = s.waitTx /\ s1.waitRx = s.waitRx BY <1>0, <1>8 DEF Buffers
  <2>2. CASE wake
    <3>1. s' = [s1 EXCEPT !.waitRx = Null] BY <1>10, <2>2
    <3> QED BY <1>0, <1>8, <2>1, <2>2, <3>1 DEF Buffers
  <2>3. CASE ~wake
    <3>1. s' = s1 BY <1>10, <2>3
    <3> QED BY <2>1, <2>3, <3>1
  <2> QED BY <2>2, <2>3
<1>18. Puts(use, s0, w, s') /\ s'.head \in 0 .. use.length - 1
  <2>1. Room(use, s0) = Room(use, s) BY <1>15 DEF Room, Held
  <2>2. Len(w) <= Room(use, s0) BY <1>12, <2>1
  <2>3. \A i \in 1 .. Len(w) : s0.cell[Pos(use.length, s0.head, i - 1)] = w[i] BY <1>13, <1>15
  <2>4. s'.head = Pos(use.length, s0.head, Len(w)) /\ s'.cell = s0.cell /\ s'.tail = s0.tail BY <1>13, <1>15, <1>17
  <2> QED BY <1>0, <1>12, <1>15, <2>2, <2>3, <2>4, HeadPuts
<1>19. Puts(use, s, w, s') BY <1>0, <1>12, <1>16, <1>18, PutsOn
<1>20. s' \in Buffers(use.length)
  <2>1. s1 \in Buffers(use.length) BY <1>0, <1>8, <1>13, <1>17, <1>18 DEF Buffers
  <2>2. CASE wake
    <3>1. s' = [s1 EXCEPT !.waitRx = Null] BY <1>10, <2>2
    <3> QED BY <2>1, <3>1 DEF Buffers
  <2>3. CASE ~wake BY <1>10, <2>1, <2>3
  <2> QED BY <2>2, <2>3
<1>21. wake = (s.waitRx # Null /\ Held(use, s') >= use.trigger)
  <2>1. (s1.head - s1.tail) % use.length = Count(use.length, s1.head, s1.tail)
    <3>1. s1.head \in 0 .. use.length - 1 /\ s1.tail \in 0 .. use.length - 1 BY <1>0, <1>17, <1>18, BufferFields
    <3> QED BY <1>0, <3>1, Turns
  <2>2. Held(use, s') = Count(use.length, s1.head, s1.tail) BY <1>17 DEF Held
  <2> QED BY <1>9, <2>1, <2>2
<1>22. s.waitRx # Null => s.waitRx \in Tasks BY <1>0, BufferFields
<1>23. IF wake THEN s.waitRx \in Tasks /\ k' = xTaskGenericNotifyFromISR(s.waitRx) /\ note' = [note EXCEPT ![s.waitRx] = "received"]
       ELSE s'.waitRx = s.waitRx /\ k' = k /\ note' = note
  <2>1. CASE wake BY <1>10, <1>21, <1>22, <2>1 DEF Notified
  <2>2. CASE ~wake BY <1>10, <1>17, <2>2
  <2> QED BY <2>1, <2>2
<1>24. SharedOK'
  <2>1. sent' \in Nat
    <3>1. sent \in Nat /\ Len(data) \in Nat /\ Values \in Nat \ {0} BY <1>6, StreamAssumption DEF CallsOK, SharedOK
    <3> QED BY <1>10, <3>1
  <2>2. note' \in [Tasks -> {"none", "waiting", "received"}]
    <3>1. note \in [Tasks -> {"none", "waiting", "received"}] BY DEF CallsOK, SharedOK
    <3>2. CASE wake BY <1>23, <3>1, <3>2
    <3>3. CASE ~wake BY <1>23, <3>1, <3>3
    <3> QED BY <3>2, <3>3
  <2>3. s'.waitRx \in {Null, use.reader} /\ s'.waitTx \in {Null, use.writer} BY <1>17 DEF CallsOK, SharedOK
  <2> QED BY <1>0, <1>20, <2>1, <2>2, <2>3 DEF SharedOK
<1>25. CallsOK' /\ RingOK'
  <2>1. me' \in [Tasks -> Calls] /\ \A t \in Tasks : CallFits(use, t, me'[t]) BY <1>10 DEF CallsOK
  <2>2. use.kind = "message" => w = <<Len(data)>> \o data BY <1>11 DEF Frame
  <2>3. use.writer \notin Tasks BY <1>0, <1>1
  <2> QED BY <1>6, <1>10, <1>12, <1>19, <1>24, <2>1, <2>2, <2>3, PutKeeps
<1>26. \E e \in Seq(Nat) : e # <<>> /\ Len(Frame(use, e)) <= Room(use, s) /\ Puts(use, s, Frame(use, e), s')
  BY <1>6, <1>10, <1>11, <1>12, <1>19
<1> QED BY <1>0, <1>10, <1>17, <1>21, <1>23, <1>25, <1>26

\* xStreamBufferReceiveFromISR reads, and notifies a writer that waits.
LEMMA ReceiveISRCalls ==
  ASSUME CallsOK, RingOK, UNCHANGED use, NEW room \in use.rooms, ReceiveFromISR(room)
  PROVE  /\ CallsOK' /\ RingOK' /\ use.reader = Isr /\ me' = me /\ s'.waitRx = s.waitRx
         /\ \E data \in Seq(Nat) : Reading(use, s, data) /\ Takes(use, s, Len(Frame(use, data)), s') /\ got' = data
         /\ IF s.waitTx # Null
            THEN /\ s.waitTx \in Tasks /\ k' = xTaskGenericNotifyFromISR(s.waitTx)
                 /\ note' = [note EXCEPT ![s.waitTx] = "received"]
            ELSE s'.waitTx = s.waitTx /\ k' = k /\ note' = note
<1>0. use \in Uses /\ s \in Buffers(use.length) /\ use.reader = Isr BY NowFacts DEF ReceiveFromISR
<1>1. Isr \notin Tasks /\ room \in Nat BY <1>0, UseFacts
<1>2. PICK avail \in Nat : avail = Held(use, s) /\ avail = prvBytesInBuffer BY NowFacts
<1>3. PICK data : data = Copied(room, avail) OBVIOUS
<1>4. PICK a : a = TailAfter(data) OBVIOUS
<1>5. data # <<>> /\ s' = [s EXCEPT !.tail = a, !.waitTx = Null] /\ got' = data /\ me' = me /\ sent' = sent
  BY <1>2, <1>3, <1>4, Zenon DEF ReceiveFromISR
<1>6. use.kind = "message" => avail > 1 /\ s.cell[s.tail] + 1 <= avail
  <2>1. SUFFICES ASSUME use.kind = "message" PROVE avail > 1 /\ s.cell[s.tail] + 1 <= avail OBVIOUS
  <2>2. avail > 1
    <3>1. IF IsMessage THEN Header = 1 ELSE TRUE BY StreamAssumption
    <3> QED BY <1>2, <2>1, <3>1 DEF ReceiveFromISR, IsMessage
  <2>3. Held(use, s) # 0 /\ Frames(Contents(use, s)) BY <1>2, <2>1, <2>2 DEF RingOK
  <2> QED BY <1>2, <2>1, <2>2, <2>3, HeadFrame
<1>7. data \in Seq(Nat) /\ Reading(use, s, data)
  <2>1. avail <= Held(use, s) BY <1>2
  <2> QED BY <1>0, <1>1, <1>3, <1>5, <1>6, <2>1, CopiedIs
<1>8. s'.cell = s.cell /\ s'.head = s.head /\ s'.tail = a /\ s'.waitTx = Null /\ s'.waitRx = s.waitRx
  BY <1>0, <1>5 DEF Buffers
<1>9. Takes(use, s, Len(Frame(use, data)), s') /\ s'.tail \in 0 .. use.length - 1 BY <1>4, <1>7, <1>8, ReadTakes
<1>10. s' \in Buffers(use.length) BY <1>0, <1>5, <1>8, <1>9 DEF Buffers
<1>11. IF s.waitTx # Null
       THEN s.waitTx \in Tasks /\ k' = xTaskGenericNotifyFromISR(s.waitTx) /\ note' = [note EXCEPT ![s.waitTx] = "received"]
       ELSE s'.waitTx = s.waitTx /\ k' = k /\ note' = note
  <2>1. s.waitTx \in Tasks \cup {Null} BY <1>0, BufferFields
  <2> QED BY <1>8, <2>1 DEF ReceiveFromISR, Notified
<1>12. SharedOK'
  <2>1. note' \in [Tasks -> {"none", "waiting", "received"}]
    <3>1. note \in [Tasks -> {"none", "waiting", "received"}] BY DEF CallsOK, SharedOK
    <3>2. CASE s.waitTx # Null BY <1>11, <3>1, <3>2
    <3>3. CASE s.waitTx = Null BY <1>11, <3>1, <3>3
    <3> QED BY <3>2, <3>3
  <2>2. s'.waitRx \in {Null, use.reader} /\ s'.waitTx \in {Null, use.writer} BY <1>8 DEF CallsOK, SharedOK
  <2> QED BY <1>0, <1>5, <1>10, <2>1, <2>2 DEF CallsOK, SharedOK
<1>13. CallsOK' /\ RingOK'
  <2>1. me' \in [Tasks -> Calls] /\ \A t \in Tasks : CallFits(use, t, me'[t]) BY <1>5 DEF CallsOK
  <2>2. use.reader \notin Tasks BY <1>0, <1>1
  <2> QED BY <1>5, <1>7, <1>9, <1>12, <2>1, <2>2, TakeKeeps
<1> QED BY <1>0, <1>5, <1>7, <1>8, <1>9, <1>11, <1>13

\* Nothing of the calls and the buffer changes.
LEMMA StillCalls ==
  ASSUME CallsOK, RingOK, UNCHANGED <<use, me, note, s, sent>> PROVE CallsOK' /\ RingOK'
  BY DEF CallsOK, SharedOK, RingOK

(* ------------------------ each step, on the scheduler ----------------------- *)

\* The task that runs is ready, but for one that has just gone to sleep.
LEMMA RunnerReady ==
  ASSUME CallsOK, SchedOK, NEW t \in Tasks, t \in Sides, Running(k, t), me[t].pc \notin {"waitResume", "waitYield"}
  PROVE  k.st[t] = "ready"
<1>1. TaskOK(t) /\ k.cur = t /\ ~k.swi BY DEF SchedOK, Running
<1>2. CASE me[t].pc \notin BlockedPcs BY <1>1, <1>2 DEF TaskOK
<1>3. CASE me[t].pc \in BlockedPcs
  <2>1. me[t].pc = "waitDone" BY <1>3 DEF BlockedPcs
  <2>2. k.susp = 0 BY <1>1, <2>1 DEF SchedOK, HeldPcs
  <2> QED BY <1>1, <2>1, <2>2 DEF SchedOK
<1> QED BY <1>2, <1>3

\* The scheduler is suspended by the task that runs, once, or not at all.
LEMMA RunnerHolds ==
  ASSUME SchedOK, NEW t \in Tasks, Running(k, t)
  PROVE  /\ k.susp = IF me[t].pc \in HeldPcs THEN 1 ELSE 0
         /\ \A u \in Tasks : u # t => me[u].pc \notin HeldPcs
<1>1. k.cur = t BY DEF Running
<1>2. me[t].pc \in HeldPcs => k.susp = 1 BY <1>1 DEF SchedOK, TaskOK
<1>3. me[t].pc \notin HeldPcs => k.susp = 0 BY <1>1 DEF SchedOK
<1>4. \A u \in Tasks : u # t => me[u].pc \notin HeldPcs BY <1>1 DEF SchedOK, TaskOK
<1> QED BY <1>2, <1>3, <1>4

\* A step of the running task outside vTaskSuspendAll and xTaskResumeAll.
LEMMA TaskSched ==
  ASSUME CallsOK, SchedOK, UNCHANGED use, NEW t \in Tasks, t \in Sides, Running(k, t), NEW c, Stepped(t, c), Eased(k, k'),
         me[t].pc \notin {"waitResume", "waitYield"}, c.pc # "waitYield", c.pc \in HeldPcs <=> me[t].pc \in HeldPcs
  PROVE  SchedOK'
<1>1. me' \in [Tasks -> Calls] /\ me'[t] = c /\ \A u \in Tasks : u # t => me'[u] = me[u] BY SteppedFacts
<1>2. k.st[t] = "ready" BY RunnerReady
<1>3. /\ k.susp = (IF me[t].pc \in HeldPcs THEN 1 ELSE 0) /\ \A u \in Tasks : u # t => me[u].pc \notin HeldPcs
  BY RunnerHolds
<1>4. /\ WokenOK(k') /\ NoEvents(k') /\ k'.cur = t /\ k'.susp = k.susp /\ k'.st[t] = "ready"
      /\ \A u \in Tasks : k.st[u] = "ready" => k'.st[u] = "ready"
  BY <1>2 DEF Eased, Running
<1>5. k'.susp # 0 => k'.cur \in Tasks /\ me'[k'.cur].pc \in HeldPcs BY <1>1, <1>3, <1>4
<1>6. ASSUME NEW u \in Tasks PROVE TaskOK(u)'
  <2>1. CASE u = t BY <1>1, <1>3, <1>4, <2>1 DEF TaskOK
  <2>2. CASE u # t
    <3>1. me'[u] = me[u] /\ me[u].pc \notin HeldPcs /\ TaskOK(u) BY <1>1, <1>3, <2>2 DEF SchedOK
    <3> QED BY <1>4, <3>1 DEF TaskOK, Sides, HeldPcs
  <2> QED BY <2>1, <2>2
<1> QED BY <1>4, <1>5, <1>6 DEF SchedOK

\* vTaskSuspendAll.
LEMMA SuspendSched ==
  ASSUME CallsOK, SchedOK, UNCHANGED use, NEW t \in Tasks, t \in Sides, Running(k, t), NEW c, Stepped(t, c), k' = vTaskSuspendAll(k),
         me[t].pc \notin HeldPcs \cup BlockedPcs, c.pc \in HeldPcs \ {"waitResume"}
  PROVE  SchedOK' /\ k'.st = k.st /\ k'.pending = k.pending
<1>1. me' \in [Tasks -> Calls] /\ me'[t] = c /\ \A u \in Tasks : u # t => me'[u] = me[u] BY SteppedFacts
<1>2. k.st[t] = "ready" BY RunnerReady DEF BlockedPcs
<1>3. k.susp = 0 /\ \A u \in Tasks : u # t => me[u].pc \notin HeldPcs BY RunnerHolds
<1>4. WokenOK(k') /\ NoEvents(k') /\ k'.cur = t /\ k'.susp = 1 /\ k'.st = k.st /\ k'.pending = k.pending
  BY <1>3, SuspendKeeps DEF Running, SchedOK
<1>5. ASSUME NEW u \in Tasks PROVE TaskOK(u)'
  <2>1. CASE u = t BY <1>1, <1>2, <1>4, <2>1 DEF TaskOK
  <2>2. CASE u # t
    <3>1. me'[u] = me[u] /\ me[u].pc \notin HeldPcs /\ TaskOK(u) BY <1>1, <1>3, <2>2 DEF SchedOK
    <3> QED BY <1>4, <3>1 DEF TaskOK, Sides, HeldPcs
  <2> QED BY <2>1, <2>2
<1> QED BY <1>1, <1>4, <1>5 DEF SchedOK

\* The task goes to sleep.
LEMMA BlockSched ==
  ASSUME CallsOK, SchedOK, RingOK, UNCHANGED use, NEW t \in Tasks, NotifyWaitBlock(t)
  PROVE  SchedOK' /\ k'.pending = k.pending /\ \A u \in Tasks : u # t => k'.st[u] = k.st[u]
<1>0. me[t].pc = "waitBlock" /\ Running(k, t) /\ k' = prvAddCurrentTaskToDelayedList(k, me[t].left, TRUE)
  BY DEF NotifyWaitBlock, At
<1>1. PICK c : Stepped(t, c) /\ c.pc = "waitResume" /\ Rest(c, me[t]) BY WaitBlockCalls
<1>2. me' \in [Tasks -> Calls] /\ me'[t] = c /\ \A u \in Tasks : u # t => me'[u] = me[u] BY <1>1, SteppedFacts
<1>3. k.susp = 1 /\ \A u \in Tasks : u # t => me[u].pc \notin HeldPcs BY <1>0, RunnerHolds DEF HeldPcs
<1>4. me[t].left \in TickType \ {0} /\ c.block
  <2>1. CallFits(use, t, me[t]) /\ me[t] \in Calls BY DEF CallsOK
  <2> QED BY <1>0, <1>1, <2>1 DEF CallFits, TimedPcs, Calls, Rest
<1>5. /\ WokenOK(k') /\ NoEvents(k') /\ k'.cur = t /\ k'.susp = k.susp /\ k'.pending = k.pending
      /\ \A u \in Tasks : u # t => k'.st[u] = k.st[u]
  <2>1. k.cur = t BY <1>0 DEF Running
  <2>2. WokenOK(k) /\ NoEvents(k) BY DEF SchedOK
  <2>3. PICK d \in TickType \ {0} : d = me[t].left BY <1>4
  <2>4. k' = prvAddCurrentTaskToDelayedList(k, d, TRUE) BY <1>0, <2>3
  <2>5. PICK x, y : x = k /\ y = k' OBVIOUS
  <2>6. WokenOK(x) /\ NoEvents(x) /\ x.cur \in Tasks /\ y = prvAddCurrentTaskToDelayedList(x, d, TRUE)
    BY ONLY <2>1, <2>2, <2>4, <2>5, t \in Tasks
  <2>7. Slept(x, y) BY <2>6, SleepKeeps
  <2> QED BY ONLY <2>1, <2>5, <2>7 DEF Slept
<1>6. ASSUME NEW u \in Tasks PROVE TaskOK(u)'
  <2>1. CASE u = t BY <1>1, <1>2, <1>3, <1>4, <1>5, <2>1 DEF TaskOK, BlockedPcs
  <2>2. CASE u # t
    <3>1. me'[u] = me[u] /\ me[u].pc \notin HeldPcs /\ TaskOK(u) BY <1>2, <1>3, <2>2 DEF SchedOK
    <3> QED BY <1>5, <2>2, <3>1 DEF TaskOK, Sides, HeldPcs
  <2> QED BY <2>1, <2>2
<1>7. k'.susp # 0 /\ k'.cur \in Tasks /\ me'[k'.cur].pc \in HeldPcs BY <1>1, <1>2, <1>3, <1>5 DEF HeldPcs
<1> QED BY <1>5, <1>6, <1>7 DEF SchedOK

\* xTaskResumeAll: a task that sleeps and has no switch coming asks for one next.
LEMMA ResumeSched ==
  ASSUME CallsOK, SchedOK, UNCHANGED use, NEW t \in Tasks, t \in Sides, Running(k, t), NEW c, Stepped(t, c), k' = xTaskResumeAll(k),
         me[t].pc \in HeldPcs, c.pc \notin HeldPcs,
         c.pc \in {"waitYield"} \/ k'.yield \/ k.st[t] = "ready", c.pc \notin BlockedPcs => k.st[t] = "ready"
  PROVE  /\ SchedOK'
         /\ \A u \in Tasks : k.st[u] = "ready" \/ u \in ToSet(k.pending) => k'.st[u] = "ready"
<1>1. me' \in [Tasks -> Calls] /\ me'[t] = c /\ \A u \in Tasks : u # t => me'[u] = me[u] BY SteppedFacts
<1>3. k.susp = 1 /\ \A u \in Tasks : u # t => me[u].pc \notin HeldPcs BY RunnerHolds
<1>4. /\ WokenOK(k') /\ NoEvents(k') /\ k'.cur = t /\ k'.susp = 0 /\ (k.swi \/ k'.yield => k'.swi)
      /\ \A u \in Tasks : k.st[u] = "ready" \/ u \in ToSet(k.pending) => k'.st[u] = "ready"
  BY <1>3, ResumeKeeps DEF Running, SchedOK
<1>5. ASSUME NEW u \in Tasks PROVE TaskOK(u)'
  <2>1. CASE u = t BY <1>1, <1>4, <2>1 DEF TaskOK, HeldPcs
  <2>2. CASE u # t
    <3>1. me'[u] = me[u] /\ me[u].pc \notin HeldPcs /\ TaskOK(u) BY <1>1, <1>3, <2>2 DEF SchedOK
    <3> QED BY <1>4, <3>1 DEF TaskOK, Sides, HeldPcs
  <2> QED BY <2>1, <2>2
<1>6. ~k'.swi /\ me'[k'.cur].pc # "waitYield" => k'.st[k'.cur] = "ready" BY <1>1, <1>4
<1> QED BY <1>4, <1>5, <1>6 DEF SchedOK

\* portYIELD after going to sleep.
LEMMA YieldSched ==
  ASSUME CallsOK, SchedOK, UNCHANGED use, NEW t \in Tasks, t \in Sides, Running(k, t), NEW c, Stepped(t, c), k' = portYIELD(k),
         me[t].pc = "waitYield", c.pc = "waitDone"
  PROVE  SchedOK' /\ k'.st = k.st /\ k'.pending = k.pending
<1>1. me' \in [Tasks -> Calls] /\ me'[t] = c /\ \A u \in Tasks : u # t => me'[u] = me[u] BY SteppedFacts
<1>3. k.susp = 0 /\ \A u \in Tasks : u # t => me[u].pc \notin HeldPcs BY RunnerHolds DEF HeldPcs
<1>4. WokenOK(k') /\ NoEvents(k') /\ k'.susp = 0 /\ k'.swi /\ k'.st = k.st /\ k'.pending = k.pending
  <2>1. WokenOK(k) /\ NoEvents(k) BY DEF SchedOK
  <2>2. Eased(k, k') /\ OnlySwi(k, k') /\ k'.swi BY <2>1, YieldEases
  <2> QED BY <1>3, <2>2 DEF Eased, OnlySwi
<1>5. ASSUME NEW u \in Tasks PROVE TaskOK(u)'
  <2>1. CASE u = t BY <1>1, <2>1 DEF TaskOK, HeldPcs, BlockedPcs
  <2>2. CASE u # t
    <3>1. me'[u] = me[u] /\ me[u].pc \notin HeldPcs /\ TaskOK(u) BY <1>1, <1>3, <2>2 DEF SchedOK
    <3> QED BY <1>4, <3>1 DEF TaskOK, Sides, HeldPcs
  <2> QED BY <2>1, <2>2
<1> QED BY <1>4, <1>5 DEF SchedOK

\* An interrupt.
LEMMA InterruptSched ==
  ASSUME SchedOK, UNCHANGED <<use, me>>, Eased(k, k') PROVE SchedOK'
<1>1. /\ WokenOK(k') /\ NoEvents(k') /\ k'.cur = k.cur /\ k'.susp = k.susp /\ (k.swi => k'.swi)
      /\ \A u \in Tasks : k.st[u] = "ready" => k'.st[u] = "ready"
  BY DEF Eased
<1>2. ASSUME NEW u \in Tasks PROVE TaskOK(u)' BY <1>1 DEF SchedOK, TaskOK, Sides
<1> QED BY <1>1, <1>2 DEF SchedOK, Sides

\* A context switch.
LEMMA SwitchSched ==
  ASSUME SchedOK, UNCHANGED <<use, me>>, NEW t \in Tasks \cup {Idle}, SwitchTo(k, t), k' = vTaskSwitchContext(k, t)
  PROVE  SchedOK' /\ k'.st = k.st /\ k'.pending = k.pending
<1>1. /\ WokenOK(k') /\ NoEvents(k') /\ k'.cur = t /\ k'.susp = k.susp /\ k'.st = k.st /\ k'.pending = k.pending
      /\ k.susp # 0 => t = k.cur
      /\ k.susp = 0 /\ t \in Tasks => k'.st[t] = "ready"
  BY SwitchKeeps DEF SchedOK
<1>2. ASSUME NEW u \in Tasks PROVE TaskOK(u)'
  <2>1. TaskOK(u) BY DEF SchedOK
  <2> QED BY <1>1, <2>1 DEF TaskOK, Sides
<1> QED BY <1>1, <1>2 DEF SchedOK

(* --------------------- each step, on the notifications -------------------- *)

\* No task but t falls asleep or is taken off xPendingReadyList.
Awake(x, y, u) == (x.st[u] = "ready" => y.st[u] = "ready") /\ (u \in ToSet(x.pending) => u \in ToSet(y.pending))

\* xRequiredSpace.
LEMMA RequiredIs == \A size : Required(size) = Needs(use, size)
  BY StreamAssumption DEF Required, Needs, IsMessage

\* A reader that would wait has not been told of what there is.
LEMMA ThresholdLow ==
  ASSUME use \in Uses, NEW n \in Nat
  PROVE  Low(use, n) <=> n <= Threshold \/ n < use.trigger
<1>1. use.trigger \in Nat /\ use.trigger >= 1 /\ use.kind \in {"stream", "message", "batching"} /\ (use.kind = "message" => use.trigger = 1)
  <2>1. use.length \in Nat /\ use.trigger \in 1 .. use.length - 1 BY UseFacts
  <2>2. use.trigger \in Nat /\ use.trigger >= 1 BY <2>1
  <2> QED BY <2>2, UseFacts
<1>2. Header = 1 BY StreamAssumption
<1>3. CASE use.kind = "stream"
  <2>1. Threshold = 0 BY <1>3 DEF Threshold
  <2> QED BY <1>1, <1>3, <2>1 DEF Low
<1>4. CASE use.kind = "message"
  <2>1. Threshold = 1 BY <1>2, <1>4 DEF Threshold
  <2> QED BY <1>1, <1>4, <2>1 DEF Low
<1>5. CASE use.kind = "batching"
  <2>1. Threshold = use.trigger BY <1>5 DEF Threshold
  <2> QED BY <1>1, <1>5, <2>1 DEF Low
<1> QED BY <1>1, <1>3, <1>4, <1>5

\* A side that sleeps on is still heard.
LEMMA HeardStays ==
  ASSUME NEW t, NEW c, NEW x, NEW y, NEW nt, NEW p, NEW D \in BOOLEAN, NEW E \in BOOLEAN,
         Heard(t, c, x, nt, p, D), D => E, Awake(x, y, t)
  PROVE  Heard(t, c, y, nt, p, E)
  BY DEF Heard, Listening, Awake

\* A side that is notified listens no more.
LEMMA HeardNotified ==
  ASSUME NEW t, NEW c, NEW x, NEW y, NEW nt, NEW p, NEW q, NEW D, NEW E,
         Heard(t, c, x, nt, p, D), Awake(x, y, t),
         nt = "waiting" => t \in ToSet(y.pending) \/ (c.pc # "waitBlock" /\ y.st[t] = "ready")
  PROVE  Heard(t, c, y, "received", q, E)
<1>1. SUFFICES ASSUME Listening(t, c, y, "received") PROVE FALSE BY DEF Heard
<1>2. Listening(t, c, x, nt) BY <1>1 DEF Listening, Awake
<1>3. c.pc \in {"waitBlock"} \cup BlockedPcs BY <1>1 DEF Listening
<1>4. nt = "waiting" BY <1>2, <1>3 DEF Heard
<1> QED BY <1>1, <1>4 DEF Listening, BlockedPcs

\* A call that does not wait.
LEMMA HeardElse == ASSUME NEW t, NEW c, NEW x, NEW nt, NEW p, NEW D, c.pc \notin WaitPcs PROVE Heard(t, c, x, nt, p, D)
  BY DEF Heard, Listening, WaitPcs, BlockedPcs

\* Why a side has not been notified is a truth value.
LEMMA DueBoolean == ASSUME NEW u, NEW t, NEW b, NEW m PROVE Due(u, t, b, m) \in BOOLEAN
  BY DEF Due, Low, Way

\* The other side's reason stays while the amount in the buffer does and the task that
\* runs is on its way as before.
LEMMA SameDue ==
  ASSUME CallsOK, NEW t \in Tasks, t \in Sides, NEW c, Stepped(t, c), NEW o \in Tasks, o \in Sides, o # t, Held(use, s') = Held(use, s),
         me[t].pc \in {"sendTrigger", "doneSuspend", "doneNotify"} => c.pc \in {"sendTrigger", "doneSuspend", "doneNotify"}
  PROVE  Due(use, o, s, me) => Due(use, o, s', me')
<1>1. me'[t] = c /\ me'[o] = me[o] BY SteppedFacts
<1>2. Room(use, s') = Room(use, s) BY DEF Room
<1>3. Way(t, me) => Way(t, me') BY <1>1 DEF Way
<1> QED BY <1>1, <1>2, <1>3 DEF Due, Sides

\* The running side's own reason.
LEMMA SameOwnDue ==
  ASSUME CallsOK, NEW t \in Tasks, t \in Sides, NEW c, Stepped(t, c), c.size = me[t].size, Held(use, s') = Held(use, s)
  PROVE  Due(use, t, s, me) => Due(use, t, s', me')
<1>1. me'[t] = c /\ \A u \in Tasks : u # t => me'[u] = me[u] BY SteppedFacts
<1>2. Room(use, s') = Room(use, s) BY DEF Room
<1>3. use.writer # use.reader BY NowFacts, UseFacts
<1>4. ASSUME NEW o, o # t PROVE Way(o, me) => Way(o, me') BY <1>1, <1>4 DEF Way
<1>5. CASE t = use.reader
  <2>1. use.writer # t BY <1>3, <1>5
  <2> QED BY <1>4, <1>5, <2>1 DEF Due
<1>6. CASE t # use.reader BY <1>1, <1>2, <1>4, <1>6 DEF Due
<1> QED BY <1>5, <1>6

\* The invariant after a task's step, side by side.
LEMMA NotesFrom ==
  ASSUME UNCHANGED use, NEW t \in Tasks, Heard(t, me'[t], k', note'[t], Ptr(use, t, s'), Due(use, t, s', me')),
         \A o \in Tasks : o \in Sides /\ o # t => Heard(o, me'[o], k', note'[o], Ptr(use, o, s'), Due(use, o, s', me'))
  PROVE  NotesOK'
<1>1. ASSUME NEW o \in Sides \cap Tasks PROVE Heard(o, me'[o], k', note'[o], Ptr(use, o, s'), Due(use, o, s', me'))
  <2>1. CASE o = t BY <2>1
  <2>2. CASE o # t BY <2>2
  <2> QED BY <2>1, <2>2
<1>2. Sides' = Sides BY DEF Sides
<1>3. NotesOK' <=> \A o \in Sides \cap Tasks : Heard(o, me'[o], k', note'[o], Ptr(use, o, s'), Due(use, o, s', me'))
  BY <1>2 DEF NotesOK
<1> QED BY <1>1, <1>3

\* What a step of t must leave alone for the other side to be heard.
Apart(t, o) == note'[o] = note[o] /\ Ptr(use, o, s') = Ptr(use, o, s) /\ Awake(k, k', o)

\* The other side, with its reason.
LEMMA OtherHeard ==
  ASSUME CallsOK, NotesOK, NEW t \in Tasks, NEW c, Stepped(t, c), NEW o \in Tasks, o \in Sides, o # t, Apart(t, o),
         Due(use, o, s, me) => Due(use, o, s', me')
  PROVE  Heard(o, me'[o], k', note'[o], Ptr(use, o, s'), Due(use, o, s', me'))
<1>1. me'[o] = me[o] BY SteppedFacts
<1>2. Heard(o, me[o], k, note[o], Ptr(use, o, s), Due(use, o, s, me)) BY DEF NotesOK
<1>3. Due(use, o, s, me) \in BOOLEAN /\ Due(use, o, s', me') \in BOOLEAN BY DueBoolean
<1>4. Heard(o, me[o], k', note[o], Ptr(use, o, s), Due(use, o, s', me')) BY <1>2, <1>3, HeardStays DEF Apart
<1> QED BY <1>1, <1>4 DEF Apart

\* A step that leaves the ring alone and keeps its task on its way.
LEMMA PlainNotes ==
  ASSUME CallsOK, NotesOK, UNCHANGED use, NEW t \in Tasks, t \in Sides, NEW c, Stepped(t, c), Held(use, s') = Held(use, s),
         me[t].pc \in {"sendTrigger", "doneSuspend", "doneNotify"} => c.pc \in {"sendTrigger", "doneSuspend", "doneNotify"},
         \A o \in Tasks : o \in Sides /\ o # t => Apart(t, o),
         Heard(t, c, k', note'[t], Ptr(use, t, s'), Due(use, t, s', me'))
  PROVE  NotesOK'
<1>1. Heard(t, me'[t], k', note'[t], Ptr(use, t, s'), Due(use, t, s', me')) BY SteppedFacts
<1>2. ASSUME NEW o \in Tasks, o \in Sides, o # t
      PROVE  Heard(o, me'[o], k', note'[o], Ptr(use, o, s'), Due(use, o, s', me'))
  <2>1. Due(use, o, s, me) => Due(use, o, s', me') BY <1>2, SameDue
  <2>2. Apart(t, o) BY <1>2
  <2> QED BY <1>2, <2>1, <2>2, OtherHeard
<1> QED BY <1>1, <1>2, NotesFrom

\* Nothing about the kernel, the notifications and the pointers changes.
LEMMA NothingApart ==
  ASSUME k' = k, note' = note, s'.waitRx = s.waitRx, s'.waitTx = s.waitTx, NEW t, NEW o PROVE Apart(t, o)
  BY DEF Apart, Awake, Ptr

(* -------------------------- the inductive invariant ------------------------- *)

StreamInv == CallsOK /\ SchedOK /\ RingOK /\ NotesOK

\* To change nothing of the kernel is one of its quiet steps.
LEMMA StillEased == ASSUME SchedOK, k' = k PROVE Eased(k, k')
  BY SameEased DEF SchedOK

\* A step that only looks, or moves bytes, without waiting.
LEMMA LookKeeps ==
  ASSUME StreamInv, CallsOK', RingOK', UNCHANGED <<use, k>>, NEW t \in Tasks, t \in Sides, Running(k, t), NEW c, Stepped(t, c),
         me[t].pc \notin HeldPcs \cup {"waitYield"}, c.pc \notin HeldPcs \cup WaitPcs,
         me[t].pc \in {"sendTrigger", "doneSuspend", "doneNotify"} => c.pc \in {"sendTrigger", "doneSuspend", "doneNotify"},
         Held(use, s') = Held(use, s), \A o \in Tasks : o \in Sides /\ o # t => Apart(t, o)
  PROVE  StreamInv'
<1>1. CallsOK /\ SchedOK /\ RingOK /\ NotesOK BY DEF StreamInv
<1>2. SchedOK' BY <1>1, StillEased, TaskSched DEF HeldPcs, WaitPcs
<1>3. Heard(t, c, k', note'[t], Ptr(use, t, s'), Due(use, t, s', me')) BY HeardElse
<1>4. NotesOK' BY <1>1, <1>3, PlainNotes
<1> QED BY <1>2, <1>4 DEF StreamInv

\* xStreamBufferSend and xStreamBufferReceive begin.
LEMMA BeginKeeps ==
  ASSUME StreamInv, UNCHANGED use, NEW t \in Tasks,
         \/ \E size \in use.sizes, wait \in use.waits[t] : BeginSend(t, size, wait)
         \/ \E room \in use.rooms, wait \in use.waits[t] : BeginReceive(t, room, wait)
  PROVE  StreamInv'
<1>1. CallsOK /\ SchedOK /\ RingOK BY DEF StreamInv
<1>2. k \in Kernels BY <1>1 DEF SchedOK, WokenOK
<1>3. CASE \E size \in use.sizes, wait \in use.waits[t] : BeginSend(t, size, wait)
  <2>1. PICK size \in use.sizes, wait \in use.waits[t] : BeginSend(t, size, wait) BY <1>3
  <2>2. CallsOK' /\ RingOK' /\ \E c : Stepped(t, c) /\ c.pc \in {"sendLook", "sendCheck"} /\ t = use.writer
    BY <1>1, <1>2, <2>1, BeginSendCalls
  <2>3. PICK c : Stepped(t, c) /\ c.pc \in {"sendLook", "sendCheck"} /\ t = use.writer BY <2>2
  <2>4. Running(k, t) /\ me[t].pc = "idle" /\ k' = k /\ note' = note /\ s' = s BY <2>1 DEF BeginSend, At
  <2>5. Held(use, s') = Held(use, s) /\ \A o \in Tasks : Apart(t, o) BY <2>4, NothingApart
  <2>6. t \in Sides BY <2>3 DEF Sides
  <2> QED BY <2>2, <2>3, <2>4, <2>5, <2>6, LookKeeps DEF HeldPcs, WaitPcs
<1>4. CASE \E room \in use.rooms, wait \in use.waits[t] : BeginReceive(t, room, wait)
  <2>1. PICK room \in use.rooms, wait \in use.waits[t] : BeginReceive(t, room, wait) BY <1>4
  <2>2. CallsOK' /\ RingOK' /\ \E c : Stepped(t, c) /\ c.pc \in {"receiveLook", "receiveCheck"} /\ t = use.reader
    BY <1>1, <2>1, BeginReceiveCalls
  <2>3. PICK c : Stepped(t, c) /\ c.pc \in {"receiveLook", "receiveCheck"} /\ t = use.reader BY <2>2
  <2>4. Running(k, t) /\ me[t].pc = "idle" /\ k' = k /\ note' = note /\ s' = s BY <2>1 DEF BeginReceive, At
  <2>5. Held(use, s') = Held(use, s) /\ \A o \in Tasks : Apart(t, o) BY <2>4, NothingApart
  <2>6. t \in Sides BY <2>3 DEF Sides
  <2> QED BY <2>2, <2>3, <2>4, <2>5, <2>6, LookKeeps DEF HeldPcs, WaitPcs
<1> QED BY <1>3, <1>4

\* The steps of a send or a receive that change nothing the other side looks at.
LEMMA QuietKeeps ==
  ASSUME StreamInv, UNCHANGED use, NEW t \in Tasks,
         SendTimeout(t) \/ SendLook(t) \/ SendCopy(t) \/ ReceiveLook(t) \/ ReceiveCopy(t)
  PROVE  StreamInv'
<1>1. CallsOK /\ SchedOK /\ RingOK BY DEF StreamInv
<1>2. k \in Kernels BY <1>1 DEF SchedOK, WokenOK
<1>3. /\ Running(k, t) /\ k' = k /\ note' = note
      /\ me[t].pc \in {"sendTimeout", "sendLook", "sendCopy", "receiveLook", "receiveCopy"}
  BY DEF SendTimeout, SendLook, SendCopy, ReceiveLook, ReceiveCopy, At
<1>4. /\ CallsOK' /\ RingOK'
      /\ \E c : Stepped(t, c) /\ c.pc \in {"idle", "sendCheck", "sendLook", "sendCopy", "sendHead", "receiveCopy", "receiveTail"}
      /\ s'.head = s.head /\ s'.tail = s.tail /\ s'.waitRx = s.waitRx /\ s'.waitTx = s.waitTx
  <2>1. CASE SendTimeout(t)
    <3>1. CallsOK' /\ RingOK' /\ \E c : Stepped(t, c) /\ c.pc \in {"sendCheck", "sendLook"} BY <1>1, <1>2, <2>1, TimeoutCalls
    <3> QED BY <2>1, <3>1 DEF SendTimeout
  <2>2. CASE SendLook(t)
    <3>1. CallsOK' /\ RingOK' /\ \E c : Stepped(t, c) /\ c.pc \in {"sendCopy", "idle"} BY <1>1, <2>2, SendLookCalls
    <3> QED BY <2>2, <3>1 DEF SendLook
  <2>3. CASE SendCopy(t)
    <3>1. /\ CallsOK' /\ RingOK' /\ Puts(use, s, <<>>, s') /\ s'.waitTx = s.waitTx /\ s'.waitRx = s.waitRx /\ s'.head = s.head
          /\ \E c : Stepped(t, c) /\ c.pc = "sendHead"
      BY <1>1, <2>3, SendCopyCalls
    <3> QED BY <3>1 DEF Puts
  <2>4. CASE ReceiveLook(t)
    <3>1. CallsOK' /\ RingOK' /\ \E c : Stepped(t, c) /\ c.pc = "receiveCopy" BY <1>1, <2>4, ReceiveLookCalls
    <3> QED BY <2>4, <3>1 DEF ReceiveLook
  <2>5. CASE ReceiveCopy(t)
    <3>1. CallsOK' /\ RingOK' /\ \E c : Stepped(t, c) /\ c.pc \in {"receiveTail", "idle"} BY <1>1, <2>5, ReceiveCopyCalls
    <3> QED BY <2>5, <3>1 DEF ReceiveCopy
  <2> QED BY <2>1, <2>2, <2>3, <2>4, <2>5
<1>5. PICK c : Stepped(t, c) /\ c.pc \in {"idle", "sendCheck", "sendLook", "sendCopy", "sendHead", "receiveCopy", "receiveTail"}
  BY <1>4
<1>6. t \in Sides BY <1>1, <1>3, SideSteps
<1>7. Held(use, s') = Held(use, s) BY <1>4 DEF Held
<1>8. \A o \in Tasks : Apart(t, o) BY <1>3, <1>4, NothingApart
<1> QED BY <1>3, <1>4, <1>5, <1>6, <1>7, <1>8, LookKeeps DEF HeldPcs, WaitPcs

\* The pointer is cleared after a wait, on the side of the task.
LEMMA NullKeeps ==
  ASSUME StreamInv, UNCHANGED use, NEW t \in Tasks, SendNull(t) \/ ReceiveNull(t)
  PROVE  StreamInv'
<1>1. CallsOK /\ SchedOK /\ RingOK BY DEF StreamInv
<1>2. Running(k, t) /\ k' = k /\ note' = note /\ me[t].pc \in {"sendNull", "receiveNull"}
  BY DEF SendNull, ReceiveNull, At
<1>3. CallsOK' /\ RingOK' /\ \E c : Stepped(t, c) /\ c.pc \in {"sendTimeout", "receiveLook"} BY <1>1, NullCalls
<1>4. PICK c : Stepped(t, c) /\ c.pc \in {"sendTimeout", "receiveLook"} BY <1>3
<1>5. t \in Sides BY <1>1, <1>2, SideSteps
<1>6. CallFits(use, t, me[t]) /\ s \in Buffers(use.length) /\ use.writer # use.reader BY <1>1, NowFacts, UseFacts DEF CallsOK
<1>7. /\ s'.head = s.head /\ s'.tail = s.tail
      /\ \A o \in Tasks : o \in Sides /\ o # t => Ptr(use, o, s') = Ptr(use, o, s)
  <2>1. CASE SendNull(t)
    <3>1. s' = [s EXCEPT !.waitTx = Null] /\ t = use.writer
      BY <1>6, <2>1 DEF SendNull, At, CallFits, WritePcs
    <3> QED BY <1>6, <3>1 DEF Buffers, Ptr, Sides
  <2>2. CASE ReceiveNull(t)
    <3>1. s' = [s EXCEPT !.waitRx = Null] /\ t = use.reader
      BY <1>6, <2>2 DEF ReceiveNull, At, CallFits, ReadPcs
    <3> QED BY <1>6, <3>1 DEF Buffers, Ptr, Sides
  <2> QED BY <2>1, <2>2
<1>8. Held(use, s') = Held(use, s) BY <1>7 DEF Held
<1>9. \A o \in Tasks : o \in Sides /\ o # t => Apart(t, o) BY <1>2, <1>7 DEF Apart, Awake
<1> QED BY <1>2, <1>3, <1>4, <1>5, <1>8, <1>9, LookKeeps DEF HeldPcs, WaitPcs

\* xTaskGenericNotifyWait ends.
LEMMA WaitDoneKeeps ==
  ASSUME StreamInv, UNCHANGED use, NEW t \in Tasks, NotifyWaitDone(t) PROVE StreamInv'
<1>1. CallsOK /\ SchedOK /\ RingOK BY DEF StreamInv
<1>2. /\ Running(k, t) /\ k' = k /\ s' = s /\ me[t].pc = "waitDone" /\ note' = [note EXCEPT ![t] = "none"]
  BY DEF NotifyWaitDone, At
<1>3. CallsOK' /\ RingOK' /\ \E c : Stepped(t, c) /\ c.pc \in {"sendNull", "receiveNull"} BY <1>1, WaitDoneCalls
<1>4. PICK c : Stepped(t, c) /\ c.pc \in {"sendNull", "receiveNull"} BY <1>3
<1>5. t \in Sides BY <1>1, <1>2, SideSteps
<1>6. note \in [Tasks -> {"none", "waiting", "received"}] BY <1>1 DEF CallsOK, SharedOK
<1>7. \A o \in Tasks : o \in Sides /\ o # t => Apart(t, o) BY <1>2, <1>6 DEF Apart, Awake
<1>8. Held(use, s') = Held(use, s) BY <1>2
<1> QED BY <1>2, <1>3, <1>4, <1>5, <1>7, <1>8, LookKeeps DEF HeldPcs, WaitPcs

\* The writer finds too little room, and from then on can be found itself.
LEMMA SendCheckKeeps ==
  ASSUME StreamInv, UNCHANGED use, NEW t \in Tasks, SendCheck(t) PROVE StreamInv'
<1>1. CallsOK /\ SchedOK /\ RingOK /\ NotesOK BY DEF StreamInv
<1>2. Running(k, t) /\ k' = k /\ me[t].pc = "sendCheck" BY DEF SendCheck, At
<1>3. /\ CallsOK' /\ RingOK' /\ t = use.writer /\ SameRing(s, s') /\ s'.waitRx = s.waitRx
      /\ \E c : /\ Stepped(t, c) /\ c.size = me[t].size
                /\ IF Room(use, s) < Required(me[t].size)
                   THEN c.pc = "waitSuspend" /\ s'.waitTx = t /\ note'[t] # "received" /\ \A u \in Tasks : u # t => note'[u] = note[u]
                   ELSE c.pc = "sendLook" /\ note' = note /\ s' = s
  BY <1>1, SendCheckCalls
<1>4. PICK c : /\ Stepped(t, c) /\ c.size = me[t].size
               /\ IF Room(use, s) < Required(me[t].size)
                  THEN c.pc = "waitSuspend" /\ s'.waitTx = t /\ note'[t] # "received" /\ \A u \in Tasks : u # t => note'[u] = note[u]
                  ELSE c.pc = "sendLook" /\ note' = note /\ s' = s
  BY <1>3
<1>5. t \in Sides /\ t # use.reader BY <1>1, <1>3, NowFacts, UseFacts DEF Sides
<1>6. Held(use, s') = Held(use, s) /\ Room(use, s') = Room(use, s) BY <1>3, SameFits
<1>7. c.pc \in {"waitSuspend", "sendLook"} BY <1>4
<1>8. SchedOK'
  <2>1. Eased(k, k') BY <1>1, <1>2, StillEased
  <2> QED BY <1>1, <1>2, <1>4, <1>5, <1>7, <2>1, TaskSched DEF HeldPcs
<1>9. \A o \in Tasks : o \in Sides /\ o # t => Apart(t, o) BY <1>2, <1>3, <1>4 DEF Apart, Awake, Ptr, Sides
<1>10. Heard(t, c, k', note'[t], Ptr(use, t, s'), Due(use, t, s', me'))
  <2>1. CASE Room(use, s) < Required(me[t].size)
    <3>1. c.pc = "waitSuspend" /\ s'.waitTx = t BY <1>4, <2>1
    <3>2. Ptr(use, t, s') = t BY <1>5, <3>1 DEF Ptr
    <3>3. me'[t] = c BY <1>1, <1>4, SteppedFacts
    <3>4. Room(use, s') < Needs(use, me'[t].size) BY <1>4, <1>6, <2>1, <3>3, RequiredIs
    <3>5. Due(use, t, s', me') BY <1>5, <3>4 DEF Due
    <3> QED BY <3>1, <3>2, <3>5 DEF Heard, BlockedPcs
  <2>2. CASE ~(Room(use, s) < Required(me[t].size))
    <3>1. c.pc = "sendLook" BY <1>4, <2>2
    <3> QED BY <3>1, HeardElse DEF WaitPcs
  <2> QED BY <2>1, <2>2
<1>11. NotesOK' BY <1>1, <1>2, <1>4, <1>5, <1>6, <1>9, <1>10, PlainNotes
<1> QED BY <1>3, <1>8, <1>11 DEF StreamInv

\* The reader finds too little.
LEMMA ReceiveCheckKeeps ==
  ASSUME StreamInv, UNCHANGED use, NEW t \in Tasks, ReceiveCheck(t) PROVE StreamInv'
<1>1. CallsOK /\ SchedOK /\ RingOK /\ NotesOK BY DEF StreamInv
<1>2. Running(k, t) /\ k' = k /\ me[t].pc = "receiveCheck" BY DEF ReceiveCheck, At
<1>3. /\ CallsOK' /\ RingOK' /\ t = use.reader /\ SameRing(s, s') /\ s'.waitTx = s.waitTx
      /\ \E c : /\ Stepped(t, c)
                /\ IF Held(use, s) <= Threshold
                   THEN c.pc = "waitSuspend" /\ s'.waitRx = t /\ note'[t] # "received" /\ \A u \in Tasks : u # t => note'[u] = note[u]
                   ELSE c.pc = "receiveCopy" /\ note' = note /\ s' = s
  BY <1>1, ReceiveCheckCalls
<1>4. PICK c : /\ Stepped(t, c)
               /\ IF Held(use, s) <= Threshold
                  THEN c.pc = "waitSuspend" /\ s'.waitRx = t /\ note'[t] # "received" /\ \A u \in Tasks : u # t => note'[u] = note[u]
                  ELSE c.pc = "receiveCopy" /\ note' = note /\ s' = s
  BY <1>3
<1>5. t \in Sides BY <1>3 DEF Sides
<1>6. Held(use, s') = Held(use, s) BY <1>3, SameFits
<1>7. c.pc \in {"waitSuspend", "receiveCopy"} BY <1>4
<1>8. SchedOK'
  <2>1. Eased(k, k') BY <1>1, <1>2, StillEased
  <2> QED BY <1>1, <1>2, <1>4, <1>5, <1>7, <2>1, TaskSched DEF HeldPcs
<1>9. \A o \in Tasks : o \in Sides /\ o # t => Apart(t, o) BY <1>2, <1>3, <1>4 DEF Apart, Awake, Ptr, Sides
<1>10. Heard(t, c, k', note'[t], Ptr(use, t, s'), Due(use, t, s', me'))
  <2>1. CASE Held(use, s) <= Threshold
    <3>1. c.pc = "waitSuspend" /\ s'.waitRx = t BY <1>4, <2>1
    <3>2. Ptr(use, t, s') = t BY <1>3, <3>1 DEF Ptr
    <3>3. Low(use, Held(use, s')) BY <1>1, <1>6, <2>1, NowFacts, ThresholdLow
    <3>4. Due(use, t, s', me') BY <1>3, <3>3 DEF Due
    <3> QED BY <3>1, <3>2, <3>4 DEF Heard, BlockedPcs
  <2>2. CASE ~(Held(use, s) <= Threshold)
    <3>1. c.pc = "receiveCopy" BY <1>4, <2>2
    <3> QED BY <3>1, HeardElse DEF WaitPcs
  <2> QED BY <2>1, <2>2
<1>11. NotesOK' BY <1>1, <1>2, <1>4, <1>5, <1>6, <1>9, <1>10, PlainNotes
<1> QED BY <1>3, <1>8, <1>11 DEF StreamInv

\* xTaskGenericNotifyWait suspends the scheduler.
LEMMA WaitSuspendKeeps ==
  ASSUME StreamInv, UNCHANGED use, NEW t \in Tasks, NotifyWaitSuspend(t) PROVE StreamInv'
<1>1. CallsOK /\ SchedOK /\ RingOK /\ NotesOK BY DEF StreamInv
<1>2. Running(k, t) /\ k' = vTaskSuspendAll(k) /\ note' = note /\ s' = s /\ me[t].pc = "waitSuspend" BY DEF NotifyWaitSuspend, At
<1>3. CallsOK' /\ RingOK' /\ \E c : Stepped(t, c) /\ c.pc = "waitMark" /\ Rest(c, me[t]) BY <1>1, WaitSuspendCalls
<1>4. PICK c : Stepped(t, c) /\ c.pc = "waitMark" /\ Rest(c, me[t]) BY <1>3
<1>5. t \in Sides BY <1>1, <1>2, SideSteps
<1>6. SchedOK' /\ k'.st = k.st /\ k'.pending = k.pending
  <2>1. me[t].pc \notin HeldPcs \cup BlockedPcs /\ c.pc \in HeldPcs \ {"waitResume"} BY <1>2, <1>4 DEF HeldPcs, BlockedPcs
  <2> QED BY <1>1, <1>2, <1>4, <1>5, <2>1, SuspendSched
<1>7. Held(use, s') = Held(use, s) BY <1>2
<1>8. \A o \in Tasks : Apart(t, o) BY <1>2, <1>6 DEF Apart, Awake
<1>9. Heard(t, c, k', note'[t], Ptr(use, t, s'), Due(use, t, s', me'))
  <2>1. Heard(t, me[t], k, note[t], Ptr(use, t, s), Due(use, t, s, me)) BY <1>1, <1>5 DEF NotesOK
  <2>2. c.size = me[t].size BY <1>4 DEF Rest
  <2>3. Due(use, t, s, me) => Due(use, t, s', me') BY <1>1, <1>4, <1>5, <1>7, <2>2, SameOwnDue
  <2>4. note'[t] # "received" => Ptr(use, t, s') = t /\ Due(use, t, s', me') BY <1>2, <2>1, <2>3 DEF Heard, Listening
  <2> QED BY <1>4, <2>4 DEF Heard, Listening, BlockedPcs
<1>10. NotesOK' BY <1>1, <1>2, <1>4, <1>5, <1>7, <1>8, <1>9, PlainNotes
<1> QED BY <1>3, <1>6, <1>10 DEF StreamInv

\* It looks whether the notification has come, and marks itself as waiting.
LEMMA WaitMarkKeeps ==
  ASSUME StreamInv, UNCHANGED use, NEW t \in Tasks, NotifyWaitMark(t) PROVE StreamInv'
<1>1. CallsOK /\ SchedOK /\ RingOK /\ NotesOK BY DEF StreamInv
<1>2. Running(k, t) /\ k' = k /\ s' = s /\ me[t].pc = "waitMark" BY DEF NotifyWaitMark, At
<1>3. /\ CallsOK' /\ RingOK'
      /\ \E c : /\ Stepped(t, c) /\ c.size = me[t].size
                /\ IF note[t] = "received" THEN c.pc = "waitResume" /\ note' = note
                   ELSE c.pc = "waitBlock" /\ note' = [note EXCEPT ![t] = "waiting"]
  BY <1>1, WaitMarkCalls
<1>4. PICK c : /\ Stepped(t, c) /\ c.size = me[t].size
               /\ IF note[t] = "received" THEN c.pc = "waitResume" /\ note' = note
                  ELSE c.pc = "waitBlock" /\ note' = [note EXCEPT ![t] = "waiting"]
  BY <1>3
<1>5. t \in Sides BY <1>1, <1>2, SideSteps
<1>6. c.pc \in {"waitResume", "waitBlock"} BY <1>4
<1>7. SchedOK'
  <2>1. Eased(k, k') BY <1>1, <1>2, StillEased
  <2> QED BY <1>1, <1>2, <1>4, <1>5, <1>6, <2>1, TaskSched DEF HeldPcs
<1>8. Held(use, s') = Held(use, s) BY <1>2
<1>9. note \in [Tasks -> {"none", "waiting", "received"}] BY <1>1 DEF CallsOK, SharedOK
<1>10. \A o \in Tasks : o \in Sides /\ o # t => Apart(t, o) BY <1>2, <1>4, <1>9 DEF Apart, Awake
<1>11. Heard(t, c, k', note'[t], Ptr(use, t, s'), Due(use, t, s', me'))
  <2>1. CASE note[t] = "received"
    <3>1. c.pc = "waitResume" BY <1>4, <2>1
    <3>2. k'.st[t] = "ready" BY <1>1, <1>2, <1>5, RunnerReady
    <3> QED BY <3>1, <3>2 DEF Heard, Listening, BlockedPcs
  <2>2. CASE note[t] # "received"
    <3>1. c.pc = "waitBlock" /\ note'[t] = "waiting" BY <1>4, <1>9, <2>2
    <3>2. Heard(t, me[t], k, note[t], Ptr(use, t, s), Due(use, t, s, me)) BY <1>1, <1>5 DEF NotesOK
    <3>3. Due(use, t, s, me) => Due(use, t, s', me') BY <1>1, <1>4, <1>5, <1>8, SameOwnDue
    <3>4. Ptr(use, t, s') = t /\ Due(use, t, s', me') BY <1>2, <2>2, <3>2, <3>3 DEF Heard, Listening
    <3> QED BY <3>1, <3>4 DEF Heard
  <2> QED BY <2>1, <2>2
<1>12. NotesOK' BY <1>1, <1>2, <1>4, <1>5, <1>8, <1>10, <1>11, PlainNotes
<1> QED BY <1>3, <1>7, <1>12 DEF StreamInv

\* It goes to sleep, unless it has been woken meanwhile and is pending.
LEMMA WaitBlockKeeps ==
  ASSUME StreamInv, UNCHANGED use, NEW t \in Tasks, NotifyWaitBlock(t) PROVE StreamInv'
<1>1. CallsOK /\ SchedOK /\ RingOK /\ NotesOK BY DEF StreamInv
<1>2. Running(k, t) /\ note' = note /\ s' = s /\ me[t].pc = "waitBlock" BY DEF NotifyWaitBlock, At
<1>3. CallsOK' /\ RingOK' /\ \E c : Stepped(t, c) /\ c.pc = "waitResume" /\ Rest(c, me[t]) BY <1>1, WaitBlockCalls
<1>4. PICK c : Stepped(t, c) /\ c.pc = "waitResume" /\ Rest(c, me[t]) BY <1>3
<1>5. t \in Sides BY <1>1, <1>2, SideSteps
<1>6. SchedOK' /\ k'.pending = k.pending /\ \A u \in Tasks : u # t => k'.st[u] = k.st[u] BY <1>1, BlockSched
<1>7. Held(use, s') = Held(use, s) BY <1>2
<1>8. \A o \in Tasks : o \in Sides /\ o # t => Apart(t, o) BY <1>2, <1>6 DEF Apart, Awake
<1>9. Heard(t, c, k', note'[t], Ptr(use, t, s'), Due(use, t, s', me'))
  <2>1. Heard(t, me[t], k, note[t], Ptr(use, t, s), Due(use, t, s, me)) BY <1>1, <1>5 DEF NotesOK
  <2>2. c.size = me[t].size BY <1>4 DEF Rest
  <2>3. Due(use, t, s, me) => Due(use, t, s', me') BY <1>1, <1>4, <1>5, <1>7, <2>2, SameOwnDue
  <2>4. t \notin ToSet(k'.pending) => Ptr(use, t, s') = t /\ note'[t] = "waiting" /\ Due(use, t, s', me')
    BY <1>2, <1>6, <2>1, <2>3 DEF Heard, Listening
  <2> QED BY <1>4, <2>4 DEF Heard, Listening, BlockedPcs
<1>10. NotesOK' BY <1>1, <1>2, <1>4, <1>5, <1>7, <1>8, <1>9, PlainNotes
<1> QED BY <1>3, <1>6, <1>10 DEF StreamInv

\* It asks for the switch.
LEMMA WaitYieldKeeps ==
  ASSUME StreamInv, UNCHANGED use, NEW t \in Tasks, NotifyWaitYield(t) PROVE StreamInv'
<1>1. CallsOK /\ SchedOK /\ RingOK /\ NotesOK BY DEF StreamInv
<1>2. Running(k, t) /\ k' = portYIELD(k) /\ note' = note /\ s' = s /\ me[t].pc = "waitYield" BY DEF NotifyWaitYield, At
<1>3. CallsOK' /\ RingOK' /\ \E c : Stepped(t, c) /\ c.pc = "waitDone" /\ Rest(c, me[t]) BY <1>1, WaitYieldCalls
<1>4. PICK c : Stepped(t, c) /\ c.pc = "waitDone" /\ Rest(c, me[t]) BY <1>3
<1>5. t \in Sides BY <1>1, <1>2, SideSteps
<1>6. SchedOK' /\ k'.st = k.st /\ k'.pending = k.pending BY <1>1, <1>2, <1>4, <1>5, YieldSched
<1>7. Held(use, s') = Held(use, s) BY <1>2
<1>8. \A o \in Tasks : Apart(t, o) BY <1>2, <1>6 DEF Apart, Awake
<1>9. Heard(t, c, k', note'[t], Ptr(use, t, s'), Due(use, t, s', me'))
  <2>1. Heard(t, me[t], k, note[t], Ptr(use, t, s), Due(use, t, s, me)) BY <1>1, <1>5 DEF NotesOK
  <2>2. c.size = me[t].size BY <1>4 DEF Rest
  <2>3. Due(use, t, s, me) => Due(use, t, s', me') BY <1>1, <1>4, <1>5, <1>7, <2>2, SameOwnDue
  <2> QED BY <1>2, <1>4, <1>6, <2>1, <2>3 DEF Heard, Listening, BlockedPcs
<1>10. NotesOK' BY <1>1, <1>2, <1>4, <1>5, <1>7, <1>8, <1>9, PlainNotes
<1> QED BY <1>3, <1>6, <1>10 DEF StreamInv

\* After xTaskResumeAll the other side is heard as before.
LEMMA ResumeNotes ==
  ASSUME CallsOK, SchedOK, NotesOK, UNCHANGED <<use, note, s>>, NEW t \in Tasks, t \in Sides, Running(k, t), NEW c, Stepped(t, c),
         me[t].pc \notin {"sendTrigger", "doneSuspend", "doneNotify"},
         \A u \in Tasks : k.st[u] = "ready" \/ u \in ToSet(k.pending) => k'.st[u] = "ready",
         Heard(t, c, k', note[t], Ptr(use, t, s), Due(use, t, s', me'))
  PROVE  NotesOK'
<1>1. Heard(t, me'[t], k', note'[t], Ptr(use, t, s'), Due(use, t, s', me')) BY SteppedFacts
<1>2. ASSUME NEW o \in Tasks, o \in Sides, o # t
      PROVE  Heard(o, me'[o], k', note'[o], Ptr(use, o, s'), Due(use, o, s', me'))
  <2>1. Due(use, o, s, me) => Due(use, o, s', me') BY <1>2, SameDue
  <2>2. me'[o] = me[o] /\ note'[o] = note[o] /\ Ptr(use, o, s') = Ptr(use, o, s) BY <1>2, SteppedFacts
  <2>3. Heard(o, me[o], k, note[o], Ptr(use, o, s), Due(use, o, s, me)) BY <1>2 DEF NotesOK
  <2>4. Due(use, o, s, me) \in BOOLEAN /\ Due(use, o, s', me') \in BOOLEAN BY DueBoolean
  <2>5. me[o].pc # "waitBlock" BY <1>2, RunnerHolds DEF HeldPcs
  <2>6. k.st[o] = "ready" \/ o \in ToSet(k.pending) => k'.st[o] = "ready" BY <1>2
  <2>7. Heard(o, me[o], k', note[o], Ptr(use, o, s), Due(use, o, s', me'))
    <3>1. PICK c0 : c0 = me[o] OBVIOUS
    <3>2. PICK y : y = k' OBVIOUS
    <3>3. PICK E \in BOOLEAN : E = Due(use, o, s', me') BY <2>4
    <3>4. PICK D \in BOOLEAN : D = Due(use, o, s, me) BY <2>4
    <3>5. PICK p : p = Ptr(use, o, s) OBVIOUS
    <3>6. Heard(o, c0, k, note[o], p, D) /\ (D => E) /\ c0.pc # "waitBlock" BY <2>1, <2>3, <2>5, <3>1, <3>3, <3>4, <3>5
    <3>7. k.st[o] = "ready" \/ o \in ToSet(k.pending) => y.st[o] = "ready" BY <2>6, <3>2
    <3>8. Heard(o, c0, y, note[o], p, E) BY ONLY <3>6, <3>7, D \in BOOLEAN, E \in BOOLEAN DEF Heard, Listening
    <3> QED BY <3>1, <3>2, <3>3, <3>5, <3>8
  <2> QED BY <2>2, <2>7
<1> QED BY <1>1, <1>2, NotesFrom

\* xTaskGenericNotifyWait resumes the scheduler.
LEMMA WaitResumeKeeps ==
  ASSUME StreamInv, UNCHANGED use, NEW t \in Tasks, NotifyWaitResume(t) PROVE StreamInv'
<1>1. CallsOK /\ SchedOK /\ RingOK /\ NotesOK BY DEF StreamInv
<1>2. Running(k, t) /\ k' = xTaskResumeAll(k) /\ note' = note /\ s' = s /\ me[t].pc = "waitResume" BY DEF NotifyWaitResume, At
<1>3. /\ CallsOK' /\ RingOK'
      /\ \E c : Stepped(t, c) /\ c.pc = (IF me[t].block /\ ~k'.yield THEN "waitYield" ELSE "waitDone") /\ Rest(c, me[t])
  BY <1>1, WaitResumeCalls
<1>4. PICK c : Stepped(t, c) /\ c.pc = (IF me[t].block /\ ~k'.yield THEN "waitYield" ELSE "waitDone") /\ Rest(c, me[t]) BY <1>3
<1>5. t \in Sides BY <1>1, <1>2, SideSteps
<1>6. c.pc \in {"waitYield", "waitDone"} BY <1>4
<1>7. SchedOK' /\ \A u \in Tasks : k.st[u] = "ready" \/ u \in ToSet(k.pending) => k'.st[u] = "ready"
  <2>1. TaskOK(t) BY <1>1 DEF SchedOK
  <2>2. c.pc \in {"waitYield"} \/ k'.yield \/ k.st[t] = "ready" BY <1>2, <1>4, <2>1 DEF TaskOK
  <2>3. me[t].pc \in HeldPcs /\ c.pc \notin HeldPcs /\ c.pc \in BlockedPcs BY <1>2, <1>6 DEF HeldPcs, BlockedPcs
  <2> QED BY <1>1, <1>2, <1>4, <1>5, <2>2, <2>3, ResumeSched
<1>8. Heard(t, c, k', note[t], Ptr(use, t, s), Due(use, t, s', me'))
  <2>1. Heard(t, me[t], k, note[t], Ptr(use, t, s), Due(use, t, s, me)) BY <1>1, <1>5 DEF NotesOK
  <2>2. c.size = me[t].size /\ Held(use, s') = Held(use, s) BY <1>2, <1>4 DEF Rest
  <2>3. Due(use, t, s, me) => Due(use, t, s', me') BY <1>1, <1>4, <1>5, <2>2, SameOwnDue
  <2>4. k'.st[t] # "ready" => k.st[t] # "ready" /\ t \notin ToSet(k.pending) BY <1>7
  <2>5. k'.st[t] # "ready" => Ptr(use, t, s) = t /\ note[t] = "waiting" /\ Due(use, t, s', me')
    BY <1>2, <2>1, <2>3, <2>4 DEF Heard, Listening, BlockedPcs
  <2> QED BY <1>6, <2>5 DEF Heard, Listening, BlockedPcs
<1>9. NotesOK' BY <1>1, <1>2, <1>4, <1>5, <1>7, <1>8, ResumeNotes
<1> QED BY <1>3, <1>7, <1>9 DEF StreamInv

\* sbSEND_COMPLETED and sbRECEIVE_COMPLETED suspend the scheduler,
LEMMA DoneSuspendKeeps ==
  ASSUME StreamInv, UNCHANGED use, NEW t \in Tasks, CompletedSuspend(t) PROVE StreamInv'
<1>1. CallsOK /\ SchedOK /\ RingOK /\ NotesOK BY DEF StreamInv
<1>2. Running(k, t) /\ k' = vTaskSuspendAll(k) /\ note' = note /\ s' = s /\ me[t].pc = "doneSuspend" BY DEF CompletedSuspend, At
<1>3. CallsOK' /\ RingOK' /\ \E c : Stepped(t, c) /\ c.pc = "doneNotify" BY <1>1, DoneSuspendCalls
<1>4. PICK c : Stepped(t, c) /\ c.pc = "doneNotify" BY <1>3
<1>5. t \in Sides BY <1>1, <1>2, SideSteps
<1>6. SchedOK' /\ k'.st = k.st /\ k'.pending = k.pending
  <2>1. me[t].pc \notin HeldPcs \cup BlockedPcs /\ c.pc \in HeldPcs \ {"waitResume"} BY <1>2, <1>4 DEF HeldPcs, BlockedPcs
  <2> QED BY <1>1, <1>2, <1>4, <1>5, <2>1, SuspendSched
<1>7. Held(use, s') = Held(use, s) BY <1>2
<1>8. \A o \in Tasks : Apart(t, o) BY <1>2, <1>6 DEF Apart, Awake
<1>9. Heard(t, c, k', note'[t], Ptr(use, t, s'), Due(use, t, s', me')) BY <1>4, HeardElse DEF WaitPcs
<1>10. NotesOK' BY <1>1, <1>2, <1>4, <1>5, <1>7, <1>8, <1>9, PlainNotes
<1> QED BY <1>3, <1>6, <1>10 DEF StreamInv

\* notify the side whose pointer is set,
LEMMA DoneNotifyKeeps ==
  ASSUME StreamInv, UNCHANGED use, NEW t \in Tasks, CompletedNotify(t) PROVE StreamInv'
<1>1. CallsOK /\ SchedOK /\ RingOK /\ NotesOK BY DEF StreamInv
<1>2. Running(k, t) /\ me[t].pc = "doneNotify" BY DEF CompletedNotify, At
<1>3. /\ CallsOK' /\ RingOK' /\ SameRing(s, s') /\ \E c : Stepped(t, c) /\ c.pc = "doneResume"
      /\ IF Waiter(t) = Null THEN k' = k /\ note' = note /\ s' = s
         ELSE Waiter(t) \in Tasks /\ k' = xTaskGenericNotify(k, Waiter(t)) /\ note' = [note EXCEPT ![Waiter(t)] = "received"]
  BY <1>1, DoneNotifyCalls
<1>4. PICK c : Stepped(t, c) /\ c.pc = "doneResume" BY <1>3
<1>5. t \in Sides BY <1>1, <1>2, SideSteps
<1>6. WokenOK(k) /\ NoEvents(k) BY <1>1 DEF SchedOK
<1>7. /\ Eased(k, k')
      /\ Waiter(t) # Null /\ note[Waiter(t)] = "waiting" => k'.st[Waiter(t)] = "ready"
  <2>1. CASE Waiter(t) = Null BY <1>1, <1>3, <2>1, StillEased
  <2>2. CASE Waiter(t) # Null BY <1>3, <1>6, <2>2, NotifyEases
  <2> QED BY <2>1, <2>2
<1>8. SchedOK' BY <1>1, <1>2, <1>4, <1>5, <1>7, TaskSched DEF HeldPcs
<1>9. Heard(t, me'[t], k', note'[t], Ptr(use, t, s'), Due(use, t, s', me'))
  <2>1. me'[t] = c BY <1>1, <1>4, SteppedFacts
  <2> QED BY <1>4, <2>1, HeardElse DEF WaitPcs
<1>10. ASSUME NEW o \in Tasks, o \in Sides, o # t
       PROVE  Heard(o, me'[o], k', note'[o], Ptr(use, o, s'), Due(use, o, s', me'))
  <2>1. use.writer # use.reader /\ Null \notin Tasks BY <1>1, NowFacts, UseFacts
  <2>2. Waiter(t) = Ptr(use, o, s) /\ Waiter(t) \in {Null, o}
    <3>1. s.waitRx \in {Null, use.reader} /\ s.waitTx \in {Null, use.writer} BY <1>1 DEF CallsOK, SharedOK
    <3> QED BY <1>5, <1>10, <2>1, <3>1 DEF Waiter, Ptr, Sides
  <2>3. me'[o] = me[o] /\ me[o].pc # "waitBlock"
    <3>1. me'[o] = me[o] BY <1>1, <1>4, <1>10, SteppedFacts
    <3> QED BY <1>1, <1>2, <1>10, <3>1, RunnerHolds DEF HeldPcs
  <2>4. Heard(o, me[o], k, note[o], Ptr(use, o, s), Due(use, o, s, me)) BY <1>1, <1>10 DEF NotesOK
  <2>5. CASE Waiter(t) = Null
    <3>1. k' = k /\ note' = note BY <1>3, <2>5
    <3>2. ~Listening(o, me[o], k, note[o]) BY <2>1, <2>2, <2>4, <2>5 DEF Heard
    <3> QED BY <2>3, <3>1, <3>2 DEF Heard
  <2>6. CASE Waiter(t) = o
    <3>1. o # Null BY <2>1
    <3>2. note'[o] = "received"
      <4>1. note \in [Tasks -> {"none", "waiting", "received"}] BY <1>1 DEF CallsOK, SharedOK
      <4>2. note' = [note EXCEPT ![o] = "received"] BY <1>3, <2>6, <3>1
      <4> QED BY <4>1, <4>2
    <3>3. note[o] = "waiting" => k'.st[o] = "ready" BY <1>7, <2>6, <3>1
    <3>4. Awake(k, k', o) BY <1>7 DEF Eased, Awake
    <3>5. Heard(o, me[o], k', "received", Ptr(use, o, s'), Due(use, o, s', me')) BY <2>3, <2>4, <3>3, <3>4, HeardNotified
    <3> QED BY <2>3, <3>2, <3>5
  <2> QED BY <2>2, <2>5, <2>6
<1>11. NotesOK' BY <1>9, <1>10, NotesFrom
<1> QED BY <1>3, <1>8, <1>11 DEF StreamInv

\* and resume it.
LEMMA DoneResumeKeeps ==
  ASSUME StreamInv, UNCHANGED use, NEW t \in Tasks, CompletedResume(t) PROVE StreamInv'
<1>1. CallsOK /\ SchedOK /\ RingOK /\ NotesOK BY DEF StreamInv
<1>2. Running(k, t) /\ k' = xTaskResumeAll(k) /\ note' = note /\ s' = s /\ me[t].pc = "doneResume" BY DEF CompletedResume, At
<1>3. CallsOK' /\ RingOK' /\ \E c : Stepped(t, c) /\ c.pc = "idle" BY <1>1, DoneResumeCalls
<1>4. PICK c : Stepped(t, c) /\ c.pc = "idle" BY <1>3
<1>5. t \in Sides BY <1>1, <1>2, SideSteps
<1>6. SchedOK' /\ \A u \in Tasks : k.st[u] = "ready" \/ u \in ToSet(k.pending) => k'.st[u] = "ready"
  <2>1. k.st[t] = "ready" BY <1>1, <1>2, <1>5, RunnerReady
  <2>2. me[t].pc \in HeldPcs /\ c.pc \notin HeldPcs BY <1>2, <1>4 DEF HeldPcs
  <2> QED BY <1>1, <1>2, <1>4, <1>5, <2>1, <2>2, ResumeSched
<1>7. Heard(t, c, k', note[t], Ptr(use, t, s), Due(use, t, s', me')) BY <1>4, HeardElse DEF WaitPcs
<1>8. NotesOK' BY <1>1, <1>2, <1>4, <1>5, <1>6, <1>7, ResumeNotes
<1> QED BY <1>3, <1>6, <1>8 DEF StreamInv

\* A step after which its task is on its way to notify the other side.
LEMMA WayKeeps ==
  ASSUME StreamInv, CallsOK', RingOK', UNCHANGED <<use, k, note>>, s'.waitRx = s.waitRx, s'.waitTx = s.waitTx,
         NEW t \in Tasks, t \in Sides, Running(k, t), me[t].pc \notin HeldPcs \cup BlockedPcs,
         NEW c, Stepped(t, c), c.pc \in {"sendTrigger", "doneSuspend"}
  PROVE  StreamInv'
<1>1. CallsOK /\ SchedOK /\ RingOK /\ NotesOK BY DEF StreamInv
<1>2. SchedOK' BY <1>1, StillEased, TaskSched DEF HeldPcs, BlockedPcs
<1>3. me'[t] = c BY <1>1, SteppedFacts
<1>4. Heard(t, me'[t], k', note'[t], Ptr(use, t, s'), Due(use, t, s', me')) BY <1>3, HeardElse DEF WaitPcs
<1>5. ASSUME NEW o \in Tasks, o \in Sides, o # t
      PROVE  Heard(o, me'[o], k', note'[o], Ptr(use, o, s'), Due(use, o, s', me'))
  <2>1. Way(t, me') BY <1>3 DEF Way
  <2>2. Due(use, o, s', me') BY <1>5, <2>1 DEF Due, Sides
  <2>3. Apart(t, o) BY NothingApart
  <2> QED BY <1>1, <1>5, <2>2, <2>3, OtherHeard
<1>6. NotesOK' BY <1>4, <1>5, NotesFrom
<1> QED BY <1>2, <1>6 DEF StreamInv

\* xHead moves: the trigger level is looked at next.
LEMMA SendHeadKeeps ==
  ASSUME StreamInv, UNCHANGED use, NEW t \in Tasks, SendHead(t) PROVE StreamInv'
<1>1. CallsOK /\ SchedOK /\ RingOK /\ NotesOK BY DEF StreamInv
<1>2. Running(k, t) /\ k' = k /\ note' = note /\ me[t].pc = "sendHead" BY DEF SendHead, At
<1>3. /\ CallsOK' /\ RingOK' /\ s'.waitTx = s.waitTx /\ s'.waitRx = s.waitRx
      /\ \E c : Stepped(t, c) /\ c.pc = "sendTrigger"
  BY <1>1, SendHeadCalls
<1>4. PICK c : Stepped(t, c) /\ c.pc = "sendTrigger" BY <1>3
<1>5. t \in Sides BY <1>1, <1>2, SideSteps
<1> QED BY <1>2, <1>3, <1>4, <1>5, WayKeeps DEF HeldPcs, BlockedPcs

\* xTail moves: the writer is notified next.
LEMMA ReceiveTailKeeps ==
  ASSUME StreamInv, UNCHANGED use, NEW t \in Tasks, ReceiveTail(t) PROVE StreamInv'
<1>1. CallsOK /\ SchedOK /\ RingOK /\ NotesOK BY DEF StreamInv
<1>2. Running(k, t) /\ k' = k /\ note' = note /\ me[t].pc = "receiveTail" BY DEF ReceiveTail, At
<1>3. /\ CallsOK' /\ RingOK' /\ s'.waitTx = s.waitTx /\ s'.waitRx = s.waitRx
      /\ \E c : Stepped(t, c) /\ c.pc = "doneSuspend"
  BY <1>1, ReceiveTailCalls
<1>4. PICK c : Stepped(t, c) /\ c.pc = "doneSuspend" BY <1>3
<1>5. t \in Sides BY <1>1, <1>2, SideSteps
<1> QED BY <1>2, <1>3, <1>4, <1>5, WayKeeps DEF HeldPcs, BlockedPcs

\* Less than the trigger level is too little for a reader that waits.
LEMMA BelowTrigger ==
  ASSUME use \in Uses, NEW n \in Nat, ~(n >= use.trigger) PROVE Low(use, n)
<1>1. use.trigger \in Nat
  <2>1. use.length \in Nat /\ use.trigger \in 1 .. use.length - 1 BY UseFacts
  <2> QED BY <2>1
<1> QED BY <1>1 DEF Low

\* The trigger level: below it the reader is left to wait.
LEMMA SendTriggerKeeps ==
  ASSUME StreamInv, UNCHANGED use, NEW t \in Tasks, SendTrigger(t) PROVE StreamInv'
<1>1. CallsOK /\ SchedOK /\ RingOK /\ NotesOK BY DEF StreamInv
<1>2. Running(k, t) /\ k' = k /\ note' = note /\ s' = s /\ me[t].pc = "sendTrigger" BY DEF SendTrigger, At
<1>3. /\ CallsOK' /\ RingOK' /\ t = use.writer
      /\ \E c : Stepped(t, c) /\ c.pc = IF Held(use, s) >= use.trigger THEN "doneSuspend" ELSE "idle"
  BY <1>1, SendTriggerCalls
<1>4. PICK c : Stepped(t, c) /\ c.pc = IF Held(use, s) >= use.trigger THEN "doneSuspend" ELSE "idle" BY <1>3
<1>5. t \in Sides BY <1>1, <1>2, SideSteps
<1>6. CASE Held(use, s) >= use.trigger
  <2>1. c.pc = "doneSuspend" BY <1>4, <1>6
  <2> QED BY <1>2, <1>3, <1>4, <1>5, <2>1, WayKeeps DEF HeldPcs, BlockedPcs
<1>7. CASE ~(Held(use, s) >= use.trigger)
  <2>1. c.pc = "idle" BY <1>4, <1>7
  <2>2. SchedOK' BY <1>1, <1>2, <1>4, <1>5, <2>1, StillEased, TaskSched DEF HeldPcs
  <2>3. Heard(t, me'[t], k', note'[t], Ptr(use, t, s'), Due(use, t, s', me'))
    <3>1. me'[t] = c BY <1>1, <1>4, SteppedFacts
    <3> QED BY <2>1, <3>1, HeardElse DEF WaitPcs
  <2>4. ASSUME NEW o \in Tasks, o \in Sides, o # t
        PROVE  Heard(o, me'[o], k', note'[o], Ptr(use, o, s'), Due(use, o, s', me'))
    <3>1. o = use.reader BY <1>3, <2>4 DEF Sides
    <3>2. Low(use, Held(use, s')) BY <1>1, <1>2, <1>7, NowFacts, BelowTrigger
    <3>3. Due(use, o, s', me') BY <3>1, <3>2 DEF Due
    <3>4. Apart(t, o) BY <1>2, NothingApart
    <3> QED BY <1>1, <1>4, <2>4, <3>3, <3>4, OtherHeard
  <2>5. NotesOK' BY <2>3, <2>4, NotesFrom
  <2> QED BY <1>3, <2>2, <2>5 DEF StreamInv
<1> QED BY <1>6, <1>7

\* The invariant after an interrupt.
LEMMA NotesAll ==
  ASSUME UNCHANGED use, \A o \in Sides \cap Tasks : Heard(o, me'[o], k', note'[o], Ptr(use, o, s'), Due(use, o, s', me'))
  PROVE  NotesOK'
  BY DEF NotesOK, Sides

\* An interrupt notifies a task; inside vTaskSuspendAll the task is pending then.
LEMMA HeardFromISR ==
  ASSUME CallsOK, SchedOK, NotesOK, NEW o \in Sides \cap Tasks, k' = xTaskGenericNotifyFromISR(o),
         note' = [note EXCEPT ![o] = "received"], me' = me
  PROVE  Eased(k, k') /\ Heard(o, me'[o], k', note'[o], Ptr(use, o, s'), Due(use, o, s', me'))
<1>1. WokenOK(k) /\ NoEvents(k) BY DEF SchedOK
<1>2. /\ Eased(k, k')
      /\ note[o] = "waiting" => IF k.susp = 0 THEN k'.st[o] = "ready" ELSE o \in ToSet(k'.pending)
  BY <1>1, NotifyFromISREases
<1>3. note'[o] = "received"
  <2>1. note \in [Tasks -> {"none", "waiting", "received"}] BY DEF CallsOK, SharedOK
  <2> QED BY <2>1
<1>4. me[o].pc = "waitBlock" => k.susp = 1
  <2>1. TaskOK(o) BY DEF SchedOK
  <2> QED BY <2>1 DEF TaskOK, HeldPcs
<1>5. note[o] = "waiting" => o \in ToSet(k'.pending) \/ (me[o].pc # "waitBlock" /\ k'.st[o] = "ready")
  <2>1. CASE k.susp = 0 BY ONLY <1>2, <1>4, <2>1
  <2>2. CASE k.susp # 0 BY ONLY <1>2, <2>2
  <2> QED BY <2>1, <2>2
<1>6. Awake(k, k', o) BY <1>2 DEF Eased, Awake
<1>7. Heard(o, me[o], k, note[o], Ptr(use, o, s), Due(use, o, s, me)) BY DEF NotesOK
<1>8. Heard(o, me[o], k', "received", Ptr(use, o, s'), Due(use, o, s', me')) BY <1>5, <1>6, <1>7, HeardNotified
<1> QED BY <1>2, <1>3, <1>8

\* xStreamBufferSendFromISR.
LEMMA SendISRKeeps ==
  ASSUME StreamInv, UNCHANGED use, NEW size \in use.sizes, SendFromISR(size) PROVE StreamInv'
<1>1. CallsOK /\ SchedOK /\ RingOK /\ NotesOK BY DEF StreamInv
<1>2. /\ CallsOK' /\ RingOK' /\ use.writer = Isr /\ me' = me
      /\ IF s.waitRx # Null /\ Held(use, s') >= use.trigger
         THEN /\ s.waitRx \in Tasks /\ k' = xTaskGenericNotifyFromISR(s.waitRx)
              /\ note' = [note EXCEPT ![s.waitRx] = "received"]
         ELSE s'.waitRx = s.waitRx /\ k' = k /\ note' = note
  BY <1>1, SendISRCalls
<1>3. Isr \notin Tasks /\ Null \notin Tasks /\ use \in Uses BY <1>1, NowFacts, UseFacts
<1>4. s.waitRx \in {Null, use.reader} BY <1>1 DEF CallsOK, SharedOK
<1>5. CASE s.waitRx # Null /\ Held(use, s') >= use.trigger
  <2>1. s.waitRx = use.reader /\ use.reader \in Tasks /\ use.reader \in Sides BY <1>2, <1>4, <1>5 DEF Sides
  <2>2. k' = xTaskGenericNotifyFromISR(use.reader) /\ note' = [note EXCEPT ![use.reader] = "received"] BY <1>2, <1>5, <2>1
  <2>3. PICK o \in Sides \cap Tasks : o = use.reader BY <2>1
  <2>4. Eased(k, k') /\ Heard(o, me'[o], k', note'[o], Ptr(use, o, s'), Due(use, o, s', me'))
    BY <1>1, <1>2, <2>2, <2>3, HeardFromISR
  <2>5. SchedOK' BY <1>1, <1>2, <2>4, InterruptSched
  <2>6. NotesOK' BY <1>2, <1>3, <2>3, <2>4, NotesAll DEF Sides
  <2> QED BY <1>2, <2>5, <2>6 DEF StreamInv
<1>6. CASE ~(s.waitRx # Null /\ Held(use, s') >= use.trigger)
  <2>1. s'.waitRx = s.waitRx /\ k' = k /\ note' = note BY <1>2, <1>6
  <2>2. SchedOK' BY <1>1, <1>2, <2>1, StillEased, InterruptSched
  <2>3. ASSUME NEW o \in Sides \cap Tasks PROVE Heard(o, me'[o], k', note'[o], Ptr(use, o, s'), Due(use, o, s', me'))
    <3>1. o = use.reader /\ o # Null BY <1>2, <1>3, <2>3 DEF Sides
    <3>2. Heard(o, me[o], k, note[o], s.waitRx, Due(use, o, s, me)) BY <1>1, <2>3, <3>1 DEF NotesOK, Ptr
    <3>3. Ptr(use, o, s') = s.waitRx BY <2>1, <3>1 DEF Ptr
    <3>4. CASE s.waitRx = Null
      <4>1. ~Listening(o, me[o], k, note[o]) BY <3>1, <3>2, <3>4 DEF Heard
      <4> QED BY <1>2, <2>1, <4>1 DEF Heard
    <3>5. CASE s.waitRx # Null
      <4>1. Held(use, s') \in Nat
        <5>1. s' \in Buffers(use.length) BY <1>2 DEF CallsOK, SharedOK
        <5>2. use.length \in Nat /\ Held(use, s') \in 0 .. use.length - 1 BY <1>3, <5>1, HeldFacts, UseFacts
        <5> QED BY <5>2
      <4>2. Low(use, Held(use, s')) BY <1>3, <1>6, <3>5, <4>1, BelowTrigger
      <4>3. Due(use, o, s', me') BY <3>1, <4>2 DEF Due
      <4> QED BY <1>2, <2>1, <3>2, <3>3, <4>3 DEF Heard
    <3> QED BY <3>4, <3>5
  <2>4. NotesOK' BY <2>3, NotesAll
  <2> QED BY <1>2, <2>2, <2>4 DEF StreamInv
<1> QED BY <1>5, <1>6

\* xStreamBufferReceiveFromISR.
LEMMA ReceiveISRKeeps ==
  ASSUME StreamInv, UNCHANGED use, NEW room \in use.rooms, ReceiveFromISR(room) PROVE StreamInv'
<1>1. CallsOK /\ SchedOK /\ RingOK /\ NotesOK BY DEF StreamInv
<1>2. /\ CallsOK' /\ RingOK' /\ use.reader = Isr /\ me' = me
      /\ IF s.waitTx # Null
         THEN /\ s.waitTx \in Tasks /\ k' = xTaskGenericNotifyFromISR(s.waitTx)
              /\ note' = [note EXCEPT ![s.waitTx] = "received"]
         ELSE s'.waitTx = s.waitTx /\ k' = k /\ note' = note
  BY <1>1, ReceiveISRCalls
<1>3. Isr \notin Tasks /\ Null \notin Tasks BY <1>1, NowFacts, UseFacts
<1>4. s.waitTx \in {Null, use.writer} BY <1>1 DEF CallsOK, SharedOK
<1>5. CASE s.waitTx # Null
  <2>1. s.waitTx = use.writer /\ use.writer \in Tasks /\ use.writer \in Sides BY <1>2, <1>4, <1>5 DEF Sides
  <2>2. k' = xTaskGenericNotifyFromISR(use.writer) /\ note' = [note EXCEPT ![use.writer] = "received"] BY <1>2, <1>5, <2>1
  <2>3. PICK o \in Sides \cap Tasks : o = use.writer BY <2>1
  <2>4. Eased(k, k') /\ Heard(o, me'[o], k', note'[o], Ptr(use, o, s'), Due(use, o, s', me'))
    BY <1>1, <1>2, <2>2, <2>3, HeardFromISR
  <2>5. SchedOK' BY <1>1, <1>2, <2>4, InterruptSched
  <2>6. NotesOK' BY <1>2, <1>3, <2>3, <2>4, NotesAll DEF Sides
  <2> QED BY <1>2, <2>5, <2>6 DEF StreamInv
<1>6. CASE s.waitTx = Null
  <2>1. k' = k /\ note' = note BY <1>2, <1>6
  <2>2. SchedOK' BY <1>1, <1>2, <2>1, StillEased, InterruptSched
  <2>3. ASSUME NEW o \in Sides \cap Tasks PROVE Heard(o, me'[o], k', note'[o], Ptr(use, o, s'), Due(use, o, s', me'))
    <3>1. o = use.writer /\ o # use.reader /\ o # Null BY <1>2, <1>3, <2>3 DEF Sides
    <3>2. Heard(o, me[o], k, note[o], Null, Due(use, o, s, me)) BY <1>1, <1>6, <2>3, <3>1 DEF NotesOK, Ptr
    <3>3. ~Listening(o, me[o], k, note[o]) BY <3>1, <3>2 DEF Heard
    <3> QED BY <1>2, <2>1, <3>3 DEF Heard
  <2>4. NotesOK' BY <2>3, NotesAll
  <2> QED BY <1>2, <2>2, <2>4 DEF StreamInv
<1> QED BY <1>5, <1>6

\* A tick and a context switch.
LEMMA TimeKeeps ==
  ASSUME StreamInv, UNCHANGED use, Tick \/ \E t \in Tasks \cup {Idle} : Switch(t) PROVE StreamInv'
<1>1. CallsOK /\ SchedOK /\ RingOK /\ NotesOK BY DEF StreamInv
<1>2. UNCHANGED <<note, s, me, sent>> BY DEF Tick, Switch
<1>3. CallsOK' /\ RingOK' BY <1>1, <1>2, StillCalls
<1>4. SchedOK' /\ \A o \in Tasks : Awake(k, k', o)
  <2>1. CASE Tick
    <3>1. WokenOK(k) /\ NoEvents(k) /\ k' = TickInterrupt(k) BY <1>1, <2>1 DEF SchedOK, Tick
    <3>2. Eased(k, k') BY <3>1, TickEases
    <3> QED BY <1>1, <1>2, <3>2, InterruptSched DEF Eased, Awake
  <2>2. CASE \E t \in Tasks \cup {Idle} : Switch(t)
    <3>1. PICK t \in Tasks \cup {Idle} : SwitchTo(k, t) /\ k' = vTaskSwitchContext(k, t) BY <2>2 DEF Switch
    <3>2. SchedOK' /\ k'.st = k.st /\ k'.pending = k.pending BY <1>1, <1>2, <3>1, SwitchSched
    <3> QED BY <3>2 DEF Awake
  <2> QED BY <2>1, <2>2
<1>5. ASSUME NEW o \in Sides \cap Tasks PROVE Heard(o, me'[o], k', note'[o], Ptr(use, o, s'), Due(use, o, s', me'))
  <2>1. Heard(o, me[o], k, note[o], Ptr(use, o, s), Due(use, o, s, me)) BY <1>1 DEF NotesOK
  <2>2. Due(use, o, s, me) \in BOOLEAN BY DueBoolean
  <2>3. Heard(o, me[o], k', note[o], Ptr(use, o, s), Due(use, o, s, me)) BY <1>4, <2>1, <2>2, HeardStays
  <2> QED BY <1>2, <2>3
<1>6. NotesOK' BY <1>5, NotesAll
<1> QED BY <1>3, <1>4, <1>6 DEF StreamInv

\* A step of a task.
LEMMA TaskKeeps ==
  ASSUME StreamInv, UNCHANGED use, NEW t \in Tasks, TaskStep(t) PROVE StreamInv'
<1>1. CASE \/ \E size \in use.sizes, wait \in use.waits[t] : BeginSend(t, size, wait)
           \/ \E room \in use.rooms, wait \in use.waits[t] : BeginReceive(t, room, wait)
  BY <1>1, BeginKeeps
<1>2. CASE NotifyWaitSuspend(t) \/ NotifyWaitMark(t) \/ NotifyWaitBlock(t)
  BY <1>2, WaitSuspendKeeps, WaitMarkKeeps, WaitBlockKeeps
<1>3. CASE NotifyWaitResume(t) \/ NotifyWaitYield(t) \/ NotifyWaitDone(t)
  BY <1>3, WaitResumeKeeps, WaitYieldKeeps, WaitDoneKeeps
<1>4. CASE SendCheck(t) \/ ReceiveCheck(t) BY <1>4, SendCheckKeeps, ReceiveCheckKeeps
<1>5. CASE SendNull(t) \/ ReceiveNull(t) BY <1>5, NullKeeps
<1>6. CASE SendTimeout(t) \/ SendLook(t) \/ SendCopy(t) \/ ReceiveLook(t) \/ ReceiveCopy(t) BY <1>6, QuietKeeps
<1>7. CASE SendHead(t) \/ SendTrigger(t) \/ ReceiveTail(t) BY <1>7, SendHeadKeeps, SendTriggerKeeps, ReceiveTailKeeps
<1>8. CASE CompletedSuspend(t) \/ CompletedNotify(t) \/ CompletedResume(t)
  BY <1>8, DoneSuspendKeeps, DoneNotifyKeeps, DoneResumeKeeps
<1> QED BY <1>1, <1>2, <1>3, <1>4, <1>5, <1>6, <1>7, <1>8 DEF TaskStep

\* Every step keeps the invariant.
LEMMA StreamStep == StreamInv /\ [StreamNext]_streamVars => StreamInv'
<1> SUFFICES ASSUME StreamInv, [StreamNext]_streamVars PROVE StreamInv' OBVIOUS
<1>1. CASE UNCHANGED streamVars
  <2>1. UNCHANGED <<use, k, note, s, me, sent>> BY <1>1 DEF streamVars
  <2>2. CallsOK' /\ RingOK' BY <2>1, StillCalls DEF StreamInv
  <2>3. SchedOK' BY <2>1, StillEased, InterruptSched DEF StreamInv
  <2>4. NotesOK' BY <2>1 DEF StreamInv, NotesOK, Sides
  <2> QED BY <2>2, <2>3, <2>4 DEF StreamInv
<1>2. CASE StreamNext
  <2>1. UNCHANGED use BY <1>2 DEF StreamNext
  <2>2. CASE \E t \in Tasks : TaskStep(t) BY <2>1, <2>2, TaskKeeps
  <2>3. CASE Tick \/ \E t \in Tasks \cup {Idle} : Switch(t) BY <2>1, <2>3, TimeKeeps
  <2>4. CASE \E size \in use.sizes : SendFromISR(size) BY <2>1, <2>4, SendISRKeeps
  <2>5. CASE \E room \in use.rooms : ReceiveFromISR(room) BY <2>1, <2>5, ReceiveISRKeeps
  <2> QED BY <1>2, <2>2, <2>3, <2>4, <2>5 DEF StreamNext
<1> QED BY <1>1, <1>2

\* The invariant holds at the start.
LEMMA StreamStart == StreamInit => StreamInv
<1> SUFFICES ASSUME StreamInit PROVE StreamInv OBVIOUS
<1>1. use \in Uses /\ use.length \in Nat \ {0} /\ use.length > 1 /\ use.writer # use.reader BY UseFacts DEF StreamInit
<1>2. PICK cell : cell = [i \in 0 .. use.length - 1 |-> 0] OBVIOUS
<1>3. s = [cell |-> cell, head |-> 0, tail |-> 0, waitTx |-> Null, waitRx |-> Null] BY <1>2 DEF StreamInit
<1>4. s \in Buffers(use.length) /\ s.head = 0 /\ s.tail = 0 /\ s.waitTx = Null /\ s.waitRx = Null
  <2>1. cell \in [0 .. use.length - 1 -> Nat] /\ 0 \in 0 .. use.length - 1 BY <1>1, <1>2
  <2> QED BY <1>3, <2>1 DEF Buffers
<1>5. me = [t \in Tasks |-> NoCall] /\ note = [t \in Tasks |-> "none"] /\ sent = 0 BY DEF StreamInit
<1>6. CallsOK
  <2>1. SharedOK BY <1>1, <1>4, <1>5 DEF SharedOK
  <2>2. me \in [Tasks -> Calls] BY <1>5, NoCallFields
  <2>3. ASSUME NEW t \in Tasks PROVE CallFits(use, t, me[t])
    <3>1. me[t].pc = "idle" BY <1>5, NoCallFields
    <3> QED BY <3>1 DEF CallFits, WritePcs, ReadPcs, TimedPcs
  <2> QED BY <2>1, <2>2, <2>3 DEF CallsOK
<1>7. SchedOK
  <2>1. PICK st : st = [t \in Tasks |-> IF t \in {use.writer, use.reader} THEN "ready" ELSE "suspended"] OBVIOUS
  <2>2. k = [KernelInit EXCEPT !.st = st] BY <2>1 DEF StreamInit
  <2>3. st \in [Tasks -> States] /\ \A t \in Tasks : st[t] # "delayed" /\ st[t] # "overflow" BY <2>1 DEF States
  <2>4. PICK w, e, p, b : /\ w = [t \in Tasks |-> 0] /\ e = [l \in Lists |-> <<>>] /\ p = <<>>
                          /\ b = [t \in Tasks |-> BasePrio[t]] OBVIOUS
  <2>5. /\ w \in [Tasks -> TickType] /\ e \in [Lists -> Seq(Tasks)] /\ p \in Seq(Tasks) /\ b \in [Tasks -> Nat]
    BY <2>4, TickTypes, KernelAssumption
  <2>6. k = [st |-> st, wake |-> w, ev |-> e, pending |-> p, prio |-> b, cur |-> Idle, susp |-> 0, tick |-> 0,
             over |-> 0, next |-> portMAX_DELAY, pended |-> 0, yield |-> FALSE, swi |-> TRUE]
    BY <2>2, <2>4 DEF KernelInit
  <2>7. 0 \in TickType /\ portMAX_DELAY \in TickType /\ 0 \in Overflows BY TickTypes DEF Overflows
  <2>8. k \in Kernels BY <2>3, <2>5, <2>6, <2>7 DEF Kernels
  <2>9. List(<<>>) /\ ToSet(<<>>) = {} BY DEF List, ToSet
  <2>10. k.pending = <<>> /\ (\A l \in Lists : k.ev[l] = <<>>) /\ k.prio = b /\ k.st = st /\ k.susp = 0 /\ k.swi
    BY <2>4, <2>6
  <2>11. PrioOK(k) /\ TimesOK(k) BY <2>3, <2>4, <2>10, KernelAssumption DEF PrioOK, TimesOK
  <2>12. EventsOK(k) /\ NoEvents(k) BY <2>9, <2>10 DEF EventsOK, NoEvents
  <2>13. ASSUME NEW t \in Tasks PROVE TaskOK(t)
    <3>1. me[t].pc = "idle" BY <1>5, NoCallFields
    <3>2. t \in Sides => k.st[t] = "ready" BY <2>1, <2>10 DEF Sides
    <3> QED BY <3>1, <3>2 DEF TaskOK, HeldPcs
  <2> QED BY <2>8, <2>10, <2>11, <2>12, <2>13 DEF SchedOK, WokenOK
<1>8. RingOK
  <2>1. Held(use, s) = 0 BY <1>4 DEF Held, Count
  <2>2. Room(use, s) \in Nat BY <1>6, NowFacts
  <2>3. \A t \in Tasks : me[t].pc = "idle" /\ me[t].n = 0 BY <1>5, NoCallFields
  <2>4. use.writer \in Tasks => WriterFits(use, s, me[use.writer]) BY <2>2, <2>3 DEF WriterFits
  <2>5. use.reader \in Tasks => ReaderFits(use, s, me[use.reader]) BY <2>1, <2>3 DEF ReaderFits
  <2>6. Contents(use, s) = <<>>
    <3>1. Contents(use, s) \in Seq(Nat) /\ Len(Contents(use, s)) = 0 BY <1>1, <1>4, <2>1, HeldFacts
    <3> QED BY <3>1
  <2> QED BY <2>4, <2>5, <2>6, FramesNone DEF RingOK
<1>9. NotesOK
  <2>1. \A t \in Tasks : me[t].pc = "idle" BY <1>5, NoCallFields
  <2> QED BY <2>1, HeardElse DEF NotesOK, WaitPcs
<1> QED BY <1>6, <1>7, <1>8, <1>9 DEF StreamInv

(* --------------------------------- theorems -------------------------------- *)

\* The inductive invariant of the buffer: the calls, the scheduler, the ring and the
\* notifications of xStreamBufferSend and xStreamBufferReceive, from a task and from an
\* interrupt, fit together.
THEOREM StreamInvariant == StreamSpec => []StreamInv
<1>1. StreamInit => StreamInv BY StreamStart
<1>2. StreamInv /\ [StreamNext]_streamVars => StreamInv' BY StreamStep
<1> QED BY <1>1, <1>2, PTL DEF StreamSpec

\* A side that sleeps is past the moment it blocked, and is found.
LEMMA SleeperHeard ==
  ASSUME StreamInv, NEW t \in Sides, Asleep(t)
  PROVE  /\ t \in Tasks /\ me[t].pc \in BlockedPcs
         /\ Ptr(use, t, s) = t /\ note[t] = "waiting" /\ Due(use, t, s, me)
<1>1. t \in Tasks /\ k.st[t] # "ready" /\ t \notin ToSet(k.pending) BY DEF Asleep
<1>2. TaskOK(t) BY <1>1 DEF StreamInv, SchedOK
<1>3. me[t].pc \in BlockedPcs BY <1>1, <1>2 DEF TaskOK
<1>4. Heard(t, me[t], k, note[t], Ptr(use, t, s), Due(use, t, s, me)) BY <1>1 DEF StreamInv, NotesOK
<1>5. Listening(t, me[t], k, note[t]) BY <1>1, <1>3 DEF Listening
<1> QED BY <1>1, <1>3, <1>4, <1>5 DEF Heard

\* No notification is lost: xTaskWaitingToReceive and xTaskWaitingToSend name a side that
\* sleeps, whose notification is awaited, and what it waits for has not come or
\* sbSEND_COMPLETED or sbRECEIVE_COMPLETED is about to wake it.
THEOREM NotificationNotLost == StreamSpec => []NoLostNotification
<1>1. ASSUME StreamInv PROVE NoLostNotification
  <2>1. CallsOK BY <1>1 DEF StreamInv
  <2>2. use \in Uses /\ use.writer # use.reader BY <2>1, NowFacts, UseFacts
  <2>3. prvBytesInBuffer = Held(use, s) /\ Held(use, s) \in Nat /\ xStreamBufferSpacesAvailable = Room(use, s)
    BY <2>1, NowFacts
  <2>4. ASSUME Asleep(use.reader)
        PROVE  /\ s.waitRx = use.reader /\ note[use.reader] = "waiting"
               /\ \/ prvBytesInBuffer <= Threshold \/ prvBytesInBuffer < use.trigger
                  \/ OnTheWay(use.writer)
    <3>1. PICK t \in Sides : t = use.reader BY DEF Sides
    <3>2. Ptr(use, t, s) = t /\ note[t] = "waiting" /\ Due(use, t, s, me) BY <1>1, <2>4, <3>1, SleeperHeard
    <3>3. Low(use, Held(use, s)) \/ Way(use.writer, me) BY <3>1, <3>2 DEF Due
    <3>4. Low(use, Held(use, s)) => prvBytesInBuffer <= Threshold \/ prvBytesInBuffer < use.trigger
      BY <2>2, <2>3, ThresholdLow
    <3>5. Way(use.writer, me) => OnTheWay(use.writer) BY DEF Way, OnTheWay
    <3> QED BY <3>1, <3>2, <3>3, <3>4, <3>5 DEF Ptr
  <2>5. ASSUME Asleep(use.writer)
        PROVE  /\ s.waitTx = use.writer /\ note[use.writer] = "waiting"
               /\ xStreamBufferSpacesAvailable < Required(me[use.writer].size) \/ OnTheWay(use.reader)
    <3>1. PICK t \in Sides : t = use.writer BY DEF Sides
    <3>2. Ptr(use, t, s) = t /\ note[t] = "waiting" /\ Due(use, t, s, me) BY <1>1, <2>5, <3>1, SleeperHeard
    <3>3. Room(use, s) < Needs(use, me[t].size) \/ Way(use.reader, me) BY <2>2, <3>1, <3>2 DEF Due
    <3>4. Way(use.reader, me) => OnTheWay(use.reader) BY DEF Way, OnTheWay
    <3>5. s.waitTx = t BY <2>2, <3>1, <3>2 DEF Ptr
    <3>6. Needs(use, me[t].size) = Required(me[t].size) BY RequiredIs
    <3> QED BY <2>3, <3>1, <3>2, <3>3, <3>4, <3>5, <3>6
  <2> QED BY <2>4, <2>5 DEF NoLostNotification
<1> QED BY <1>1, StreamInvariant, PTL

\* A message buffer that holds a single byte holds no whole message: it holds none.
LEMMA NoSingleByte ==
  ASSUME NEW q \in Seq(Nat), Frames(q) PROVE Len(q) # 1
<1>1. SUFFICES ASSUME Len(q) = 1 PROVE FALSE OBVIOUS
<1>2. PICK F \in SUBSET (0 .. Len(q)) :
        0 \in F /\ Len(q) \in F /\ \A f \in F : f < Len(q) => q[f + 1] # 0 /\ f + 1 + q[f + 1] \in F
  BY DEF Frames
<1>3. q[0 + 1] # 0 /\ 0 + 1 + q[0 + 1] \in F BY <1>1, <1>2
<1>4. q[1] \in Nat
  <2>1. 1 \in 1 .. Len(q) BY <1>1
  <2> QED BY <2>1
<1>5. PICK m \in Nat : m = q[1] BY <1>4
<1>6. m # 0 /\ 0 + 1 + m \in 0 .. 1
  <2>1. 0 + 1 = 1 OBVIOUS
  <2>2. m # 0 /\ 0 + 1 + m \in F BY <1>3, <1>5, <2>1
  <2> QED BY <1>1, <1>2, <2>2
<1> QED BY <1>6

\* Writer and reader never both sleep, when what a waiting reader may leave in the buffer
\* and what the writer waits for fit in it together: the reader's amount is low, or the
\* writer awake; the writer's room is short, or the reader awake.
THEOREM NeverBothAsleep == StreamSpec => []NotBothAsleep
<1>1. ASSUME StreamInv PROVE NotBothAsleep
  <2>1. SUFFICES ASSUME Asleep(use.writer), Asleep(use.reader) PROVE ~Fits(me[use.writer].size)
    BY DEF NotBothAsleep
  <2>2. CallsOK /\ RingOK BY <1>1 DEF StreamInv
  <2>3. use \in Uses /\ use.writer # use.reader /\ s \in Buffers(use.length) BY <2>2, NowFacts, UseFacts
  <2>0. PICK r : r = Required(me[use.writer].size) OBVIOUS
  <2>4. PICK L \in Nat, n \in Nat, c \in Nat : L = use.length /\ n = Held(use, s) /\ c = use.trigger
    <3>1. use.length \in Nat /\ Held(use, s) \in Nat BY <2>2, NowFacts
    <3>2. use.trigger \in 1 .. use.length - 1 BY <2>3, UseFacts
    <3>3. use.trigger \in Nat BY <3>1, <3>2
    <3> QED BY <3>1, <3>3
  <2>5. PICK w \in Sides, d \in Sides : w = use.writer /\ d = use.reader BY DEF Sides
  <2>6. /\ w \in Tasks /\ me[w].pc \in BlockedPcs /\ Due(use, w, s, me)
        /\ d \in Tasks /\ me[d].pc \in BlockedPcs /\ Due(use, d, s, me)
    BY <1>1, <2>1, <2>5, SleeperHeard
  <2>7. ~Way(w, me) /\ ~Way(d, me) BY <2>6 DEF Way, BlockedPcs
  <2>8. Low(use, n) BY <2>3, <2>4, <2>5, <2>6, <2>7 DEF Due
  <2>9. L - 1 - n < r
    <3>1. Room(use, s) < Needs(use, me[w].size) BY <2>3, <2>5, <2>6, <2>7 DEF Due
    <3>2. Needs(use, me[w].size) = r BY <2>0, <2>5, RequiredIs
    <3> QED BY <2>4, <3>1, <3>2 DEF Room
  <2>10. r \in Nat
    <3>1. me[w].size \in Nat BY <2>2, <2>6 DEF CallsOK, Calls
    <3>2. Header = 1 /\ use.length - 1 \in Nat
      <4>1. use.length \in Nat /\ use.length > 1 BY <2>2, NowFacts
      <4> QED BY <4>1, StreamAssumption
    <3>3. Required(me[w].size) \in Nat
      <4>1. PICK a \in Nat, b \in Nat : a = me[w].size /\ b = use.length - 1 BY <3>1, <3>2
      <4>2. Min({a, b}) \in Nat BY MinOfTwo
      <4> QED BY <3>2, <4>1, <4>2 DEF Required
    <3> QED BY <2>0, <2>5, <3>3
  <2>11. n <= Kept /\ Kept \in Int
    <3>1. use.kind \in {"stream", "message", "batching"} /\ (use.kind = "message" => c = 1) BY <2>3, <2>4, UseFacts
    <3>2. CASE use.kind = "stream"
      <4>1. Kept = c - 1 BY <2>4, <3>2 DEF Kept
      <4>2. n < c BY <2>4, <2>8, <3>2 DEF Low
      <4> QED BY <4>1, <4>2
    <3>3. CASE use.kind = "batching"
      <4>1. Kept = c BY <2>4, <3>3 DEF Kept
      <4>2. n <= c BY <2>4, <2>8, <3>3 DEF Low
      <4> QED BY <4>1, <4>2
    <3>4. CASE use.kind = "message"
      <4>1. Kept = 0 BY <3>4 DEF Kept
      <4>2. n <= 1 BY <2>4, <2>8, <3>1, <3>4 DEF Low
      <4>3. Contents(use, s) \in Seq(Nat) /\ Len(Contents(use, s)) = n BY <2>3, <2>4, HeldFacts
      <4>4. n # 1 BY <2>2, <3>4, <4>3, NoSingleByte DEF RingOK
      <4> QED BY <4>1, <4>2, <4>4
    <3> QED BY <3>1, <3>2, <3>3, <3>4
  <2>12. ~(r + Kept < L) BY <2>9, <2>10, <2>11
  <2> QED BY <2>0, <2>4, <2>12 DEF Fits
<1> QED BY <1>1, StreamInvariant, PTL

(* ------------------------------- the refinement ------------------------------ *)

\* The mapped sequence after a step.
LEMMA ContentsNext ==
  ASSUME CallsOK', UNCHANGED use
  PROVE  ReadBytes(s.tail, prvBytesInBuffer)' = Contents(use, s')
<1>1. use \in Uses /\ s' \in Buffers(use.length) BY DEF CallsOK, SharedOK
<1>2. PICK L \in Nat \ {0} : L = use.length BY <1>1, UseFacts
<1>3. PICK n \in 0 .. L : n = Held(use, s')
  <2>1. Held(use, s') \in 0 .. L - 1 BY <1>1, <1>2, HeldFacts
  <2> QED BY <2>1
<1>4. prvBytesInBuffer' = n BY <1>1, <1>3, BytesNext
<1>5. PICK a \in 0 .. L - 1 : a = s'.tail BY <1>1, <1>2, BufferFields
<1>6. ASSUME NEW i \in 1 .. n PROVE (a + (i - 1)) % L = Pos(L, a, i - 1)
  <2>1. i - 1 \in 0 .. L OBVIOUS
  <2> QED BY <2>1, Turns
<1>7. ReadBytes(s.tail, prvBytesInBuffer)' = [i \in 1 .. n |-> s'.cell[(a + (i - 1)) % L]]
  BY <1>2, <1>4, <1>5 DEF ReadBytes, Advance
<1>8. Contents(use, s') = [i \in 1 .. n |-> s'.cell[Pos(L, a, i - 1)]] BY <1>2, <1>3, <1>5 DEF Contents, Bytes
<1> QED BY <1>6, <1>7, <1>8

\* What a write adds.
LEMMA Added ==
  ASSUME NEW q \in Seq(Nat), NEW w \in Seq(Nat), w # <<>>, NEW r, r = q \o w
  PROVE  IsStrictPrefix(q, r) /\ Len(r) = Len(q) + Len(w) /\ r[Len(q) + 1] = w[1]
<1>1. PICK n \in Nat, m \in Nat : n = Len(q) /\ m = Len(w) /\ m # 0 OBVIOUS
<1>2. r \in Seq(Nat) /\ Len(r) = n + m /\ \A i \in 1 .. n + m : r[i] = IF i <= n THEN q[i] ELSE w[i - n]
  BY <1>1, Joined
<1>3. SubSeq(q, 1, n) = q BY <1>1
<1>4. SubSeq(r, 1, n) = q
  <2>1. PICK p : p = SubSeq(r, 1, n) OBVIOUS
  <2>2. p \in Seq(Nat) /\ Len(p) = n /\ \A i \in 1 .. n : p[i] = r[i] BY <1>1, <1>2, <2>1
  <2>3. \A i \in 1 .. n : p[i] = q[i] BY <1>1, <1>2, <2>2
  <2> QED BY <1>1, <2>1, <2>2, <2>3, SameBytes
<1>5. r # q BY <1>1, <1>2
<1>6. r[n + 1] = w[1]
  <2>1. n + 1 \in 1 .. n + m /\ ~(n + 1 <= n) /\ n + 1 - n = 1 BY <1>1
  <2> QED BY <1>2, <2>1
<1> QED BY <1>1, <1>2, <1>3, <1>4, <1>5, <1>6 DEF IsStrictPrefix, IsPrefix

\* A write of xStreamBufferSend or xStreamBufferSendFromISR is a Write of the promise.
LEMMA WriteMaps ==
  ASSUME CallsOK, CallsOK', UNCHANGED <<use, got>>, NEW data \in Seq(Nat), data # <<>>,
         Len(Frame(use, data)) <= Room(use, s), Puts(use, s, Frame(use, data), s')
  PROVE  Promise!AbsStreamNext
<1>1. PICK q, r : q = Contents(use, s) /\ r = Contents(use, s') OBVIOUS
<1>2. PICK w : w = Frame(use, data) OBVIOUS
<1>3. use \in Uses /\ s \in Buffers(use.length) /\ use.length \in Nat BY NowFacts
<1>4. w \in Seq(Nat) /\ w # <<>> /\ (use.kind = "message" => w[1] = Len(data) /\ Len(w) = Len(data) + 1)
  <2>1. CASE use.kind = "message"
    <3>1. w = <<Len(data)>> \o data BY <1>2, <2>1 DEF Frame
    <3>2. <<Len(data)>> \in Seq(Nat) /\ Len(<<Len(data)>>) = 1 /\ <<Len(data)>>[1] = Len(data) OBVIOUS
    <3>3. w \in Seq(Nat) /\ Len(w) = 1 + Len(data) /\ w[1] = <<Len(data)>>[1]
      <4>1. \A i \in 1 .. 1 + Len(data) : w[i] = IF i <= 1 THEN <<Len(data)>>[i] ELSE data[i - 1] BY <3>1, <3>2, Joined
      <4>2. w \in Seq(Nat) /\ Len(w) = 1 + Len(data) BY <3>1, <3>2, Joined
      <4>3. 1 \in 1 .. 1 + Len(data) OBVIOUS
      <4> QED BY <4>1, <4>2, <4>3
    <3>4. w # <<>> BY <3>3
    <3> QED BY <3>2, <3>3, <3>4
  <2>2. CASE use.kind # "message" BY <1>2, <2>2 DEF Frame
  <2> QED BY <2>1, <2>2
<1>5. q \in Seq(Nat) /\ Len(q) = Held(use, s) /\ Held(use, s) \in Nat /\ Room(use, s) = use.length - 1 - Held(use, s)
  BY <1>1, <1>3, HeldFacts, NowFacts DEF Room
<1>6. r = q \o w BY <1>1, <1>2 DEF Puts
<1>7. IsStrictPrefix(q, r) /\ Len(r) = Len(q) + Len(w) /\ r[Len(q) + 1] = w[1] BY <1>4, <1>5, <1>6, Added
<1>8. Len(r) <= use.length - 1
  <2>1. PICK m \in Nat, n \in Nat, L \in Nat : m = Len(w) /\ n = Held(use, s) /\ L = use.length BY <1>3, <1>4, <1>5
  <2>2. m <= L - 1 - n BY <1>2, <1>5, <2>1
  <2>3. n + m <= L - 1 BY ONLY <2>2, m \in Nat, n \in Nat, L \in Nat
  <2> QED BY <1>5, <1>7, <2>1, <2>3
<1>9. IsMessage => r[Len(q) + 1] = Len(r) - (Len(q) + 1)
  <2>1. SUFFICES ASSUME use.kind = "message" PROVE r[Len(q) + 1] = Len(r) - (Len(q) + 1) BY DEF IsMessage
  <2>2. PICK m \in Nat, n \in Nat : m = Len(data) /\ n = Len(q) BY <1>5
  <2>3. r[n + 1] = m /\ Len(r) = n + (m + 1) BY <1>4, <1>7, <2>1, <2>2
  <2>4. n + (m + 1) - (n + 1) = m OBVIOUS
  <2> QED BY <2>2, <2>3, <2>4
<1>10. ReadBytes(s.tail, prvBytesInBuffer) = q BY <1>1, <1>3, ContentsNow
<1>11. ReadBytes(s.tail, prvBytesInBuffer)' = r BY <1>1, ContentsNext
<1>12. Promise!Write BY <1>7, <1>8, <1>9, <1>10, <1>11 DEF Promise!Write, Promise!IsStrictPrefix, Promise!IsPrefix, IsStrictPrefix, IsPrefix
<1>13. UNCHANGED <<use.length - 1, IsMessage>> BY DEF IsMessage
<1> QED BY <1>12, <1>13 DEF Promise!AbsStreamNext

\* The bytes of data are those of q after the first f, from place a to place b.
Follows(q, f, data, a, b) ==
  a = f + 1 /\ b = f + Len(data) /\ b <= Len(q) /\ \A i \in 1 .. Len(data) : data[i] = q[f + i]

\* What a read takes from the front.
LEMMA FrontRead ==
  ASSUME NEW q \in Seq(Nat), NEW data \in Seq(Nat), NEW f \in Nat, NEW a \in Nat, NEW b \in Nat,
         Follows(q, f, data, a, b)
  PROVE  SubSeq(q, a, b) = data
<1>0. PICK n \in Nat : n = Len(data) OBVIOUS
<1>1. PICK p : p = SubSeq(q, a, b) OBVIOUS
<1>2. p \in Seq(Nat) /\ Len(p) = n /\ \A i \in 1 .. n : p[i] = q[a + i - 1]
  <2>1. a = f + 1 /\ b = f + n /\ b <= Len(q) BY <1>0 DEF Follows
  <2>2. p \in Seq(Nat) BY ONLY <1>1, <2>1, q \in Seq(Nat), f \in Nat, n \in Nat
  <2>3. Len(p) = n BY ONLY <1>1, <2>1, q \in Seq(Nat), f \in Nat, n \in Nat
  <2>4. \A i \in 1 .. n : p[i] = q[a + i - 1] BY ONLY <1>1, <2>1, q \in Seq(Nat), f \in Nat, n \in Nat
  <2> QED BY <2>2, <2>3, <2>4
<1>3. ASSUME NEW i \in 1 .. n PROVE p[i] = data[i]
  <2>1. a + i - 1 = f + i BY DEF Follows
  <2> QED BY <1>0, <1>2, <2>1 DEF Follows
<1> QED BY <1>0, <1>1, <1>2, <1>3, SameBytes

\* A read of xStreamBufferReceive or xStreamBufferReceiveFromISR is a Read of the promise.
LEMMA ReadMaps ==
  ASSUME CallsOK, CallsOK', UNCHANGED use, NEW data \in Seq(Nat), Reading(use, s, data),
         Takes(use, s, Len(Frame(use, data)), s'), got' = data
  PROVE  Promise!AbsStreamNext
<1>1. PICK q, r : q = Contents(use, s) /\ r = Contents(use, s') OBVIOUS
<1>2. use \in Uses /\ s \in Buffers(use.length) BY NowFacts
<1>3. PICK L \in Nat \ {0} : L = use.length BY NowFacts
<1>4. PICK c \in [0 .. L - 1 -> Nat], t \in 0 .. L - 1 : c = s.cell /\ t = s.tail BY <1>2, <1>3, BufferFields
<1>5. PICK h \in 0 .. L - 1 : h = Held(use, s) BY <1>2, <1>3, HeldFacts
<1>6. q \in Seq(Nat) /\ Len(q) = h /\ \A i \in 1 .. h : q[i] = c[Pos(L, t, i - 1)]
  <2>1. q = Bytes(L, c, t, h) BY <1>1, <1>3, <1>4, <1>5 DEF Contents
  <2>2. h \in 0 .. L OBVIOUS
  <2> QED BY <2>1, <2>2, BytesSeq
<1>10. q \in Seq(Nat) /\ Len(q) = h BY <1>6
<1>7. PICK n \in Nat : n = Len(data) /\ n # 0 BY DEF Reading
<1>8. CASE use.kind = "message"
  <2>1. n = c[t] /\ n + 1 <= h /\ data = Bytes(L, c, Pos(L, t, 1), n) BY <1>3, <1>4, <1>5, <1>7, <1>8 DEF Reading
  <2>2. q[1] = n
    <3>1. 1 \in 1 .. h /\ 1 - 1 = 0 BY <2>1
    <3>2. Pos(L, t, 0) = t BY DEF Pos
    <3> QED BY <1>6, <2>1, <3>1, <3>2
  <2>3. ASSUME NEW i \in 1 .. n PROVE data[i] = q[1 + i]
    <3>1. 1 \in 0 .. L /\ i - 1 \in 0 .. L /\ 1 + (i - 1) = i /\ 1 + (i - 1) <= L BY <2>1
    <3>2. Pos(L, Pos(L, t, 1), i - 1) = Pos(L, t, 1 + (i - 1)) BY <3>1, PosPos
    <3>3. data[i] = c[Pos(L, Pos(L, t, 1), i - 1)] BY <2>1 DEF Bytes
    <3>4. 1 + i \in 1 .. h /\ 1 + i - 1 = i BY <2>1
    <3>5. q[1 + i] = c[Pos(L, t, i)] BY <1>6, <3>4
    <3> QED BY <3>1, <3>2, <3>3, <3>5
  <2>4. SubSeq(q, 1 + 1, 1 + n) = data
    <3>1. PICK f \in Nat, a \in Nat, b \in Nat : f = 1 /\ a = 1 + 1 /\ b = 1 + n OBVIOUS
    <3>2. b <= Len(q) /\ a = f + 1 /\ b = f + Len(data)
      <4>1. b <= h BY <2>1, <3>1
      <4>2. b = f + n BY <3>1
      <4> QED BY <1>7, <1>10, <3>1, <4>1, <4>2
    <3>3. Follows(q, f, data, a, b) BY <1>7, <2>3, <3>1, <3>2 DEF Follows
    <3>4. SubSeq(q, a, b) = data
      BY ONLY <3>3, <1>10, q \in Seq(Nat), data \in Seq(Nat), f \in Nat, a \in Nat, b \in Nat, FrontRead
    <3> QED BY <3>1, <3>4
  <2>5. Len(Frame(use, data)) = n + 1
    <3>1. Frame(use, data) = <<Len(data)>> \o data BY <1>8 DEF Frame
    <3>2. <<Len(data)>> \in Seq(Nat) /\ Len(<<Len(data)>>) = 1 OBVIOUS
    <3> QED BY <1>7, <3>1, <3>2
  <2>6. r = SubSeq(q, n + 1 + 1, h) BY <1>1, <1>5, <2>5 DEF Takes
  <2>7. n \in 1 .. Len(q) /\ n = Head(q) /\ got' = SubSeq(q, 2, n + 1) /\ r = SubSeq(q, n + 2, Len(q))
    <3>1. n \in 1 .. Len(q) BY <1>6, <1>7, <2>1
    <3>2. Head(q) = q[1] BY <1>6, <3>1
    <3>3. 1 + 1 = 2 /\ 1 + n = n + 1 /\ n + 1 + 1 = n + 2 OBVIOUS
    <3> QED BY <1>6, <2>2, <2>4, <2>6, <3>1, <3>2, <3>3
  <2>8. IsMessage BY <1>8 DEF IsMessage
  <2>9. ReadBytes(s.tail, prvBytesInBuffer) = q BY <1>1, <1>2, ContentsNow
  <2>10. ReadBytes(s.tail, prvBytesInBuffer)' = r BY <1>1, ContentsNext
  <2>11. Promise!Read(n) BY <2>7, <2>8, <2>9, <2>10 DEF Promise!Read
  <2>12. UNCHANGED <<use.length - 1, IsMessage>> BY DEF IsMessage
  <2> QED BY <2>7, <2>9, <2>11, <2>12 DEF Promise!AbsStreamNext
<1>9. CASE use.kind # "message"
  <2>1. n <= h /\ data = Bytes(L, c, t, n) BY <1>3, <1>4, <1>5, <1>7, <1>9 DEF Reading
  <2>2. \A i \in 1 .. n : data[i] = q[i]
    <3>1. \A i \in 1 .. n : data[i] = c[Pos(L, t, i - 1)] BY <2>1 DEF Bytes
    <3>2. \A i \in 1 .. n : i \in 1 .. h BY <2>1
    <3> QED BY <1>6, <3>1, <3>2
  <2>3. SubSeq(q, 1, n) = data
    <3>1. PICK f \in Nat, a \in Nat, b \in Nat : f = 0 /\ a = 1 /\ b = n OBVIOUS
    <3>2. b <= Len(q) /\ a = f + 1 /\ b = f + Len(data)
      <4>1. b <= h BY <2>1, <3>1
      <4>2. b = f + n BY <3>1
      <4> QED BY <1>7, <1>10, <3>1, <4>1, <4>2
    <3>3. Follows(q, f, data, a, b) BY <1>7, <2>2, <3>1, <3>2 DEF Follows
    <3>4. SubSeq(q, a, b) = data
      BY ONLY <3>3, <1>10, q \in Seq(Nat), data \in Seq(Nat), f \in Nat, a \in Nat, b \in Nat, FrontRead
    <3> QED BY <3>1, <3>4
  <2>4. r = SubSeq(q, n + 1, h) BY <1>1, <1>5, <1>7, <1>9 DEF Takes, Frame
  <2>5. n \in 1 .. Len(q) /\ got' = SubSeq(q, 1, n) /\ r = SubSeq(q, n + 1, Len(q))
    <3>1. n \in 1 .. Len(q) BY <1>6, <1>7, <2>1
    <3> QED BY <1>6, <2>3, <2>4, <3>1
  <2>6. ~IsMessage BY <1>9 DEF IsMessage
  <2>7. ReadBytes(s.tail, prvBytesInBuffer) = q BY <1>1, <1>2, ContentsNow
  <2>8. ReadBytes(s.tail, prvBytesInBuffer)' = r BY <1>1, ContentsNext
  <2>9. Promise!Read(n) BY <2>5, <2>6, <2>7, <2>8 DEF Promise!Read
  <2>10. UNCHANGED <<use.length - 1, IsMessage>> BY DEF IsMessage
  <2> QED BY <2>5, <2>7, <2>9, <2>10 DEF Promise!AbsStreamNext
<1> QED BY <1>8, <1>9

\* What the promise speaks of.
Mapped == <<ReadBytes(s.tail, prvBytesInBuffer), use.length - 1, IsMessage, got>>

\* A step that leaves what is held alone.
LEMMA Stutters ==
  ASSUME CallsOK, CallsOK', UNCHANGED <<use, got>>, Contents(use, s') = Contents(use, s)
  PROVE  UNCHANGED Mapped
<1>1. use \in Uses /\ s \in Buffers(use.length) BY NowFacts
<1>2. ReadBytes(s.tail, prvBytesInBuffer) = Contents(use, s) BY <1>1, ContentsNow
<1>3. ReadBytes(s.tail, prvBytesInBuffer)' = Contents(use, s') BY ContentsNext
<1>4. UNCHANGED <<use.length - 1, IsMessage>> BY DEF IsMessage
<1> QED BY <1>2, <1>3, <1>4 DEF Mapped

\* A task's step on the promise.
LEMMA TaskMaps ==
  ASSUME StreamInv, StreamInv', UNCHANGED use, NEW t \in Tasks, TaskStep(t)
  PROVE  [Promise!AbsStreamNext]_Mapped
<1>1. CallsOK /\ RingOK /\ CallsOK' BY DEF StreamInv
<1>2. CASE SendHead(t)
  <2>1. \E data \in Seq(Nat) : data # <<>> /\ Len(Frame(use, data)) <= Room(use, s) /\ Puts(use, s, Frame(use, data), s')
    BY <1>1, <1>2, SendHeadCalls
  <2>2. PICK data \in Seq(Nat) : data # <<>> /\ Len(Frame(use, data)) <= Room(use, s) /\ Puts(use, s, Frame(use, data), s')
    BY <2>1
  <2>3. got' = got BY <1>2 DEF SendHead
  <2> QED BY <1>1, <2>2, <2>3, WriteMaps
<1>3. CASE ReceiveTail(t)
  <2>1. \E data \in Seq(Nat) : Reading(use, s, data) /\ Takes(use, s, Len(Frame(use, data)), s') /\ got' = data
    BY <1>1, <1>3, ReceiveTailCalls
  <2>2. PICK data \in Seq(Nat) : Reading(use, s, data) /\ Takes(use, s, Len(Frame(use, data)), s') /\ got' = data
    BY <2>1
  <2> QED BY <1>1, <2>2, ReadMaps
<1>4. CASE SendCopy(t)
  <2>1. Contents(use, s') = Contents(use, s) \o <<>> BY <1>1, <1>4, SendCopyCalls DEF Puts
  <2>2. Contents(use, s) \in Seq(Nat) BY <1>1, NowFacts, HeldFacts
  <2>3. Contents(use, s') = Contents(use, s) /\ got' = got BY <1>4, <2>1, <2>2 DEF SendCopy
  <2> QED BY <1>1, <2>3, Stutters
<1>5. CASE CompletedNotify(t)
  <2>1. SameRing(s, s') BY <1>1, <1>5, DoneNotifyCalls
  <2>2. Contents(use, s') = Contents(use, s) /\ got' = got BY <1>5, <2>1, SameFits DEF CompletedNotify
  <2> QED BY <1>1, <2>2, Stutters
<1>6. CASE SendCheck(t) \/ ReceiveCheck(t) \/ SendNull(t) \/ ReceiveNull(t)
  <2>1. s \in Buffers(use.length) BY <1>1, NowFacts
  <2>2. \A v : SameRing(s, [s EXCEPT !.waitTx = v]) /\ SameRing(s, [s EXCEPT !.waitRx = v])
    BY <2>1 DEF Buffers, SameRing
  <2>3. SameRing(s, s') /\ got' = got
    BY <1>6, <2>2 DEF SendCheck, ReceiveCheck, SendNull, ReceiveNull, SameRing
  <2>4. Contents(use, s') = Contents(use, s) BY <2>3, SameFits
  <2> QED BY <1>1, <2>3, <2>4, Stutters
<1>7. CASE \/ \E size \in use.sizes, wait \in use.waits[t] : BeginSend(t, size, wait)
           \/ \E room \in use.rooms, wait \in use.waits[t] : BeginReceive(t, room, wait)
  <2>1. s' = s /\ got' = got BY <1>7 DEF BeginSend, BeginReceive
  <2> QED BY <1>1, <2>1, Stutters
<1>8. CASE \/ NotifyWaitSuspend(t) \/ NotifyWaitMark(t) \/ NotifyWaitBlock(t)
           \/ NotifyWaitResume(t) \/ NotifyWaitYield(t) \/ NotifyWaitDone(t)
  <2>1. s' = s /\ got' = got
    BY <1>8 DEF NotifyWaitSuspend, NotifyWaitMark, NotifyWaitBlock, NotifyWaitResume, NotifyWaitYield, NotifyWaitDone
  <2> QED BY <1>1, <2>1, Stutters
<1>9. CASE \/ SendTimeout(t) \/ SendLook(t) \/ SendTrigger(t) \/ ReceiveLook(t) \/ ReceiveCopy(t)
           \/ CompletedSuspend(t) \/ CompletedResume(t)
  <2>1. s' = s /\ got' = got
    BY <1>9 DEF SendTimeout, SendLook, SendTrigger, ReceiveLook, ReceiveCopy, CompletedSuspend, CompletedResume
  <2> QED BY <1>1, <2>1, Stutters
<1> QED BY <1>2, <1>3, <1>4, <1>5, <1>6, <1>7, <1>8, <1>9 DEF TaskStep

\* Every step is one of the promise, or none.
LEMMA StreamMaps == StreamInv /\ StreamInv' /\ [StreamNext]_streamVars => [Promise!AbsStreamNext]_Mapped
<1> SUFFICES ASSUME StreamInv, StreamInv', [StreamNext]_streamVars PROVE [Promise!AbsStreamNext]_Mapped OBVIOUS
<1>1. CallsOK /\ RingOK /\ CallsOK' BY DEF StreamInv
<1>2. CASE UNCHANGED streamVars
  <2>1. UNCHANGED <<use, s, got>> BY <1>2 DEF streamVars
  <2> QED BY <1>1, <2>1, Stutters
<1>3. CASE StreamNext
  <2>1. UNCHANGED use BY <1>3 DEF StreamNext
  <2>2. CASE \E t \in Tasks : TaskStep(t) BY <2>1, <2>2, TaskMaps
  <2>3. CASE Tick \/ \E t \in Tasks \cup {Idle} : Switch(t)
    <3>1. s' = s /\ got' = got BY <2>3 DEF Tick, Switch
    <3> QED BY <1>1, <2>1, <3>1, Stutters
  <2>4. CASE \E size \in use.sizes : SendFromISR(size)
    <3>1. PICK size \in use.sizes : SendFromISR(size) BY <2>4
    <3>2. \E data \in Seq(Nat) : data # <<>> /\ Len(Frame(use, data)) <= Room(use, s) /\ Puts(use, s, Frame(use, data), s')
      BY <1>1, <2>1, <3>1, SendISRCalls
    <3>3. PICK data \in Seq(Nat) : data # <<>> /\ Len(Frame(use, data)) <= Room(use, s) /\ Puts(use, s, Frame(use, data), s')
      BY <3>2
    <3>4. got' = got BY <3>1 DEF SendFromISR
    <3> QED BY <1>1, <2>1, <3>3, <3>4, WriteMaps
  <2>5. CASE \E room \in use.rooms : ReceiveFromISR(room)
    <3>1. PICK room \in use.rooms : ReceiveFromISR(room) BY <2>5
    <3>2. \E data \in Seq(Nat) : Reading(use, s, data) /\ Takes(use, s, Len(Frame(use, data)), s') /\ got' = data
      BY <1>1, <2>1, <3>1, ReceiveISRCalls
    <3>3. PICK data \in Seq(Nat) : Reading(use, s, data) /\ Takes(use, s, Len(Frame(use, data)), s') /\ got' = data
      BY <3>2
    <3> QED BY <1>1, <2>1, <3>3, ReadMaps
  <2> QED BY <1>3, <2>2, <2>3, <2>4, <2>5 DEF StreamNext
<1> QED BY <1>2, <1>3

\* The ring, its two sides moving without a lock, is the sequence of bytes, or of messages
\* each written and read as a whole, that stream_buffer.h and message_buffer.h promise.
THEOREM StreamRefines == StreamSpec => ImplementsStream
<1>1. StreamInit => Promise!AbsStreamInit
  <2>1. SUFFICES ASSUME StreamInit PROVE Promise!AbsStreamInit OBVIOUS
  <2>2. StreamInv BY <2>1, StreamStart
  <2>3. CallsOK BY <2>2 DEF StreamInv
  <2>4. use \in Uses /\ s \in Buffers(use.length) /\ use.length \in Nat /\ use.length > 1 BY <2>3, NowFacts
  <2>5. s.head = 0 /\ s.tail = 0 /\ got = <<>> BY <2>1 DEF StreamInit
  <2>6. Held(use, s) = 0 BY <2>5 DEF Held, Count
  <2>7. Contents(use, s) = <<>>
    <3>1. Contents(use, s) \in Seq(Nat) /\ Len(Contents(use, s)) = 0 BY <2>4, <2>6, HeldFacts
    <3> QED BY <3>1
  <2>8. ReadBytes(s.tail, prvBytesInBuffer) = <<>> BY <2>4, <2>7, ContentsNow
  <2>9. IsMessage \in BOOLEAN /\ use.length - 1 > 0 BY <2>4 DEF IsMessage
  <2> QED BY <2>5, <2>8, <2>9 DEF Promise!AbsStreamInit
<1>2. StreamInv /\ StreamInv' /\ [StreamNext]_streamVars
        => [Promise!AbsStreamNext]_<<ReadBytes(s.tail, prvBytesInBuffer), use.length - 1, IsMessage, got>>
  BY StreamMaps DEF Mapped
<1> QED BY <1>1, <1>2, StreamInvariant, PTL DEF StreamSpec, ImplementsStream, Promise!AbsStreamSpec

===============================================================================
