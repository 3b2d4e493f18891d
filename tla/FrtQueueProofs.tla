---------------------------- MODULE FrtQueueProofs ----------------------------
(***************************************************************************)
(* FreeRTOS queues on one core, for every number of tasks, priorities, queue    *)
(* length, width of the tick counter, calls and interrupts:                    *)
(*                                                                         *)
(*   QueueRefines           the ring is the bounded sequence that queue.h promises *)
(*   KernelStaysConsistent  the lists of the scheduler and who runs             *)
(*   NeverEarly             no call fails before its time                      *)
(*   WakeUpsReach           nobody waits for what nobody comes for              *)
(*                                                                         *)
(* The first part is about the ring, which needs nothing of the scheduler since  *)
(* each copy is in a critical section, the second about the scheduler under the  *)
(* steps of queue.c, the third about time, the last about wake-ups.             *)
(* FrtKernelProofs has the lemmas about the kernel itself.                    *)
(***************************************************************************)
EXTENDS FrtQueue, FrtKernelProofs

(* ------------------------- the ring, as a value ------------------------- *)

\* The places of a ring of length L: the i-th after place r, the next and the previous.
Place(L, r, i) == IF r + i < L THEN r + i ELSE r + i - L
Next(L, i) == IF i + 1 >= L THEN 0 ELSE i + 1
Previous(L, i) == IF i - 1 < 0 THEN L - 1 ELSE i - 1

Rings(L) == [buf : [0 .. L - 1 -> Items \cup {NoItem}], w : 0 .. L - 1, r : 0 .. L - 1,
             n : 0 .. L, tx : Int, rx : Int]

\* The write pointer is as far ahead of the read pointer as there are items, whatever
\* was put at either end, and between the two there are items.
RingOK(L, x) ==
  /\ L \in Nat \ {0} /\ x \in Rings(L)
  /\ x.w = Next(L, Place(L, x.r, x.n))
  /\ \A i \in 1 .. x.n : x.buf[Place(L, x.r, i)] \in Items

\* What the ring holds.
Held(L, x) == [i \in 1 .. x.n |-> x.buf[Place(L, x.r, i)]]

\* A remainder after less than two turns.
LEMMA OneTurn == \A m \in Nat \ {0} : \A a \in 0 .. m - 1, i \in 0 .. m :
                   (a + i) % m = IF a + i < m THEN a + i ELSE a + i - m
  OBVIOUS

\* Every place is one of the ring.
LEMMA PlaceIn ==
  ASSUME NEW L \in Nat \ {0}, NEW r \in 0 .. L - 1, NEW i \in 0 .. L
  PROVE  Place(L, r, i) \in 0 .. L - 1
  BY DEF Place

\* No place comes twice in a turn.
LEMMA PlaceOnce ==
  ASSUME NEW L \in Nat \ {0}, NEW r \in 0 .. L - 1, NEW i \in 1 .. L, NEW j \in 1 .. L,
         Place(L, r, i) = Place(L, r, j)
  PROVE  i = j
  BY DEF Place

\* A step forward or back of the pointer shifts the places by one.
LEMMA NextPlace ==
  ASSUME NEW L \in Nat \ {0}, NEW r \in 0 .. L - 1, NEW i \in 0 .. L - 1
  PROVE  /\ Next(L, Place(L, r, i)) = Place(L, r, i + 1)
         /\ Place(L, Next(L, r), i) = Place(L, r, i + 1)
         /\ Place(L, Previous(L, r), i + 1) = Place(L, r, i)
  BY DEF Place, Next, Previous

\* The fields of a ring, and where its write pointer is unless the ring is full.
LEMMA RingFacts ==
  ASSUME NEW L, NEW x, RingOK(L, x)
  PROVE  /\ L \in Nat \ {0} /\ x.n \in 0 .. L /\ x.r \in 0 .. L - 1 /\ x.w \in 0 .. L - 1
         /\ x.buf \in [0 .. L - 1 -> Items \cup {NoItem}]
         /\ x.n < L => x.w = Place(L, x.r, x.n + 1)
<1>1. /\ L \in Nat \ {0} /\ x.n \in 0 .. L /\ x.r \in 0 .. L - 1 /\ x.w \in 0 .. L - 1
      /\ x.buf \in [0 .. L - 1 -> Items \cup {NoItem}]
  BY DEF RingOK, Rings
<1>2. x.w = Next(L, Place(L, x.r, x.n)) BY DEF RingOK
<1>3. x.n < L => Next(L, Place(L, x.r, x.n)) = Place(L, x.r, x.n + 1) BY <1>1, NextPlace
<1> QED BY <1>1, <1>2, <1>3

\* The contents are a sequence of items.
LEMMA HeldSeq ==
  ASSUME NEW L, NEW x, RingOK(L, x)
  PROVE  /\ Held(L, x) \in Seq(Items) /\ Len(Held(L, x)) = x.n /\ x.n \in 0 .. L
         /\ \A i \in 1 .. x.n : Held(L, x)[i] = x.buf[Place(L, x.r, i)]
<1>1. x.n \in 0 .. L BY DEF RingOK, Rings
<1>2. Held(L, x) \in [1 .. x.n -> Items] BY DEF RingOK, Held
<1>3. \A i \in 1 .. x.n : Held(L, x)[i] = x.buf[Place(L, x.r, i)] BY DEF Held
<1>4. x.n \in Nat BY <1>1 DEF RingOK
<1> QED BY <1>1, <1>2, <1>3, <1>4

\* Two sequences with the same items are the same.
LEMMA SameSeq ==
  ASSUME NEW s \in Seq(Items), NEW u \in Seq(Items), Len(s) = Len(u),
         \A i \in 1 .. Len(s) : s[i] = u[i]
  PROVE  s = u
  OBVIOUS

\* An item put where the write pointer is comes last.
LEMMA PutLast ==
  ASSUME NEW L, NEW x, RingOK(L, x), x.n < L, NEW v \in Items,
         NEW y \in Rings(L), y.w = Next(L, x.w), y.r = x.r, y.n = x.n + 1,
         \A i \in 0 .. L - 1 : y.buf[i] = IF i = x.w THEN v ELSE x.buf[i]
  PROVE  RingOK(L, y) /\ Held(L, y) = Append(Held(L, x), v)
<1>1. /\ L \in Nat \ {0} /\ x.n \in 0 .. L /\ x.r \in 0 .. L - 1
      /\ x.w = Place(L, x.r, x.n + 1) /\ x.buf \in [0 .. L - 1 -> Items \cup {NoItem}]
  BY RingFacts
<1>2. ASSUME NEW i \in 1 .. x.n + 1
      PROVE  y.buf[Place(L, y.r, i)] = IF i = x.n + 1 THEN v ELSE x.buf[Place(L, x.r, i)]
  <2>1. i \in 1 .. L /\ i \in 0 .. L /\ x.n + 1 \in 1 .. L BY <1>1
  <2>2. Place(L, x.r, i) \in 0 .. L - 1 BY <1>1, <2>1, PlaceIn
  <2>3. Place(L, x.r, i) = Place(L, x.r, x.n + 1) => i = x.n + 1 BY <1>1, <2>1, PlaceOnce
  <2> QED BY <1>1, <2>1, <2>2, <2>3
<1>3. \A i \in 1 .. x.n : x.buf[Place(L, x.r, i)] \in Items BY DEF RingOK
<1>4. RingOK(L, y)
  <2>1. ASSUME NEW i \in 1 .. y.n PROVE y.buf[Place(L, y.r, i)] \in Items
    <3>1. i \in 1 .. x.n + 1 BY <1>1
    <3>2. i # x.n + 1 => i \in 1 .. x.n BY <1>1, <3>1
    <3> QED BY <1>2, <1>3, <3>1, <3>2
  <2> QED BY <1>1, <2>1 DEF RingOK
<1>5. /\ Held(L, x) \in Seq(Items) /\ Len(Held(L, x)) = x.n
      /\ \A i \in 1 .. x.n : Held(L, x)[i] = x.buf[Place(L, x.r, i)]
  BY HeldSeq
<1>6. /\ Held(L, y) \in Seq(Items) /\ Len(Held(L, y)) = x.n + 1
      /\ \A i \in 1 .. x.n + 1 : Held(L, y)[i] = y.buf[Place(L, y.r, i)]
  <2>1. /\ Held(L, y) \in Seq(Items) /\ Len(Held(L, y)) = y.n
        /\ \A i \in 1 .. y.n : Held(L, y)[i] = y.buf[Place(L, y.r, i)]
    BY <1>4, HeldSeq
  <2> QED BY <2>1
<1>7. /\ Append(Held(L, x), v) \in Seq(Items) /\ Len(Append(Held(L, x), v)) = x.n + 1
      /\ \A i \in 1 .. x.n + 1 : Append(Held(L, x), v)[i] = IF i = x.n + 1 THEN v ELSE Held(L, x)[i]
  BY <1>1, <1>5
<1>8. \A i \in 1 .. x.n + 1 : Held(L, y)[i] = Append(Held(L, x), v)[i]
  BY <1>1, <1>2, <1>5, <1>6, <1>7
<1> QED BY <1>4, <1>6, <1>7, <1>8, SameSeq

\* An item put where the read pointer is, which then goes back, comes first.
LEMMA PutFirst ==
  ASSUME NEW L, NEW x, RingOK(L, x), x.n < L, NEW v \in Items,
         NEW y \in Rings(L), y.w = x.w, y.r = Previous(L, x.r), y.n = x.n + 1,
         \A i \in 0 .. L - 1 : y.buf[i] = IF i = x.r THEN v ELSE x.buf[i]
  PROVE  RingOK(L, y) /\ Held(L, y) = <<v>> \o Held(L, x)
<1>1. L \in Nat \ {0} /\ x.n \in 0 .. L /\ x.r \in 0 .. L - 1 BY RingFacts
<1>2. ASSUME NEW i \in 0 .. x.n
      PROVE  y.buf[Place(L, y.r, i + 1)] = IF i = 0 THEN v ELSE x.buf[Place(L, x.r, i)]
  <2>1. i \in 0 .. L /\ i \in 0 .. L - 1 BY <1>1
  <2>2. /\ Place(L, Previous(L, x.r), i + 1) = Place(L, x.r, i)
        /\ Place(L, x.r, i) \in 0 .. L - 1
    BY <1>1, <2>1, NextPlace, PlaceIn
  <2>3. Place(L, x.r, i) = x.r <=> i = 0 BY <1>1, <2>1 DEF Place
  <2> QED BY <2>2, <2>3
<1>3. \A i \in 1 .. x.n : x.buf[Place(L, x.r, i)] \in Items BY DEF RingOK
<1>4. RingOK(L, y)
  <2>1. ASSUME NEW i \in 1 .. y.n PROVE y.buf[Place(L, y.r, i)] \in Items
    <3>1. i - 1 \in 0 .. x.n /\ (i - 1) + 1 = i /\ (i - 1 # 0 => i - 1 \in 1 .. x.n) BY <1>1
    <3> QED BY <1>2, <1>3, <3>1
  <2>2. y.w = Next(L, Place(L, y.r, y.n))
    <3>1. x.n \in 0 .. L - 1 BY <1>1
    <3>2. Place(L, Previous(L, x.r), x.n + 1) = Place(L, x.r, x.n) BY <1>1, <3>1, NextPlace
    <3> QED BY <3>2 DEF RingOK
  <2> QED BY <1>1, <2>1, <2>2 DEF RingOK
<1>5. /\ Held(L, x) \in Seq(Items) /\ Len(Held(L, x)) = x.n
      /\ \A i \in 1 .. x.n : Held(L, x)[i] = x.buf[Place(L, x.r, i)]
  BY HeldSeq
<1>6. /\ Held(L, y) \in Seq(Items) /\ Len(Held(L, y)) = x.n + 1
      /\ \A i \in 1 .. x.n + 1 : Held(L, y)[i] = y.buf[Place(L, y.r, i)]
  <2>1. /\ Held(L, y) \in Seq(Items) /\ Len(Held(L, y)) = y.n
        /\ \A i \in 1 .. y.n : Held(L, y)[i] = y.buf[Place(L, y.r, i)]
    BY <1>4, HeldSeq
  <2> QED BY <2>1
<1>7. /\ <<v>> \o Held(L, x) \in Seq(Items) /\ Len(<<v>> \o Held(L, x)) = x.n + 1
      /\ \A i \in 1 .. x.n + 1 : (<<v>> \o Held(L, x))[i] = IF i = 1 THEN v ELSE Held(L, x)[i - 1]
  BY <1>1, <1>5
<1>8. ASSUME NEW i \in 1 .. x.n + 1 PROVE Held(L, y)[i] = (<<v>> \o Held(L, x))[i]
  <2>1. i - 1 \in 0 .. x.n /\ (i - 1) + 1 = i /\ (i - 1 # 0 => i - 1 \in 1 .. x.n) BY <1>1
  <2>2. Held(L, y)[i] = IF i - 1 = 0 THEN v ELSE x.buf[Place(L, x.r, i - 1)] BY <1>2, <1>6, <2>1
  <2> QED BY <1>5, <1>7, <2>1, <2>2
<1> QED BY <1>4, <1>6, <1>7, <1>8, SameSeq

\* The item behind the read pointer comes first, and taking it leaves the others.
LEMMA TakeFirst ==
  ASSUME NEW L, NEW x, RingOK(L, x), x.n > 0,
         NEW y \in Rings(L), y.buf = x.buf, y.w = x.w, y.r = Next(L, x.r), y.n = x.n - 1
  PROVE  /\ RingOK(L, y) /\ Held(L, y) = Tail(Held(L, x))
<1>1. L \in Nat \ {0} /\ x.n \in 1 .. L /\ x.r \in 0 .. L - 1 BY RingFacts
<1>2. ASSUME NEW i \in 1 .. x.n
      PROVE  Place(L, y.r, i - 1) = Place(L, x.r, i)
  <2>1. i - 1 \in 0 .. L - 1 /\ (i - 1) + 1 = i BY <1>1
  <2>2. Place(L, Next(L, x.r), i - 1) = Place(L, x.r, (i - 1) + 1) BY <1>1, <2>1, NextPlace
  <2> QED BY <2>1, <2>2
<1>3. RingOK(L, y)
  <2>1. ASSUME NEW i \in 1 .. y.n PROVE y.buf[Place(L, y.r, i)] \in Items
    <3>1. i + 1 \in 1 .. x.n /\ (i + 1) - 1 = i BY <1>1
    <3>2. Place(L, y.r, i) = Place(L, x.r, i + 1) BY <1>2, <3>1
    <3> QED BY <3>1, <3>2 DEF RingOK
  <2>2. y.w = Next(L, Place(L, y.r, y.n)) BY <1>1, <1>2 DEF RingOK
  <2> QED BY <1>1, <2>1, <2>2 DEF RingOK
<1>5. /\ Held(L, x) \in Seq(Items) /\ Len(Held(L, x)) = x.n
      /\ \A i \in 1 .. x.n : Held(L, x)[i] = x.buf[Place(L, x.r, i)]
  BY HeldSeq
<1>6. /\ Held(L, y) \in Seq(Items) /\ Len(Held(L, y)) = x.n - 1
      /\ \A i \in 1 .. x.n - 1 : Held(L, y)[i] = y.buf[Place(L, y.r, i)]
  <2>1. /\ Held(L, y) \in Seq(Items) /\ Len(Held(L, y)) = y.n
        /\ \A i \in 1 .. y.n : Held(L, y)[i] = y.buf[Place(L, y.r, i)]
    BY <1>3, HeldSeq
  <2> QED BY <2>1
<1>7. /\ Tail(Held(L, x)) \in Seq(Items) /\ Len(Tail(Held(L, x))) = x.n - 1
      /\ \A i \in 1 .. x.n - 1 : Tail(Held(L, x))[i] = Held(L, x)[i + 1]
  BY <1>1, <1>5
<1>8. ASSUME NEW i \in 1 .. x.n - 1 PROVE Held(L, y)[i] = Tail(Held(L, x))[i]
  <2>1. i + 1 \in 1 .. x.n /\ (i + 1) - 1 = i BY <1>1
  <2>2. Place(L, y.r, i) = Place(L, x.r, i + 1) BY <1>2, <2>1
  <2> QED BY <1>5, <1>6, <1>7, <2>1, <2>2
<1> QED BY <1>3, <1>6, <1>7, <1>8, SameSeq

(* ------------------------------ the module ------------------------------ *)

\* A call is one that its task makes; one that sends has an item, and overwrites only
\* where that is allowed.
CallOK(t) ==
  /\ DOMAIN me[t] = DOMAIN NoCall
  /\ me[t].pc # "idle" => \E c \in use.calls[t] : c.op = me[t].op
  /\ me[t].pc # "idle" /\ me[t].op = "send" => me[t].item \in Items
  /\ me[t].pos = "overwrite" => Length = 1
CallsOK == DOMAIN me = Tasks /\ \A t \in Tasks : CallOK(t)

QueueInv == use \in Uses /\ RingOK(Length, q) /\ CallsOK

\* Contents is what the ring holds.
LEMMA ContentsHeld == ASSUME NEW L, L = Length, RingOK(L, q) PROVE Contents = Held(L, q)
<1>1. L \in Nat \ {0} /\ q.n \in 0 .. L /\ q.r \in 0 .. L - 1 BY RingFacts
<1>2. ASSUME NEW i \in 1 .. q.n PROVE (q.r + i) % Length = Place(L, q.r, i)
  <2>1. i \in 0 .. L BY <1>1
  <2> QED BY <1>1, <2>1, OneTurn DEF Place
<1> QED BY <1>2 DEF Contents, Held

\* Every call goes on, or returns.
CallsGoOn ==
  /\ DOMAIN me' = DOMAIN me
  /\ \A u \in Tasks :
       \/ me'[u] = me[u] \/ me'[u] = NoCall
       \/ /\ DOMAIN me'[u] = DOMAIN me[u] /\ me'[u].op = me[u].op
          /\ me'[u].pos = me[u].pos /\ me'[u].item = me[u].item
          /\ me[u].pc # "idle" \/ me'[u].pc = "idle"

\* Calls that go on keep what they were made with.
LEMMA CallsKept ==
  ASSUME QueueInv, UNCHANGED use, CallsGoOn
  PROVE  CallsOK' /\ use' \in Uses /\ Length' = Length
<1>1. Length' = Length /\ use' \in Uses BY DEF Length, QueueInv
<1>2. ASSUME NEW u \in Tasks PROVE CallOK(u)'
  <2>1. CallOK(u) BY DEF QueueInv, CallsOK
  <2>2. CASE me'[u] = me[u] BY <1>1, <2>1, <2>2 DEF CallOK
  <2>3. CASE me'[u] = NoCall BY <1>1, <2>3 DEF CallOK, NoCall
  <2>4. CASE /\ DOMAIN me'[u] = DOMAIN me[u] /\ me'[u].op = me[u].op
             /\ me'[u].pos = me[u].pos /\ me'[u].item = me[u].item
             /\ me[u].pc # "idle" \/ me'[u].pc = "idle"
    BY <1>1, <2>1, <2>4 DEF CallOK
  <2> QED BY <2>2, <2>3, <2>4 DEF CallsGoOn
<1>3. DOMAIN me' = Tasks BY DEF CallsGoOn, QueueInv, CallsOK
<1> QED BY <1>1, <1>2, <1>3 DEF CallsOK

\* A step that moves no call.
LEMMA CallsStay == UNCHANGED me => CallsGoOn
  BY DEF CallsGoOn

\* A call that returns leaves the others alone.
LEMMA CallReturns == ASSUME QueueInv, NEW t \in Tasks, Return(t) PROVE CallsGoOn
  BY DEF QueueInv, CallsOK, CallOK, Return, CallsGoOn

\* Contents is what the ring holds, after a step too.
LEMMA NextContentsHeld ==
  ASSUME NEW L, L = Length, Length' = Length, RingOK(L, q')
  PROVE  Contents' = Held(L, q')
<1>1. L \in Nat \ {0} /\ q'.n \in 0 .. L /\ q'.r \in 0 .. L - 1 BY RingFacts
<1>2. ASSUME NEW i \in 1 .. q'.n PROVE (q'.r + i) % L = Place(L, q'.r, i)
  <2>1. i \in 0 .. L BY <1>1
  <2> QED BY <1>1, <2>1, OneTurn DEF Place
<1> QED BY <1>2 DEF Contents, Held

\* What a step of the queue may do to the calls and to the way the queue is used.
Proceeds == UNCHANGED use /\ CallsOK'

\* A step that leaves the ring alone is none of the sequence.
Still == q' \in Rings(Length) /\ q'.buf = q.buf /\ q'.w = q.w /\ q'.r = q.r /\ q'.n = q.n

\* Such a step keeps QueueInv.
LEMMA StillStutters ==
  ASSUME QueueInv, Proceeds, Still
  PROVE  QueueInv' /\ UNCHANGED <<Contents, Length>>
<1>1. CallsOK' /\ use' \in Uses /\ Length' = Length BY DEF Proceeds, QueueInv, Length
<1>2. PICK L : L = Length OBVIOUS
<1>3. RingOK(L, q') /\ Held(L, q') = Held(L, q)
  BY <1>2 DEF Still, QueueInv, RingOK, Held
<1>4. Contents = Held(L, q) BY <1>2, ContentsHeld DEF QueueInv
<1>5. Contents' = Held(L, q') BY <1>1, <1>2, <1>3, NextContentsHeld
<1> QED BY <1>1, <1>2, <1>3, <1>4, <1>5 DEF QueueInv

\* prvCopyDataToQueue, as far as the sequence goes.
Copied(v, pos) ==
  /\ q' \in Rings(Length)
  /\ q'.buf = prvCopyDataToQueue(v, pos).buf /\ q'.w = prvCopyDataToQueue(v, pos).w
  /\ q'.r = prvCopyDataToQueue(v, pos).r /\ q'.n = prvCopyDataToQueue(v, pos).n

\* It appends, prepends or replaces, as xCopyPosition says.
LEMMA CopiedToQueue ==
  ASSUME QueueInv, Proceeds, UNCHANGED got, NEW v \in Items, NEW pos, Room(pos),
         pos = "overwrite" => Length = 1, Copied(v, pos)
  PROVE  QueueInv' /\ Promise!AbsQueueNext
<1>1. CallsOK' /\ use' \in Uses /\ Length' = Length BY DEF Proceeds, QueueInv, Length
<1>2. PICK L : L = Length OBVIOUS
<1>3. RingOK(L, q) /\ q \in Rings(L) BY <1>2 DEF QueueInv, RingOK
<1>4. /\ L \in Nat \ {0} /\ q.n \in 0 .. L /\ q.r \in 0 .. L - 1 /\ q.w \in 0 .. L - 1
      /\ q.buf \in [0 .. L - 1 -> Items \cup {NoItem}]
  BY <1>3, RingFacts
<1>5. Contents = Held(L, q) /\ Len(Held(L, q)) = q.n BY <1>2, <1>3, ContentsHeld, HeldSeq
<1>6. q' \in Rings(L) BY <1>2 DEF Copied
<1>7. CASE pos = "back"
  <2>1. q.n < L BY <1>2, <1>7 DEF Room
  <2>2. /\ q'.w = Next(L, q.w) /\ q'.r = q.r /\ q'.n = q.n + 1
        /\ q'.buf = [q.buf EXCEPT ![q.w] = v]
    BY <1>2, <1>3, <1>7 DEF Copied, prvCopyDataToQueue, Up, Next, Rings
  <2>3. \A i \in 0 .. L - 1 : q'.buf[i] = IF i = q.w THEN v ELSE q.buf[i] BY <1>4, <2>2
  <2>4. RingOK(L, q') /\ Held(L, q') = Append(Held(L, q), v)
    <3>1. PICK x : x = q OBVIOUS
    <3>2. PICK y : y = q' OBVIOUS
    <3>3. RingOK(L, y) /\ Held(L, y) = Append(Held(L, x), v)
      <4>1. RingOK(L, x) /\ x.n < L /\ y \in Rings(L) BY <1>3, <1>6, <2>1, <3>1, <3>2
      <4>2. y.w = Next(L, x.w) /\ y.r = x.r /\ y.n = x.n + 1
        BY <2>2, <3>1, <3>2
      <4>3. \A i \in 0 .. L - 1 : y.buf[i] = IF i = x.w THEN v ELSE x.buf[i]
        BY <2>3, <3>1, <3>2
      <4> QED BY <4>1, <4>2, <4>3, PutLast
    <3> QED BY <3>1, <3>2, <3>3
  <2>5. Contents' = Append(Contents, v) BY <1>1, <1>2, <1>5, <2>4, NextContentsHeld
  <2>6. Promise!PushBack(v) BY <1>2, <1>5, <2>1, <2>5 DEF Promise!PushBack
  <2> QED BY <1>1, <1>2, <2>4, <2>6 DEF QueueInv, Promise!AbsQueueNext
<1>8. CASE pos # "back" /\ pos # "overwrite"
  <2>1. q.n < L BY <1>2, <1>8 DEF Room
  <2>2. /\ q'.w = q.w /\ q'.r = Previous(L, q.r) /\ q'.n = q.n + 1
        /\ q'.buf = [q.buf EXCEPT ![q.r] = v]
    BY <1>2, <1>3, <1>8 DEF Copied, prvCopyDataToQueue, Down, Previous, Rings
  <2>3. \A i \in 0 .. L - 1 : q'.buf[i] = IF i = q.r THEN v ELSE q.buf[i] BY <1>4, <2>2
  <2>4. RingOK(L, q') /\ Held(L, q') = <<v>> \o Held(L, q)
    <3>1. PICK x : x = q OBVIOUS
    <3>2. PICK y : y = q' OBVIOUS
    <3>3. RingOK(L, y) /\ Held(L, y) = <<v>> \o Held(L, x)
      <4>1. RingOK(L, x) /\ x.n < L /\ y \in Rings(L) BY <1>3, <1>6, <2>1, <3>1, <3>2
      <4>2. y.w = x.w /\ y.r = Previous(L, x.r) /\ y.n = x.n + 1
        BY <2>2, <3>1, <3>2
      <4>3. \A i \in 0 .. L - 1 : y.buf[i] = IF i = x.r THEN v ELSE x.buf[i]
        BY <2>3, <3>1, <3>2
      <4> QED BY <4>1, <4>2, <4>3, PutFirst
    <3> QED BY <3>1, <3>2, <3>3
  <2>5. Contents' = <<v>> \o Contents BY <1>1, <1>2, <1>5, <2>4, NextContentsHeld
  <2>6. Promise!PushFront(v) BY <1>2, <1>5, <2>1, <2>5 DEF Promise!PushFront
  <2> QED BY <1>1, <1>2, <2>4, <2>6 DEF QueueInv, Promise!AbsQueueNext
<1>9. CASE pos = "overwrite"
  <2>1. L = 1 BY <1>2, <1>9
  <2>2. /\ q'.w = q.w /\ q'.r = Previous(L, q.r) /\ q'.n = IF q.n > 0 THEN q.n ELSE q.n + 1
        /\ q'.buf = [q.buf EXCEPT ![q.r] = v]
    BY <1>2, <1>3, <1>9 DEF Copied, prvCopyDataToQueue, Down, Previous, Rings
  <2>3. q'.w = 0 /\ q'.r = 0 /\ q'.n = 1 /\ q'.buf[0] = v
    BY <1>4, <2>1, <2>2 DEF Previous
  <2>4. RingOK(L, q') BY <1>4, <1>6, <2>1, <2>3 DEF RingOK, Place, Next
  <2>5. Held(L, q') = <<v>>
    <3>1. /\ Held(L, q') \in Seq(Items) /\ Len(Held(L, q')) = q'.n
          /\ \A i \in 1 .. q'.n : Held(L, q')[i] = q'.buf[Place(L, q'.r, i)]
      BY <2>4, HeldSeq
    <3>2. Place(L, q'.r, 1) = 0 BY <2>1, <2>3 DEF Place
    <3>3. Len(Held(L, q')) = 1 /\ Held(L, q')[1] = v BY <2>3, <3>1, <3>2
    <3> QED BY <3>1, <3>3, SameSeq
  <2>6. Contents' = <<v>> BY <1>1, <1>2, <2>4, <2>5, NextContentsHeld
  <2>7. Promise!Overwrite(v) BY <1>2, <2>1, <2>6 DEF Promise!Overwrite
  <2> QED BY <1>1, <1>2, <2>4, <2>7 DEF QueueInv, Promise!AbsQueueNext
<1> QED BY <1>7, <1>8, <1>9

\* The item a read delivers is the first.
LEMMA NextItemFirst ==
  ASSUME QueueInv, q.n > 0
  PROVE  Contents # <<>> /\ NextItem = Head(Contents)
<1>1. PICK L : L = Length OBVIOUS
<1>2. RingOK(L, q) /\ Contents = Held(L, q) BY <1>1, ContentsHeld DEF QueueInv
<1>3. L \in Nat \ {0} /\ q.n \in 1 .. L /\ q.r \in 0 .. L - 1 BY <1>2, RingFacts
<1>4. /\ Held(L, q) \in Seq(Items) /\ Len(Held(L, q)) = q.n
      /\ \A i \in 1 .. q.n : Held(L, q)[i] = q.buf[Place(L, q.r, i)]
  BY <1>2, HeldSeq
<1>5. Up(q.r) = Place(L, q.r, 1) BY <1>1, <1>3 DEF Up, Place
<1> QED BY <1>2, <1>3, <1>4, <1>5 DEF NextItem

\* prvCopyDataFromQueue, as far as the sequence goes.
Taken == /\ q' \in Rings(Length) /\ q'.buf = q.buf /\ q'.w = q.w
         /\ q'.r = Up(q.r) /\ q'.n = q.n - 1

\* It removes the first item, the one that is delivered.
LEMMA CopiedFromQueue ==
  ASSUME QueueInv, Proceeds, q.n > 0, Taken, got' = NextItem
  PROVE  QueueInv' /\ Promise!AbsQueueNext
<1>1. CallsOK' /\ use' \in Uses /\ Length' = Length BY DEF Proceeds, QueueInv, Length
<1>2. PICK L : L = Length OBVIOUS
<1>3. RingOK(L, q) /\ Contents = Held(L, q) BY <1>2, ContentsHeld DEF QueueInv
<1>4. q' \in Rings(L) /\ q'.r = Next(L, q.r) BY <1>2 DEF Taken, Up, Next
<1>5. RingOK(L, q') /\ Held(L, q') = Tail(Held(L, q)) BY <1>3, <1>4, TakeFirst DEF Taken
<1>6. Contents' = Tail(Contents) BY <1>1, <1>2, <1>3, <1>5, NextContentsHeld
<1>7. Promise!Pop BY <1>6, NextItemFirst DEF Promise!Pop
<1> QED BY <1>1, <1>2, <1>5, <1>7 DEF QueueInv, Promise!AbsQueueNext

\* A ring made of parts.
LEMMA NewRing ==
  ASSUME NEW L, NEW buf \in [0 .. L - 1 -> Items \cup {NoItem}],
         NEW w \in 0 .. L - 1, NEW r \in 0 .. L - 1, NEW n \in 0 .. L, NEW tx \in Int, NEW rx \in Int
  PROVE  [buf |-> buf, w |-> w, r |-> r, n |-> n, tx |-> tx, rx |-> rx] \in Rings(L)
  BY Zenon DEF Rings

\* A peek delivers the first item and leaves it.
LEMMA Peeked ==
  ASSUME QueueInv, Proceeds, q.n > 0, UNCHANGED q, got' = NextItem
  PROVE  QueueInv' /\ Promise!AbsQueueNext
<1>1. Still BY DEF Still, QueueInv, RingOK
<1>2. QueueInv' /\ UNCHANGED <<Contents, Length>> BY <1>1, StillStutters
<1>3. Promise!Peek BY <1>2, NextItemFirst DEF Promise!Peek
<1> QED BY <1>2, <1>3 DEF Promise!AbsQueueNext

\* A reset empties the ring, whatever its cells hold.
LEMMA WasReset ==
  ASSUME QueueInv, Proceeds, UNCHANGED got, q' = [EmptyQueue EXCEPT !.buf = q.buf]
  PROVE  QueueInv' /\ Promise!AbsQueueNext
<1>1. CallsOK' /\ use' \in Uses /\ Length' = Length BY DEF Proceeds, QueueInv, Length
<1>2. PICK L : L = Length OBVIOUS
<1>3. L \in Nat \ {0} /\ q.buf \in [0 .. L - 1 -> Items \cup {NoItem}]
  BY <1>2, RingFacts DEF QueueInv
<1>4. q' = [buf |-> q.buf, w |-> 0, r |-> L - 1, n |-> 0, tx |-> queueUNLOCKED,
             rx |-> queueUNLOCKED]
  BY <1>2 DEF EmptyQueue
<1>5. RingOK(L, q')
  <2>1. q' \in Rings(L)
    <3>1. 0 \in 0 .. L - 1 /\ L - 1 \in 0 .. L - 1 /\ 0 \in 0 .. L BY <1>3
    <3>2. queueUNLOCKED \in Int BY DEF queueUNLOCKED
    <3>3. [buf |-> q.buf, w |-> 0, r |-> L - 1, n |-> 0, tx |-> queueUNLOCKED,
           rx |-> queueUNLOCKED] \in Rings(L)
      BY <1>3, <3>1, <3>2, NewRing, Zenon
    <3> QED BY <1>4, <3>3
  <2>2. q'.w = Next(L, Place(L, q'.r, q'.n)) BY <1>3, <1>4 DEF Place, Next
  <2> QED BY <1>3, <1>4, <2>1, <2>2 DEF RingOK
<1>6. Contents' = <<>>
  <2>1. Contents' = Held(L, q') BY <1>1, <1>2, <1>5, NextContentsHeld
  <2>2. Held(L, q') \in Seq(Items) /\ Len(Held(L, q')) = q'.n BY <1>5, HeldSeq
  <2>3. q'.n = 0 BY <1>4
  <2> QED BY <2>1, <2>2, <2>3
<1>7. Promise!Reset BY <1>6 DEF Promise!Reset
<1> QED BY <1>1, <1>2, <1>5, <1>7 DEF QueueInv, Promise!AbsQueueNext

(* ------------------------------- the steps ------------------------------- *)

\* Calls that return, move on or stay go on, in the sense of QueueInv.
LEMMA CallsProceed == ASSUME QueueInv, UNCHANGED use, CallsGoOn PROVE Proceeds
  BY CallsKept DEF Proceeds

\* The fields of a call.
LEMMA CallIsRecord ==
  ASSUME QueueInv, NEW t \in Tasks
  PROVE  /\ DOMAIN me = Tasks /\ DOMAIN me[t] = DOMAIN NoCall
         /\ {"pc", "op", "pos", "item"} \subseteq DOMAIN me[t]
<1>1. DOMAIN me = Tasks /\ DOMAIN me[t] = DOMAIN NoCall BY DEF QueueInv, CallsOK, CallOK
<1> QED BY <1>1 DEF NoCall

\* A step of one call that leaves alone what it was made with.
LEMMA CallGoesOn ==
  ASSUME QueueInv, UNCHANGED use, NEW t \in Tasks, me[t].pc # "idle",
         DOMAIN me' = Tasks, \A u \in Tasks \ {t} : me'[u] = me[u], DOMAIN me'[t] = DOMAIN me[t],
         me'[t].op = me[t].op, me'[t].pos = me[t].pos, me'[t].item = me[t].item
  PROVE  Proceeds
<1>1. CallsGoOn BY CallIsRecord DEF CallsGoOn
<1> QED BY <1>1, CallsProceed

\* A call that goes to its next step.
LEMMA GotoProceeds ==
  ASSUME QueueInv, UNCHANGED use, NEW t \in Tasks, me[t].pc # "idle", NEW pc, Goto(t, pc)
  PROVE  Proceeds
<1>1. /\ DOMAIN me' = Tasks /\ \A u \in Tasks \ {t} : me'[u] = me[u]
      /\ DOMAIN me'[t] = DOMAIN me[t] /\ me'[t].op = me[t].op
      /\ me'[t].pos = me[t].pos /\ me'[t].item = me[t].item
  BY CallIsRecord DEF Goto
<1> QED BY <1>1, CallGoesOn

\* A call that returns.
LEMMA ReturnProceeds ==
  ASSUME QueueInv, UNCHANGED use, NEW t \in Tasks, Return(t) PROVE Proceeds
  BY CallReturns, CallsProceed

\* A step that is not one of a call.
LEMMA StayProceeds == ASSUME QueueInv, UNCHANGED <<use, me>> PROVE Proceeds
  BY CallsStay, CallsProceed

\* A step that does not touch the queue.
LEMMA SameRing == ASSUME QueueInv, UNCHANGED q PROVE Still
  BY DEF Still, QueueInv, RingOK

\* The steps that are none of the sequence.
Quiet == Proceeds /\ Still /\ UNCHANGED got

\* Locking, waiting, timing out and giving up do not touch the ring.
LEMMA TaskQuiet ==
  ASSUME QueueInv, UNCHANGED use, NEW t \in Tasks,
         \/ Retire(t) \/ GiveUp(t) \/ Prepare(t) \/ SuspendAll(t) \/ prvLockQueue(t)
         \/ CheckForTimeOut(t) \/ CheckQueue(t) \/ ScanEventList(t) \/ PlaceOnEventList(t)
         \/ prvUnlockQueueTx(t) \/ prvUnlockQueueRx(t) \/ Resume(t) \/ YieldWithinApi(t) \/ LastLook(t)
  PROVE  Quiet
<1>1. CASE Retire(t) BY <1>1, StayProceeds, SameRing DEF Retire, Quiet
<1>2. CASE GiveUp(t) BY <1>2, ReturnProceeds, SameRing DEF GiveUp, Fail, Quiet
<1>3. CASE Prepare(t)
  <2>1. /\ DOMAIN me' = Tasks /\ \A u \in Tasks \ {t} : me'[u] = me[u]
        /\ DOMAIN me'[t] = DOMAIN me[t] /\ me'[t].op = me[t].op
        /\ me'[t].pos = me[t].pos /\ me'[t].item = me[t].item /\ me[t].pc # "idle"
    BY <1>3, CallIsRecord DEF Prepare, At
  <2> QED BY <1>3, <2>1, CallGoesOn, SameRing DEF Prepare, Quiet
<1>4. CASE SuspendAll(t) BY <1>4, GotoProceeds, SameRing DEF SuspendAll, At, Quiet
<1>5. CASE prvLockQueue(t)
  <2>1. Proceeds BY <1>5, GotoProceeds DEF prvLockQueue, At
  <2>2. q \in Rings(Length) BY DEF QueueInv, RingOK
  <2>3. q.rx \in Int /\ q.tx \in Int BY <2>2 DEF Rings
  <2>4. PICK rx : rx = IF q.rx = queueUNLOCKED THEN 0 ELSE q.rx OBVIOUS
  <2>5. PICK tx : tx = IF q.tx = queueUNLOCKED THEN 0 ELSE q.tx OBVIOUS
  <2>6. rx \in Int /\ tx \in Int BY <2>3, <2>4, <2>5
  <2>7. q' = [q EXCEPT !.rx = rx, !.tx = tx] BY <1>5, <2>4, <2>5, Zenon DEF prvLockQueue
  <2>8. Still BY <2>2, <2>6, <2>7 DEF Still, Rings
  <2> QED BY <1>5, <2>1, <2>8 DEF prvLockQueue, Quiet
<1>6. CASE CheckForTimeOut(t)
  <2>1. PICK e : \/ me' = [me EXCEPT ![t] = [@ EXCEPT !.pc = "check"]]
                 \/ me' = [me EXCEPT ![t] = [@ EXCEPT !.pc = "check", !.left = e, !.over = k.over, !.tick = k.tick]]
                 \/ me' = [me EXCEPT ![t] = [@ EXCEPT !.pc = "unlockTx", !.left = 0, !.plan = "expire"]]
    BY <1>6, Zenon DEF CheckForTimeOut
  <2>2. /\ DOMAIN me' = Tasks /\ \A u \in Tasks \ {t} : me'[u] = me[u]
        /\ DOMAIN me'[t] = DOMAIN me[t] /\ me'[t].op = me[t].op
        /\ me'[t].pos = me[t].pos /\ me'[t].item = me[t].item
    BY <2>1, CallIsRecord
  <2> QED BY <1>6, <2>2, CallGoesOn, SameRing DEF CheckForTimeOut, At, Quiet
<1>7. CASE CheckQueue(t)
  <2>1. PICK pc, plan : me' = [me EXCEPT ![t].pc = pc, ![t].plan = plan]
    BY <1>7 DEF CheckQueue
  <2>2. /\ DOMAIN me' = Tasks /\ \A u \in Tasks \ {t} : me'[u] = me[u]
        /\ DOMAIN me'[t] = DOMAIN me[t] /\ me'[t].op = me[t].op
        /\ me'[t].pos = me[t].pos /\ me'[t].item = me[t].item
    BY <2>1, CallIsRecord
  <2> QED BY <1>7, <2>2, CallGoesOn, SameRing DEF CheckQueue, At, Quiet
<1>8. CASE ScanEventList(t)
  <2>1. /\ DOMAIN me' = Tasks /\ \A u \in Tasks \ {t} : me'[u] = me[u]
        /\ DOMAIN me'[t] = DOMAIN me[t] /\ me'[t].op = me[t].op
        /\ me'[t].pos = me[t].pos /\ me'[t].item = me[t].item
    BY <1>8, CallIsRecord DEF ScanEventList
  <2> QED BY <1>8, <2>1, CallGoesOn, SameRing DEF ScanEventList, At, Quiet
<1>9. CASE PlaceOnEventList(t)
  <2>1. /\ DOMAIN me' = Tasks /\ \A u \in Tasks \ {t} : me'[u] = me[u]
        /\ DOMAIN me'[t] = DOMAIN me[t] /\ me'[t].op = me[t].op
        /\ me'[t].pos = me[t].pos /\ me'[t].item = me[t].item
    BY <1>9, CallIsRecord DEF PlaceOnEventList
  <2> QED BY <1>9, <2>1, CallGoesOn, SameRing DEF PlaceOnEventList, At, Quiet
<1>10. CASE prvUnlockQueueTx(t)
  <2>1. Proceeds BY <1>10, GotoProceeds DEF prvUnlockQueueTx, At
  <2>2. Still BY <1>10 DEF prvUnlockQueueTx, Still, QueueInv, RingOK, Rings, queueUNLOCKED
  <2> QED BY <1>10, <2>1, <2>2 DEF prvUnlockQueueTx, Quiet
<1>11. CASE prvUnlockQueueRx(t)
  <2>1. Proceeds BY <1>11, GotoProceeds DEF prvUnlockQueueRx, At
  <2>2. Still BY <1>11 DEF prvUnlockQueueRx, Still, QueueInv, RingOK, Rings, queueUNLOCKED
  <2> QED BY <1>11, <2>1, <2>2 DEF prvUnlockQueueRx, Quiet
<1>12. CASE Resume(t)
  <2>1. CASE Fail(t) BY <1>12, <2>1, ReturnProceeds, SameRing DEF Resume, Fail, Quiet
  <2>2. CASE ~Fail(t)
    <3>1. PICK pc : me' = [me EXCEPT ![t].plan = "none", ![t].pc = pc] BY <1>12, <2>2 DEF Resume
    <3>2. /\ DOMAIN me' = Tasks /\ \A u \in Tasks \ {t} : me'[u] = me[u]
          /\ DOMAIN me'[t] = DOMAIN me[t] /\ me'[t].op = me[t].op
          /\ me'[t].pos = me[t].pos /\ me'[t].item = me[t].item
      BY <3>1, CallIsRecord
    <3> QED BY <1>12, <3>2, CallGoesOn, SameRing DEF Resume, At, Quiet
  <2> QED BY <2>1, <2>2
<1>13. CASE YieldWithinApi(t) BY <1>13, GotoProceeds, SameRing DEF YieldWithinApi, At, Quiet
<1>14. CASE LastLook(t)
  <2>1. Fail(t) \/ Goto(t, "try") BY <1>14 DEF LastLook
  <2>2. Proceeds BY <1>14, <2>1, ReturnProceeds, GotoProceeds DEF LastLook, At, Fail
  <2> QED BY <1>14, <2>2, SameRing DEF LastLook, Quiet
<1> QED BY <1>1, <1>2, <1>3, <1>4, <1>5, <1>6, <1>7, <1>8, <1>9, <1>10, <1>11, <1>12, <1>13, <1>14

\* A tick does not touch the ring.
LEMMA TickQuiet == ASSUME QueueInv, UNCHANGED use, Tick PROVE Quiet
<1>1. DOMAIN me' = Tasks BY DEF Tick
<1>2. ASSUME NEW u \in Tasks
      PROVE  /\ DOMAIN me'[u] = DOMAIN me[u] /\ me'[u].op = me[u].op
             /\ me'[u].pos = me[u].pos /\ me'[u].item = me[u].item /\ me'[u].pc = me[u].pc
  BY CallIsRecord DEF Tick
<1>3. CallsGoOn BY <1>1, <1>2 DEF CallsGoOn, QueueInv, CallsOK
<1> QED BY <1>3, CallsProceed, SameRing DEF Tick, Quiet

\* Nor does a context switch.
LEMMA SwitchQuiet == ASSUME QueueInv, UNCHANGED use, NEW t, Switch(t) PROVE Quiet
  BY StayProceeds, SameRing DEF Switch, Quiet

\* A call begins with what the queue's user may ask for.
LEMMA BeginQuiet ==
  ASSUME QueueInv, UNCHANGED use, NEW t \in Tasks, NEW c \in use.calls[t], NEW v \in use.items,
         Begin(t, c, v)
  PROVE  Quiet
<1>1. v \in Items /\ (c.pos = "overwrite" => Length = 1)
  BY QueueAssumption DEF QueueInv, Length
<1>2. Length' = Length BY DEF Length
<1>3. /\ DOMAIN me' = Tasks /\ \A u \in Tasks \ {t} : me'[u] = me[u]
      /\ DOMAIN me'[t] = DOMAIN NoCall /\ me'[t].op = c.op /\ me'[t].pos = c.pos
      /\ c.op = "send" => me'[t].item = v
  BY CallIsRecord DEF Begin, NoCall
<1>4. ASSUME NEW u \in Tasks PROVE CallOK(u)'
  <2>0. \E d \in use'.calls[t] : d.op = me'[t].op BY <1>3
  <2>1. CASE u = t BY <1>1, <1>2, <1>3, <2>0, <2>1 DEF CallOK
  <2>2. CASE u # t
    <3>1. CallOK(u) BY DEF QueueInv, CallsOK
    <3> QED BY <1>2, <1>3, <2>2, <3>1 DEF CallOK
  <2> QED BY <2>1, <2>2
<1>5. Proceeds BY <1>3, <1>4 DEF Proceeds, CallsOK
<1> QED BY <1>5, SameRing DEF Begin, Quiet

\* A send copies into a ring of the same shape, whether the lock count moves or not.
LEMMA CopiedNow ==
  ASSUME QueueInv, NEW v \in Items, NEW pos, Room(pos), NEW lock \in Int,
         q' = prvCopyDataToQueue(v, pos) \/ q' = [prvCopyDataToQueue(v, pos) EXCEPT !.tx = lock]
  PROVE  Copied(v, pos)
<1>1. PICK L : L = Length OBVIOUS
<1>2. /\ q \in Rings(L) /\ L \in Nat \ {0} /\ q.n \in 0 .. L /\ q.r \in 0 .. L - 1 /\ q.w \in 0 .. L - 1
      /\ q.buf \in [0 .. L - 1 -> Items \cup {NoItem}]
  BY <1>1, RingFacts DEF QueueInv, RingOK
<1>3. PICK c : c = prvCopyDataToQueue(v, pos) OBVIOUS
<1>4. c \in Rings(L)
  <2>1. CASE pos = "back"
    <3>1. PICK b, w, n : b = [q.buf EXCEPT ![q.w] = v] /\ w = Up(q.w) /\ n = q.n + 1 OBVIOUS
    <3>2. /\ b \in [0 .. L - 1 -> Items \cup {NoItem}] /\ w \in 0 .. L - 1 /\ n \in 0 .. L
      BY <1>1, <1>2, <2>1, <3>1 DEF Room, Up
    <3>3. c = [q EXCEPT !.buf = b, !.w = w, !.n = n]
      BY <1>2, <1>3, <2>1, <3>1 DEF prvCopyDataToQueue, Rings
    <3> QED BY <1>2, <3>2, <3>3 DEF Rings
  <2>2. CASE pos # "back"
    <3>1. PICK b, r, n : /\ b = [q.buf EXCEPT ![q.r] = v] /\ r = Down(q.r)
                         /\ n = IF pos = "overwrite" /\ q.n > 0 THEN q.n ELSE q.n + 1
      OBVIOUS
    <3>2. /\ b \in [0 .. L - 1 -> Items \cup {NoItem}] /\ r \in 0 .. L - 1 /\ n \in 0 .. L
      BY <1>1, <1>2, <2>2, <3>1 DEF Room, Down
    <3>3. c = [q EXCEPT !.buf = b, !.r = r, !.n = n]
      BY <1>2, <1>3, <2>2, <3>1 DEF prvCopyDataToQueue, Rings
    <3> QED BY <1>2, <3>2, <3>3 DEF Rings
  <2> QED BY <2>1, <2>2
<1>5. /\ [c EXCEPT !.tx = lock] \in Rings(L) /\ [c EXCEPT !.tx = lock].buf = c.buf
      /\ [c EXCEPT !.tx = lock].w = c.w /\ [c EXCEPT !.tx = lock].r = c.r
      /\ [c EXCEPT !.tx = lock].n = c.n
  BY <1>4 DEF Rings
<1>6. q' \in Rings(L) /\ q'.buf = c.buf /\ q'.w = c.w /\ q'.r = c.r /\ q'.n = c.n
  BY <1>3, <1>4, <1>5
<1> QED BY <1>1, <1>3, <1>6 DEF Copied

\* xQueueGenericSend.
LEMMA SendStep ==
  ASSUME QueueInv, UNCHANGED use, NEW t \in Tasks, SendNow(t)
  PROVE  QueueInv' /\ Promise!AbsQueueNext
<1>1. Proceeds BY ReturnProceeds DEF SendNow
<1>2. me[t].item \in Items /\ (me[t].pos = "overwrite" => Length = 1)
  BY DEF SendNow, At, QueueInv, CallsOK, CallOK
<1>3. PICK v, pos : v = me[t].item /\ pos = me[t].pos OBVIOUS
<1>4. v \in Items /\ Room(pos) /\ q' = prvCopyDataToQueue(v, pos) /\ UNCHANGED got
  BY <1>2, <1>3 DEF SendNow
<1>5. Copied(v, pos)
  <2>1. 0 \in Int OBVIOUS
  <2> QED BY <1>4, <2>1, CopiedNow
<1> QED BY <1>1, <1>2, <1>3, <1>4, <1>5, CopiedToQueue

\* xQueueGenericSendFromISR, while the queue is locked too.
LEMMA SendFromISRStep ==
  ASSUME QueueInv, UNCHANGED use, NEW v \in use.items, NEW pos \in use.isr \ {"receive"},
         SendFromISR(v, pos)
  PROVE  QueueInv' /\ Promise!AbsQueueNext
<1>1. Proceeds BY StayProceeds DEF SendFromISR
<1>2. v \in Items /\ (pos = "overwrite" => Length = 1)
  BY QueueAssumption DEF QueueInv, Length
<1>3. q.tx \in Int BY DEF QueueInv, RingOK, Rings
<1>4. prvCopyDataToQueue(v, pos).tx = q.tx
  <2>1. {"buf", "w", "r", "n", "tx"} \subseteq DOMAIN q BY DEF QueueInv, RingOK, Rings
  <2> QED BY <2>1 DEF prvCopyDataToQueue
<1>5. PICK lock : lock = IF q.tx = queueUNLOCKED THEN q.tx ELSE Incremented(q.tx) OBVIOUS
<1>6. lock \in Int BY <1>3, <1>5 DEF Incremented
<1>7. q' = [prvCopyDataToQueue(v, pos) EXCEPT !.tx = lock]
  <2>1. PICK c : c = prvCopyDataToQueue(v, pos) OBVIOUS
  <2>2. q' = [c EXCEPT !.tx = IF c.tx = queueUNLOCKED THEN c.tx ELSE Incremented(c.tx)]
    BY <2>1, Zenon DEF SendFromISR
  <2> QED BY <1>4, <1>5, <2>1, <2>2
<1>8. Room(pos) /\ UNCHANGED got BY DEF SendFromISR
<1>9. Copied(v, pos) BY <1>2, <1>6, <1>7, <1>8, CopiedNow
<1> QED BY <1>1, <1>2, <1>8, <1>9, CopiedToQueue

\* A read, likewise.
LEMMA TakenNow ==
  ASSUME QueueInv, q.n > 0, NEW lock \in Int,
         q' = prvCopyDataFromQueue \/ q' = [prvCopyDataFromQueue EXCEPT !.rx = lock]
  PROVE  Taken
<1>1. PICK L : L = Length OBVIOUS
<1>2. q \in Rings(L) /\ L \in Nat \ {0} /\ q.n \in 0 .. L /\ q.r \in 0 .. L - 1
  BY <1>1, RingFacts DEF QueueInv, RingOK
<1>3. PICK r, n : r = Up(q.r) /\ n = q.n - 1 OBVIOUS
<1>4. r \in 0 .. L - 1 /\ n \in 0 .. L BY <1>1, <1>2, <1>3 DEF Up
<1>5. PICK c : c = prvCopyDataFromQueue OBVIOUS
<1>6. c = [q EXCEPT !.r = r, !.n = n] BY <1>2, <1>3, <1>5 DEF prvCopyDataFromQueue, Rings
<1>7. c \in Rings(L) /\ c.buf = q.buf /\ c.w = q.w /\ c.r = r /\ c.n = n
  BY <1>2, <1>4, <1>6 DEF Rings
<1>8. /\ [c EXCEPT !.rx = lock] \in Rings(L) /\ [c EXCEPT !.rx = lock].buf = c.buf
      /\ [c EXCEPT !.rx = lock].w = c.w /\ [c EXCEPT !.rx = lock].r = c.r
      /\ [c EXCEPT !.rx = lock].n = c.n
  BY <1>7 DEF Rings
<1>9. q' \in Rings(L) /\ q'.buf = c.buf /\ q'.w = c.w /\ q'.r = c.r /\ q'.n = c.n
  BY <1>5, <1>7, <1>8
<1> QED BY <1>1, <1>3, <1>7, <1>9 DEF Taken

\* xQueueReceive.
LEMMA ReceiveStep ==
  ASSUME QueueInv, UNCHANGED use, NEW t \in Tasks, ReceiveNow(t)
  PROVE  QueueInv' /\ Promise!AbsQueueNext
<1>1. Proceeds BY ReturnProceeds DEF ReceiveNow
<1>2. 0 \in Int OBVIOUS
<1>3. Taken BY <1>2, TakenNow DEF ReceiveNow
<1> QED BY <1>1, <1>3, CopiedFromQueue DEF ReceiveNow

\* xQueueReceiveFromISR, while the queue is locked too.
LEMMA ReceiveFromISRStep ==
  ASSUME QueueInv, UNCHANGED use, ReceiveFromISR
  PROVE  QueueInv' /\ Promise!AbsQueueNext
<1>1. Proceeds BY StayProceeds DEF ReceiveFromISR
<1>2. q.rx \in Int /\ {"r", "n", "rx"} \subseteq DOMAIN q BY DEF QueueInv, RingOK, Rings
<1>3. PICK c : c = prvCopyDataFromQueue OBVIOUS
<1>4. c.rx = q.rx BY <1>2, <1>3 DEF prvCopyDataFromQueue
<1>5. PICK lock : lock = IF q.rx = queueUNLOCKED THEN q.rx ELSE Incremented(q.rx) OBVIOUS
<1>6. lock \in Int BY <1>2, <1>5 DEF Incremented
<1>7. q' = [prvCopyDataFromQueue EXCEPT !.rx = lock]
  <2>1. q' = [c EXCEPT !.rx = IF c.rx = queueUNLOCKED THEN c.rx ELSE Incremented(c.rx)]
    BY <1>3, Zenon DEF ReceiveFromISR
  <2> QED BY <1>3, <1>4, <1>5, <2>1
<1>8. Taken BY <1>6, <1>7, TakenNow DEF ReceiveFromISR
<1> QED BY <1>1, <1>8, CopiedFromQueue DEF ReceiveFromISR

\* xQueuePeek.
LEMMA PeekStep ==
  ASSUME QueueInv, UNCHANGED use, NEW t \in Tasks, PeekNow(t)
  PROVE  QueueInv' /\ Promise!AbsQueueNext
<1>1. Proceeds BY ReturnProceeds DEF PeekNow
<1> QED BY <1>1, Peeked DEF PeekNow

\* xQueueReset.
LEMMA ResetStep ==
  ASSUME QueueInv, UNCHANGED use, NEW t \in Tasks, ResetNow(t)
  PROVE  QueueInv' /\ Promise!AbsQueueNext
<1>1. Proceeds BY ReturnProceeds DEF ResetNow
<1> QED BY <1>1, WasReset DEF ResetNow

\* What is quiet is a stutter of the sequence.
LEMMA QuietStutters ==
  ASSUME QueueInv, Quiet PROVE QueueInv' /\ UNCHANGED <<Contents, Length, got>>
  BY StillStutters DEF Quiet

\* A new queue is an empty ring.
LEMMA QueueInvInit == QueueInit => QueueInv /\ Promise!AbsQueueInit
<1> SUFFICES ASSUME QueueInit PROVE QueueInv /\ Promise!AbsQueueInit OBVIOUS
<1>1. use \in Uses /\ Length \in Nat \ {0} BY QueueAssumption DEF QueueInit, Length
<1>2. CallsOK
  <2>1. ASSUME NEW t \in Tasks PROVE me[t] = NoCall BY DEF QueueInit
  <2> QED BY <2>1 DEF QueueInit, CallsOK, CallOK, NoCall
<1>3. PICK L : L = Length OBVIOUS
<1>4. PICK buf : buf = [i \in 0 .. L - 1 |-> NoItem] OBVIOUS
<1>5. q = [buf |-> buf, w |-> 0, r |-> L - 1, n |-> 0, tx |-> queueUNLOCKED, rx |-> queueUNLOCKED]
  BY <1>3, <1>4 DEF QueueInit, EmptyQueue
<1>6. q \in Rings(L)
  <2>1. 0 \in 0 .. L - 1 /\ L - 1 \in 0 .. L - 1 /\ 0 \in 0 .. L BY <1>1, <1>3
  <2>2. queueUNLOCKED \in Int BY DEF queueUNLOCKED
  <2>3. buf \in [0 .. L - 1 -> Items \cup {NoItem}] BY <1>4
  <2>4. [buf |-> buf, w |-> 0, r |-> L - 1, n |-> 0, tx |-> queueUNLOCKED,
         rx |-> queueUNLOCKED] \in Rings(L)
    BY <2>1, <2>2, <2>3, NewRing, Zenon
  <2> QED BY <1>5, <2>4
<1>7. q.n = 0 /\ q.r = L - 1 /\ q.w = 0 BY <1>5
<1>8. RingOK(L, q)
  <2>1. q.w = Next(L, Place(L, q.r, q.n)) BY <1>1, <1>3, <1>7 DEF Place, Next
  <2> QED BY <1>1, <1>3, <1>6, <1>7, <2>1 DEF RingOK
<1>9. Contents = <<>>
  <2>1. Contents = Held(L, q) /\ Held(L, q) \in Seq(Items) /\ Len(Held(L, q)) = q.n
    BY <1>3, <1>8, ContentsHeld, HeldSeq
  <2> QED BY <1>7, <2>1
<1> QED BY <1>1, <1>2, <1>3, <1>8, <1>9 DEF QueueInv, QueueInit, Promise!AbsQueueInit

\* Every step of the queue keeps the ring in order and is a step of the sequence or none.
LEMMA QueueStep ==
  QueueInv /\ [QueueNext]_queueVars
    => QueueInv' /\ [Promise!AbsQueueNext]_<<Contents, Length, got>>
<1> SUFFICES ASSUME QueueInv, [QueueNext]_queueVars
             PROVE  QueueInv' /\ [Promise!AbsQueueNext]_<<Contents, Length, got>>
  OBVIOUS
<1>1. CASE UNCHANGED queueVars
  <2>1. Quiet BY <1>1, StayProceeds, SameRing DEF queueVars, Quiet
  <2> QED BY <2>1, QuietStutters
<1>2. CASE QueueNext
  <2> USE <1>2
  <2>1. UNCHANGED use BY DEF QueueNext
  <2>2. ASSUME NEW t \in Tasks, TaskStep(t)
        PROVE  QueueInv' /\ [Promise!AbsQueueNext]_<<Contents, Length, got>>
    <3>1. ASSUME NEW c \in use.calls[t], NEW v \in use.items, Begin(t, c, v) PROVE Quiet
      BY <2>1, <3>1, BeginQuiet
    <3>2. CASE Quiet BY <3>2, QuietStutters
    <3>3. CASE SendNow(t) BY <2>1, <3>3, SendStep
    <3>4. CASE ReceiveNow(t) BY <2>1, <3>4, ReceiveStep
    <3>5. CASE PeekNow(t) BY <2>1, <3>5, PeekStep
    <3>6. CASE ResetNow(t) BY <2>1, <3>6, ResetStep
    <3> QED BY <2>1, <2>2, <3>1, <3>2, <3>3, <3>4, <3>5, <3>6, TaskQuiet DEF TaskStep
  <2>3. ASSUME NEW t \in Tasks \cup {Idle}, Switch(t)
        PROVE  QueueInv' /\ [Promise!AbsQueueNext]_<<Contents, Length, got>>
    BY <2>1, <2>3, SwitchQuiet, QuietStutters
  <2>4. CASE ReceiveFromISR BY <2>1, <2>4, ReceiveFromISRStep
  <2>5. ASSUME NEW v \in use.items, NEW pos \in use.isr \ {"receive"}, SendFromISR(v, pos)
        PROVE  QueueInv' /\ [Promise!AbsQueueNext]_<<Contents, Length, got>>
    BY <2>1, <2>5, SendFromISRStep
  <2>6. CASE Tick BY <2>1, <2>6, TickQuiet, QuietStutters
  <2> QED BY <2>2, <2>3, <2>4, <2>5, <2>6 DEF QueueNext
<1> QED BY <1>1, <1>2

\* xQueueGenericSend, xQueueReceive, xQueuePeek, xQueueReset and their forms for
\* interrupts: whatever calls and interrupts come in whatever order, the ring delivers
\* the items of a bounded sequence.
THEOREM QueueRefines == QueueSpec => ImplementsQueue
<1>1. QueueSpec => []QueueInv
  BY QueueInvInit, QueueStep, PTL DEF QueueSpec
<1> QED BY <1>1, QueueInvInit, QueueStep, PTL DEF QueueSpec, ImplementsQueue, Promise!AbsQueueSpec

(* ------------------- the scheduler under the calls of a queue ------------------ *)

\* prvUnlockQueue, after i of the waiters.
WakesOn(x, l, f, n) == f = [i \in 0 .. n |-> IF i = 0 THEN x ELSE xTaskRemoveFromEventList(f[i - 1], l)]

\* The recursion of Unlocked goes one step further.
LEMMA WakesOnExtends ==
  ASSUME NEW x, NEW l, NEW n \in Nat, NEW f, WakesOn(x, l, f, n)
  PROVE  \E g : WakesOn(x, l, g, n + 1)
<1>1. \A i \in 0 .. n : f[i] = IF i = 0 THEN x ELSE xTaskRemoveFromEventList(f[i - 1], l) BY Zenon DEF WakesOn
<1>2. PICK v : v = xTaskRemoveFromEventList(f[n], l) OBVIOUS
<1>3. PICK g : g = [i \in 0 .. n + 1 |-> IF i = n + 1 THEN v ELSE f[i]] OBVIOUS
<1>4. ASSUME NEW i \in 0 .. n + 1
      PROVE  g[i] = IF i = 0 THEN x ELSE xTaskRemoveFromEventList(g[i - 1], l)
  <2>1. CASE i = n + 1
    <3>1. i - 1 = n /\ n \in 0 .. n + 1 /\ n # n + 1 /\ i # 0 BY <2>1
    <3>2. g[i] = v /\ g[n] = f[n] BY <1>3, <2>1, <3>1
    <3> QED BY <1>2, <2>1, <3>1, <3>2
  <2>2. CASE i # n + 1
    <3>1. i \in 0 .. n /\ (i # 0 => i - 1 \in 0 .. n + 1 /\ i - 1 # n + 1) BY <2>2
    <3>2. g[i] = f[i] /\ (i # 0 => g[i - 1] = f[i - 1]) BY <1>3, <2>2, <3>1
    <3> QED BY <1>1, <3>1, <3>2
  <2> QED BY <2>1, <2>2
<1>5. g = [i \in 0 .. n + 1 |-> g[i]] BY <1>3
<1>6. WakesOn(x, l, g, n + 1) BY <1>4, <1>5, Zenon DEF WakesOn
<1> QED BY <1>6

\* Unlocked has a value for every number of waiters.
LEMMA WakesOnExists == ASSUME NEW x, NEW l, NEW n \in Nat PROVE \E f : WakesOn(x, l, f, n)
<1> DEFINE T == {m \in Nat : \E f : WakesOn(x, l, f, m)}
<1>1. 0 \in T
  <2>1. PICK f : f = [i \in 0 .. 0 |-> x] OBVIOUS
  <2>2. \A i \in 0 .. 0 : f[i] = IF i = 0 THEN x ELSE xTaskRemoveFromEventList(f[i - 1], l) BY <2>1
  <2>3. f = [i \in 0 .. 0 |-> f[i]] BY <2>1
  <2>4. WakesOn(x, l, f, 0) BY <2>2, <2>3, Zenon DEF WakesOn
  <2> QED BY <2>4
<1>2. \A m \in Nat : m \in T => m + 1 \in T BY WakesOnExtends
<1>3. Nat \subseteq T
  <2> HIDE DEF T
  <2> QED BY <1>1, <1>2, Reaches
<1> QED BY <1>3

\* Waiters leave an event list for the tasks that are pending; nobody becomes ready.
Pended(x, y) == KernelOK(y) /\ Wakes(x, y) /\ SameTime(x, y) /\ y.swi = x.swi /\ y.st = x.st

\* A count that is not below zero.
Positive(i) == IF i > 0 THEN i ELSE 0

\* The waiters that leave an event list.
Left(x, y, l) == ToSet(x.ev[l]) \ ToSet(y.ev[l])

\* One half of prvUnlockQueue only moves waiters to the pending list: as many as the
\* lock has counted, or all.
LEMMA UnlockPends ==
  ASSUME NEW x, KernelOK(x), x.susp # 0, NEW lock \in Int, NEW l \in Lists, NEW y, y = Unlocked(x, lock, l)
  PROVE  /\ Pended(x, y) /\ ToSet(y.ev[l]) \subseteq ToSet(x.ev[l])
         /\ \A j \in Lists \ {l} : y.ev[j] = x.ev[j]
         /\ y.ev[l] # <<>> => Cardinality(Left(x, y, l)) = Positive(lock)
<1>0. x.ev[l] \in Seq(Tasks) /\ Len(x.ev[l]) \in Nat BY KernelFields DEF KernelOK
<1>1. PICK n : n = Min({Max({lock, 0}), Len(x.ev[l])}) OBVIOUS
<1>2. n \in Nat /\ n <= Len(x.ev[l]) /\ (n < Len(x.ev[l]) => n = Positive(lock))
  <2>1. Max({lock, 0}) \in {lock, 0} /\ Max({lock, 0}) >= lock /\ Max({lock, 0}) >= 0
    <3>1. \E a \in {lock, 0} : \A b \in {lock, 0} : a >= b
      <4>1. CASE lock >= 0 BY <4>1
      <4>2. CASE ~(lock >= 0) BY <4>2
      <4> QED BY <4>1, <4>2
    <3> QED BY <3>1 DEF Max
  <2>2. PICK c \in Nat : c = Max({lock, 0}) /\ c = Positive(lock) BY <2>1 DEF Positive
  <2>3. {c, Len(x.ev[l])} \subseteq Nat /\ {c, Len(x.ev[l])} # {} BY <1>0, <2>2
  <2>4. PICK S : S = {c, Len(x.ev[l])} OBVIOUS
  <2>5. Min(S) \in S /\ \A j \in S : Min(S) <= j BY <2>3, <2>4, MinLeast
  <2>6. PICK e \in Nat : e = Len(x.ev[l]) BY <1>0
  <2>7. n \in {c, e} /\ n <= c /\ n <= e BY <1>1, <2>2, <2>4, <2>5, <2>6
  <2>8. n \in Nat /\ (n < e => n = c) BY <2>7
  <2> QED BY <2>2, <2>6, <2>7, <2>8
<1>3. PICK f : f = CHOOSE g : WakesOn(x, l, g, n) OBVIOUS
<1>4. WakesOn(x, l, f, n) BY <1>2, <1>3, WakesOnExists
<1>5. y = f[n] BY <1>1, <1>3 DEF Unlocked, WakesOn
<1>6. \A i \in 0 .. n : f[i] = IF i = 0 THEN x ELSE xTaskRemoveFromEventList(f[i - 1], l)
  BY <1>4, Zenon DEF WakesOn
<1> DEFINE Moved(z, m) == /\ ToSet(z.ev[l]) \subseteq ToSet(x.ev[l]) /\ (\A j \in Lists \ {l} : z.ev[j] = x.ev[j])
                          /\ IsFiniteSet(Left(x, z, l)) /\ Cardinality(Left(x, z, l)) = m
           After(m) == /\ Pended(x, f[m]) /\ f[m].ev[l] \in Seq(Tasks) /\ Len(f[m].ev[l]) = Len(x.ev[l]) - m
                       /\ Moved(f[m], m)
           T == {m \in Nat : m <= n => After(m)}
<1>7. 0 \in T
  <2>1. f[0] = x BY <1>2, <1>6
  <2>2. Pended(x, x) BY DEF Pended, Wakes, SameTime
  <2>3. Moved(x, 0) BY FS_EmptySet DEF Left
  <2> QED BY <1>0, <2>1, <2>2, <2>3
<1>8. ASSUME NEW m \in Nat, m \in T PROVE m + 1 \in T
  <2> SUFFICES ASSUME m + 1 <= n PROVE After(m + 1) OBVIOUS
  <2>1. m + 1 \in 0 .. n /\ (m + 1) - 1 = m /\ m + 1 # 0 /\ m <= n BY <1>2
  <2>2. After(m) BY <1>8, <2>1
  <2>3. PICK a, b : a = f[m] /\ b = f[m + 1] OBVIOUS
  <2>4. b = xTaskRemoveFromEventList(a, l) BY <1>6, <2>1, <2>3
  <2>5. KernelOK(a) /\ a.ev[l] # <<>> /\ a.susp # 0
    <3>1. Pended(x, a) /\ Len(a.ev[l]) = Len(x.ev[l]) - m BY <2>2, <2>3
    <3>2. KernelOK(a) /\ a.susp # 0 BY <3>1 DEF Pended, Wakes
    <3>3. Len(a.ev[l]) > 0 BY <1>0, <1>2, <2>1, <3>1
    <3>4. a.ev[l] # <<>> BY <3>3
    <3> QED BY <3>2, <3>4
  <2>6. /\ KernelOK(b) /\ Wakes(a, b) /\ SameTime(a, b) /\ b.swi = a.swi /\ b.st = a.st /\ b.ev[l] = Tail(a.ev[l])
        /\ \A j \in Lists \ {l} : b.ev[j] = a.ev[j]
    BY <2>4, <2>5, RemoveKeeps
  <2>7. Pended(x, b) BY <2>2, <2>3, <2>6 DEF Pended, Wakes, SameTime
  <2>8. a.ev[l] \in Seq(Tasks) /\ Len(a.ev[l]) = Len(x.ev[l]) - m BY <2>2, <2>3
  <2>9. PICK s \in Seq(Tasks) : s = a.ev[l] BY <2>8
  <2>10. Tail(s) \in Seq(Tasks) /\ Len(Tail(s)) = Len(s) - 1 BY <2>5, <2>9
  <2>11. b.ev[l] \in Seq(Tasks) /\ Len(b.ev[l]) = Len(x.ev[l]) - (m + 1)
    <3>1. PICK e \in Nat : e = Len(x.ev[l]) BY <1>0
    <3>2. Len(s) = e - m /\ b.ev[l] = Tail(s) BY <2>6, <2>8, <2>9, <3>1
    <3>3. (e - m) - 1 = e - (m + 1) OBVIOUS
    <3> QED BY <2>10, <3>1, <3>2, <3>3
  <2>12. Moved(b, m + 1)
    <3>1. Moved(a, m) BY <2>2, <2>3
    <3>2. PICK h : h = Head(a.ev[l]) OBVIOUS
    <3>3. List(a.ev[l]) BY <2>5 DEF KernelOK, ListsOK
    <3>4. ToSet(b.ev[l]) = ToSet(a.ev[l]) \ {h} /\ h \in ToSet(a.ev[l]) BY <2>5, <2>6, <3>2, <3>3, TailLeaves
    <3>5. Left(x, b, l) = Left(x, a, l) \cup {h} /\ h \notin Left(x, a, l) BY <3>1, <3>4 DEF Left
    <3>6. PICK A : A = Left(x, a, l) OBVIOUS
    <3>7. IsFiniteSet(A \cup {h}) /\ Cardinality(A \cup {h}) = m + 1
      <4>1. IsFiniteSet(A) /\ Cardinality(A) = m /\ h \notin A BY <3>1, <3>5, <3>6
      <4> QED BY <4>1, FS_AddElement
    <3>8. IsFiniteSet(Left(x, b, l)) /\ Cardinality(Left(x, b, l)) = m + 1 BY <3>5, <3>6, <3>7
    <3> QED BY <2>6, <3>1, <3>4, <3>8
  <2> HIDE DEF Moved
  <2> QED BY <2>3, <2>7, <2>11, <2>12
<1>9. Nat \subseteq T
  <2> HIDE DEF T
  <2> QED BY <1>7, <1>8, Reaches
<1>10. After(n) BY <1>2, <1>9
<1>11. y.ev[l] # <<>> => Len(y.ev[l]) > 0
  <2>1. PICK s \in Seq(Tasks) : s = y.ev[l] BY <1>5, <1>10
  <2>2. s # <<>> => Len(s) > 0 OBVIOUS
  <2> QED BY <2>1, <2>2
<1> QED BY <1>0, <1>2, <1>5, <1>10, <1>11

(* -------------------- calls and the scheduler together ------------------- *)

\* A call between vTaskSuspendAll and xTaskResumeAll, and how far it is.
Within == {"lock", "timeout", "check", "place", "link", "unlockTx", "unlockRx", "resume"}
Unplaced == {"lock", "timeout", "check", "place", "link"}
QueueHeld == {"timeout", "check", "place", "link"}

Waits(t) ==
  /\ me[t].left \in TickType /\ me[t].tick \in TickType
  /\ me[t].pc \in Unplaced \cup {"suspend"} => me[t].left # 0
  /\ me[t].pc \in {"place", "link"} => me[t].plan = "block"
  /\ me[t].pc \in Within => k.cur = t /\ k.susp = 1
  /\ me[t].pc \in Within /\ (me[t].pc \in Unplaced \/ me[t].plan # "block") => k.st[t] = "ready"
  /\ me[t].pc \in QueueHeld => q.tx # queueUNLOCKED /\ q.rx # queueUNLOCKED
  /\ me[t].pc = "link" => k.ev[WaitList(t)] = me[t].seen

\* The processor is with a ready task of the highest priority, or a switch is coming.
Scheduled ==
  /\ KernelOK(k) /\ q.tx >= -1 /\ q.rx >= -1
  /\ k.susp # 0 => k.cur \in Tasks /\ me[k.cur].pc \in Within /\ NoneAbove(k)
  /\ k.susp = 0 /\ ~k.swi
       => NoneAbove(k) /\ (k.cur \in Tasks => k.st[k.cur] = "ready" \/ me[k.cur].pc = "yield")

SchedInv == Scheduled /\ \A t \in Tasks : Waits(t)

\* What the invariant says of the kernel.
LEMMA InvConsistent == ASSUME SchedInv PROVE KernelConsistent
<1>0. KernelOK(k) /\ k \in Kernels /\ TimesOK(k) /\ ListsOK(k) /\ PrioOK(k) BY DEF SchedInv, Scheduled, KernelOK
<1>1. HighestRuns(k) \/ \E t \in Tasks : k.cur = t /\ me[t].pc = "yield"
  <2> SUFFICES ASSUME k.susp = 0, ~k.swi, ~\E t \in Tasks : k.cur = t /\ me[t].pc = "yield"
               PROVE  k.cur \in TopReady(k)
    BY DEF HighestRuns
  <2>1. NoneAbove(k) /\ (k.cur \in Tasks => k.st[k.cur] = "ready") BY DEF SchedInv, Scheduled
  <2>2. k.cur \in Tasks \cup {Idle} /\ Idle \notin Tasks BY <1>0, KernelFields, KernelAssumption
  <2>3. CASE k.cur = Idle
    <3>1. \A u \in Tasks : k.prio[u] > 0 /\ k.prio[u] \in Nat BY <1>0, KernelFields DEF PrioOK
    <3>2. \A u \in Tasks : k.st[u] # "ready" BY <2>1, <2>3, <3>1 DEF NoneAbove, PrioOf
    <3>3. On(k, "ready") = {} BY <3>2 DEF On
    <3> QED BY <2>3, <3>3 DEF TopReady
  <2>4. CASE k.cur # Idle
    <3>1. k.cur \in Tasks /\ k.st[k.cur] = "ready" BY <2>1, <2>2, <2>4
    <3>2. \A u \in On(k, "ready") : k.prio[u] <= k.prio[k.cur] BY <2>1, <2>4 DEF NoneAbove, PrioOf, On
    <3>3. k.cur \in On(k, "ready") BY <3>1 DEF On
    <3> QED BY <3>2, <3>3 DEF TopReady
  <2> QED BY <2>3, <2>4
<1>2. DelayedListsSorted(k) BY <1>0 DEF TimesOK, DelayedListsSorted, On
<1>3. EventListsBlocked(k) BY <1>0 DEF ListsOK, EventListsBlocked
<1>4. \A t \in Tasks : me[t].pc = "link" => k.ev[WaitList(t)] = me[t].seen BY DEF SchedInv, Waits
<1> QED BY <1>1, <1>2, <1>3, <1>4 DEF KernelConsistent

\* The fields of a call.
LEMMA CallFields ==
  ASSUME QueueInv, NEW t \in Tasks
  PROVE  /\ DOMAIN me = Tasks
         /\ {"pc", "op", "pos", "item", "want", "left", "set", "over", "tick", "plan", "seen", "age"} = DOMAIN me[t]
<1>1. DOMAIN me = Tasks /\ DOMAIN me[t] = DOMAIN NoCall BY DEF QueueInv, CallsOK, CallOK
<1> QED BY <1>1 DEF NoCall

\* A call that a step of another task or an interrupt leaves alone.
SameCall(u) ==
  /\ me'[u].pc = me[u].pc /\ me'[u].op = me[u].op /\ me'[u].left = me[u].left
  /\ me'[u].tick = me[u].tick /\ me'[u].plan = me[u].plan /\ me'[u].seen = me[u].seen

\* What Waits says of a task is kept when neither its call nor what it depends on changes.
LEMMA WaitsOn ==
  ASSUME SchedInv, NEW u \in Tasks, SameCall(u),
         me[u].pc \in Within =>
           /\ k'.cur = k.cur /\ k'.susp = k.susp /\ (k.st[u] = "ready" => k'.st[u] = "ready")
           /\ (q.tx # queueUNLOCKED => q'.tx # queueUNLOCKED) /\ (q.rx # queueUNLOCKED => q'.rx # queueUNLOCKED)
           /\ (me[u].pc = "link" => k'.ev = k.ev)
  PROVE  Waits(u)'
<1>1. Waits(u) BY DEF SchedInv
<1>2. WaitList(u)' = WaitList(u) BY DEF SameCall, WaitList
<1>3. me'[u].pc = "link" => k'.ev[WaitList(u)'] = me'[u].seen BY <1>1, <1>2 DEF Waits, SameCall, Within
<1>4. me'[u].pc \in QueueHeld => q'.tx # queueUNLOCKED /\ q'.rx # queueUNLOCKED
  BY <1>1 DEF Waits, SameCall, Within, QueueHeld
<1>5. me'[u].pc \in Within => k'.cur = u /\ k'.susp = 1 BY <1>1 DEF Waits, SameCall
<1>6. me'[u].pc \in Within /\ (me'[u].pc \in Unplaced \/ me'[u].plan # "block") => k'.st[u] = "ready"
  BY <1>1 DEF Waits, SameCall
<1> QED BY <1>1, <1>3, <1>4, <1>5, <1>6 DEF Waits, SameCall

\* A step of the task that runs: the others are not within a call's suspension.
LEMMA TaskInv ==
  ASSUME SchedInv, NEW t \in Tasks, k.cur = t, \A u \in Tasks \ {t} : me'[u] = me[u],
         Waits(t)', Scheduled'
  PROVE  SchedInv'
<1>1. ASSUME NEW u \in Tasks \ {t} PROVE Waits(u)'
  <2>1. me[u].pc \notin Within BY DEF SchedInv, Waits
  <2>2. SameCall(u) BY DEF SameCall
  <2> QED BY <2>1, <2>2, WaitsOn
<1> QED BY <1>1 DEF SchedInv

\* Where the running task is tells whether the scheduler is suspended.
LEMMA SuspendedOrNot ==
  ASSUME SchedInv, NEW t \in Tasks, NEW pc, At(t, pc)
  PROVE  /\ k.cur = t /\ ~k.swi /\ me[t].pc = pc /\ KernelOK(k) /\ NoneAbove(k)
         /\ pc \in Within => k.susp = 1
         /\ pc \notin Within => k.susp = 0 /\ (pc # "yield" => k.st[t] = "ready")
<1>1. k.cur = t /\ ~k.swi /\ me[t].pc = pc BY DEF At, Running
<1> QED BY <1>1 DEF SchedInv, Scheduled, Waits

\* While the scheduler runs, a step that serves the tasks it wakes.
LEMMA ServedScheduled ==
  ASSUME SchedInv, k.susp = 0, Served(k, k'), q'.tx >= -1, q'.rx >= -1,
         k.cur \in Tasks /\ me[k.cur].pc = "yield" => me'[k.cur].pc = "yield"
  PROVE  Scheduled'
<1>1. KernelOK(k') /\ k'.cur = k.cur /\ k'.susp = 0 /\ (k.swi => k'.swi)
      /\ (NoneAbove(k) /\ ~k'.swi => NoneAbove(k')) /\ (\A u \in Tasks : k.st[u] = "ready" => k'.st[u] = "ready")
  BY DEF Served, Wakes
<1>2. ~k'.swi => NoneAbove(k) /\ (k.cur \in Tasks => k.st[k.cur] = "ready" \/ me[k.cur].pc = "yield")
  BY <1>1 DEF SchedInv, Scheduled
<1>3. ~k'.swi => NoneAbove(k') /\ (k'.cur \in Tasks => k'.st[k'.cur] = "ready" \/ me'[k'.cur].pc = "yield")
  BY <1>1, <1>2
<1> QED BY <1>1, <1>3 DEF Scheduled

\* ... and while it is suspended, an interrupt.
LEMMA PendedScheduled ==
  ASSUME SchedInv, k.susp # 0, KernelOK(k'), k'.cur = k.cur, k'.susp = k.susp, k'.prio = k.prio, k'.st = k.st,
         q'.tx >= -1, q'.rx >= -1, me'[k.cur].pc \in Within
  PROVE  Scheduled'
<1>1. k.cur \in Tasks /\ NoneAbove(k) BY DEF SchedInv, Scheduled
<1>2. NoneAbove(k') BY <1>1 DEF NoneAbove, PrioOf
<1> QED BY <1>1, <1>2 DEF Scheduled

\* An interrupt that leaves the calls alone.
LEMMA InterruptInv ==
  ASSUME SchedInv, Served(k, k'), \A u \in Tasks : SameCall(u), q'.tx >= -1, q'.rx >= -1,
         q.tx # queueUNLOCKED => q'.tx # queueUNLOCKED, q.rx # queueUNLOCKED => q'.rx # queueUNLOCKED,
         \A u \in Tasks : me[u].pc = "link" => k'.ev = k.ev
  PROVE  SchedInv'
<1>1. KernelOK(k') /\ k'.cur = k.cur /\ k'.susp = k.susp /\ k'.prio = k.prio
      /\ (\A u \in Tasks : k.st[u] = "ready" => k'.st[u] = "ready") /\ (k.susp # 0 => k'.st = k.st)
  BY DEF Served, Wakes
<1>2. \A u \in Tasks : Waits(u)' BY <1>1, WaitsOn
<1>3. Scheduled'
  <2>1. CASE k.susp = 0 BY <2>1, ServedScheduled DEF SameCall
  <2>2. CASE k.susp # 0
    <3>1. k.cur \in Tasks /\ me[k.cur].pc \in Within BY <2>2 DEF SchedInv, Scheduled
    <3>2. me'[k.cur].pc \in Within BY <3>1 DEF SameCall
    <3> QED BY <1>1, <2>2, <3>2, PendedScheduled
  <2> QED BY <2>1, <2>2
<1> QED BY <1>2, <1>3 DEF SchedInv

\* The lock counts.
LEMMA Locks ==
  ASSUME QueueInv, SchedInv
  PROVE  q \in Rings(Length) /\ q.tx \in Int /\ q.rx \in Int /\ q.tx >= -1 /\ q.rx >= -1
<1>1. q \in Rings(Length) BY DEF QueueInv, RingOK
<1> QED BY <1>1 DEF Rings, SchedInv, Scheduled

\* A call that returns, or is elsewhere than in the suspension.
LEMMA OutsideWaits ==
  ASSUME NEW t \in Tasks, me'[t].pc \notin Within \cup {"suspend"}, me'[t].left \in TickType, me'[t].tick \in TickType
  PROVE  Waits(t)'
  BY DEF Waits, Within, Unplaced, QueueHeld

\* A call that returns leaves nothing to be said of its task.
LEMMA ReturnWaits ==
  ASSUME QueueInv, NEW t \in Tasks, Return(t)
  PROVE  Waits(t)' /\ \A u \in Tasks \ {t} : me'[u] = me[u]
<1>1. me'[t] = NoCall /\ \A u \in Tasks \ {t} : me'[u] = me[u] BY CallFields DEF Return
<1>2. me'[t].pc = "idle" /\ me'[t].left = 0 /\ me'[t].tick = 0 BY <1>1 DEF NoCall
<1>3. me'[t].pc \notin Within \cup {"suspend"} BY <1>2 DEF Within
<1> QED BY <1>1, <1>2, <1>3, OutsideWaits, TickTypes

\* A step of a call outside the suspension.
LEMMA OutsideInv ==
  ASSUME SchedInv, NEW t \in Tasks, NEW pc, At(t, pc), pc \notin Within, pc # "yield",
         Served(k, k'), q'.tx >= -1, q'.rx >= -1, Waits(t)', \A u \in Tasks \ {t} : me'[u] = me[u]
  PROVE  SchedInv'
<1>1. k.cur = t /\ k.susp = 0 /\ me[t].pc = pc BY SuspendedOrNot
<1>2. Scheduled' BY <1>1, ServedScheduled
<1> QED BY <1>1, <1>2, TaskInv

\* The first critical section of xQueueGenericSend, when there is room.
LEMMA SendNowInv == ASSUME QueueInv, SchedInv, NEW t \in Tasks, SendNow(t) PROVE SchedInv'
<1>1. KernelOK(k) /\ "rx" \in Lists BY QueueAssumption DEF SchedInv, Scheduled
<1>2. Served(k, k') BY <1>1, WakeFirstServes DEF SendNow
<1>3. q'.tx = q.tx /\ q'.rx = q.rx BY Locks DEF SendNow, prvCopyDataToQueue, Rings
<1>4. Waits(t)' /\ \A u \in Tasks \ {t} : me'[u] = me[u] BY ReturnWaits DEF SendNow
<1>5. At(t, "try") BY DEF SendNow
<1>6. "try" \notin Within BY DEF Within
<1> QED BY <1>2, <1>3, <1>4, <1>5, <1>6, Locks, OutsideInv

\* The first critical section of xQueueReceive, when there is an item.
LEMMA ReceiveNowInv == ASSUME QueueInv, SchedInv, NEW t \in Tasks, ReceiveNow(t) PROVE SchedInv'
<1>1. KernelOK(k) /\ "tx" \in Lists BY QueueAssumption DEF SchedInv, Scheduled
<1>2. Served(k, k') BY <1>1, WakeFirstServes DEF ReceiveNow
<1>3. q'.tx = q.tx /\ q'.rx = q.rx BY Locks DEF ReceiveNow, prvCopyDataFromQueue, Rings
<1>4. Waits(t)' /\ \A u \in Tasks \ {t} : me'[u] = me[u] BY ReturnWaits DEF ReceiveNow
<1>5. At(t, "try") BY DEF ReceiveNow
<1>6. "try" \notin Within BY DEF Within
<1> QED BY <1>2, <1>3, <1>4, <1>5, <1>6, Locks, OutsideInv

\* The first critical section of xQueuePeek, when there is an item.
LEMMA PeekNowInv == ASSUME QueueInv, SchedInv, NEW t \in Tasks, PeekNow(t) PROVE SchedInv'
<1>1. KernelOK(k) /\ "rx" \in Lists BY QueueAssumption DEF SchedInv, Scheduled
<1>2. Served(k, k') BY <1>1, WakeFirstServes DEF PeekNow
<1>3. q'.tx = q.tx /\ q'.rx = q.rx BY DEF PeekNow
<1>4. Waits(t)' /\ \A u \in Tasks \ {t} : me'[u] = me[u] BY ReturnWaits DEF PeekNow
<1>5. At(t, "try") BY DEF PeekNow
<1>6. "try" \notin Within BY DEF Within
<1> QED BY <1>2, <1>3, <1>4, <1>5, <1>6, Locks, OutsideInv

\* xQueueReset.
LEMMA ResetNowInv == ASSUME QueueInv, SchedInv, NEW t \in Tasks, ResetNow(t) PROVE SchedInv'
<1>1. KernelOK(k) /\ "tx" \in Lists BY QueueAssumption DEF SchedInv, Scheduled
<1>2. Served(k, k') BY <1>1, WakeFirstServes DEF ResetNow
<1>3. q'.tx = -1 /\ q'.rx = -1 BY DEF ResetNow, EmptyQueue, queueUNLOCKED
<1>4. Waits(t)' /\ \A u \in Tasks \ {t} : me'[u] = me[u] BY ReturnWaits DEF ResetNow
<1>5. At(t, "try") BY DEF ResetNow
<1>6. "try" \notin Within BY DEF Within
<1> QED BY <1>2, <1>3, <1>4, <1>5, <1>6, OutsideInv

\* The steps that leave the kernel and the queue alone, outside the suspension.
LEMMA OutsideStays ==
  ASSUME QueueInv, SchedInv, NEW t \in Tasks, NEW pc, At(t, pc), pc \notin Within, pc # "yield",
         UNCHANGED <<k, q>>, Waits(t)', \A u \in Tasks \ {t} : me'[u] = me[u]
  PROVE  SchedInv'
<1>1. Served(k, k') BY SameServed DEF SchedInv, Scheduled
<1> QED BY <1>1, Locks, OutsideInv

\* A task makes a call.
LEMMA BeginInv ==
  ASSUME QueueInv, SchedInv, NEW t \in Tasks, NEW c \in use.calls[t], NEW v \in use.items, Begin(t, c, v)
  PROVE  SchedInv'
<1>1. c.wait \in TickType BY QueueAssumption DEF QueueInv
<1>2. /\ \A u \in Tasks \ {t} : me'[u] = me[u]
      /\ me'[t].pc = "try" /\ me'[t].left = c.wait /\ me'[t].tick = 0
  BY CallFields DEF Begin, NoCall
<1>3. me'[t].pc \notin Within \cup {"suspend"} /\ "idle" \notin Within BY <1>2 DEF Within
<1>4. Waits(t)' BY <1>1, <1>2, <1>3, OutsideWaits, TickTypes
<1>5. At(t, "idle") /\ UNCHANGED <<k, q>> BY DEF Begin
<1> QED BY <1>2, <1>3, <1>4, <1>5, OutsideStays

\* A call that may not wait fails.
LEMMA GiveUpInv == ASSUME QueueInv, SchedInv, NEW t \in Tasks, GiveUp(t) PROVE SchedInv'
<1>1. Waits(t)' /\ \A u \in Tasks \ {t} : me'[u] = me[u] BY ReturnWaits DEF GiveUp, Fail
<1>2. At(t, "try") /\ UNCHANGED <<k, q>> /\ "try" \notin Within BY DEF GiveUp, Within
<1> QED BY <1>1, <1>2, OutsideStays

\* The end of the first critical section of a call that has to wait.
LEMMA PrepareInv == ASSUME QueueInv, SchedInv, NEW t \in Tasks, Prepare(t) PROVE SchedInv'
<1>1. At(t, "try") /\ UNCHANGED <<k, q>> /\ "try" \notin Within BY DEF Prepare, Within
<1>2. k.tick \in TickType BY KernelFields DEF SchedInv, Scheduled, KernelOK
<1>3. /\ \A u \in Tasks \ {t} : me'[u] = me[u]
      /\ me'[t].pc = "suspend" /\ me'[t].left = me[t].left /\ me[t].left # 0
      /\ me'[t].tick = me[t].tick \/ me'[t].tick = k.tick
  BY CallFields DEF Prepare
<1>4. Waits(t) BY DEF SchedInv
<1>5. Waits(t)' BY <1>2, <1>3, <1>4 DEF Waits, Within, Unplaced, QueueHeld
<1> QED BY <1>1, <1>3, <1>5, OutsideStays

\* prvIsQueueEmpty after a read has expired.
LEMMA LastLookInv == ASSUME QueueInv, SchedInv, NEW t \in Tasks, LastLook(t) PROVE SchedInv'
<1>1. At(t, "last") /\ UNCHANGED <<k, q>> /\ "last" \notin Within BY DEF LastLook, Within
<1>2. CASE Return(t) BY <1>1, <1>2, ReturnWaits, OutsideStays
<1>3. CASE Goto(t, "try")
  <2>1. /\ \A u \in Tasks \ {t} : me'[u] = me[u]
        /\ me'[t].pc = "try" /\ me'[t].left = me[t].left /\ me'[t].tick = me[t].tick
    BY <1>3, CallFields DEF Goto
  <2>2. Waits(t) /\ me'[t].pc \notin Within \cup {"suspend"} BY <2>1 DEF SchedInv, Within
  <2>3. Waits(t)' BY <2>1, <2>2, OutsideWaits DEF Waits
  <2> QED BY <1>1, <2>1, <2>3, OutsideStays
<1> QED BY <1>2, <1>3 DEF LastLook, Fail

\* A task suspends itself: a switch is requested.
LEMMA RetireInv == ASSUME QueueInv, SchedInv, NEW t \in Tasks, Retire(t) PROVE SchedInv'
<1>1. At(t, "idle") /\ UNCHANGED <<q, me>> /\ "idle" \notin Within /\ k.st[t] = "ready" BY DEF Retire, Within
<1>2. KernelOK(k) /\ k.susp = 0 /\ k.cur = t BY <1>1, SuspendedOrNot
<1>3. k \in Kernels /\ k.st \in [Tasks -> States] BY <1>2, KernelFields DEF KernelOK
<1>4. PICK s : s = [k.st EXCEPT ![t] = "suspended"] OBVIOUS
<1>5. s \in [Tasks -> States] /\ s[t] = "suspended" /\ \A u \in Tasks \ {t} : s[u] = k.st[u] BY <1>3, <1>4 DEF States
<1>6. PICK x : x = [k EXCEPT !.st = s] OBVIOUS
<1>7. /\ x \in Kernels /\ x.st = s /\ x.wake = k.wake /\ x.ev = k.ev /\ x.pending = k.pending
      /\ x.prio = k.prio /\ x.cur = k.cur /\ x.susp = k.susp /\ x.tick = k.tick /\ x.next = k.next
  BY <1>3, <1>5, <1>6 DEF Kernels
<1>8. k' = portYIELD(x) BY <1>4, <1>6 DEF Retire
<1>9. ListsOK(x)
  <2>1. \A u \in Tasks : s[u] = "ready" => k.st[u] = "ready" BY <1>5
  <2>2. \A l \in Lists : ToSet(k.ev[l]) \subseteq Tasks BY <1>3, KernelFields, InList
  <2>3. ToSet(k.pending) \subseteq Tasks BY <1>3, KernelFields, InList
  <2> QED BY <1>2, <1>7, <2>1, <2>2, <2>3 DEF KernelOK, ListsOK
<1>10. TimesOK(x) BY <1>2, <1>5, <1>7 DEF KernelOK, TimesOK
<1>11. KernelOK(x) BY <1>2, <1>7, <1>9, <1>10 DEF KernelOK, PrioOK
<1>12. KernelOK(k') /\ k'.swi /\ OnlySwi(x, k') BY <1>8, <1>11, YieldKeeps
<1>13. k'.susp = 0 BY <1>2, <1>7, <1>12 DEF OnlySwi
<1>14. Scheduled' BY <1>1, <1>12, <1>13, Locks DEF Scheduled
<1>15. me[t].pc = "idle" BY <1>1, SuspendedOrNot
<1>16. Waits(t)'
  <2>1. Waits(t) BY DEF SchedInv
  <2>2. me'[t].pc \notin Within \cup {"suspend"} BY <1>1, <1>15 DEF Within
  <2> QED BY <1>1, <2>1, <2>2, OutsideWaits DEF Waits
<1> QED BY <1>1, <1>2, <1>14, <1>16, TaskInv

\* taskYIELD_WITHIN_API of a task that has blocked: the one place where a lower task runs on.
LEMMA YieldInv == ASSUME QueueInv, SchedInv, NEW t \in Tasks, YieldWithinApi(t) PROVE SchedInv'
<1>1. At(t, "yield") /\ UNCHANGED q /\ "yield" \notin Within /\ k' = portYIELD(k) BY DEF YieldWithinApi, Within
<1>2. KernelOK(k) /\ k.susp = 0 /\ k.cur = t BY <1>1, SuspendedOrNot
<1>3. KernelOK(k') /\ k'.swi /\ OnlySwi(k, k') BY <1>1, <1>2, YieldKeeps
<1>4. Scheduled' BY <1>1, <1>2, <1>3, Locks DEF Scheduled, OnlySwi
<1>5. /\ \A u \in Tasks \ {t} : me'[u] = me[u]
      /\ me'[t].pc = "try" /\ me'[t].left = me[t].left /\ me'[t].tick = me[t].tick
  BY CallFields DEF YieldWithinApi, Goto
<1>6. Waits(t) /\ me'[t].pc \notin Within \cup {"suspend"} BY <1>5 DEF SchedInv, Within
<1>7. Waits(t)' BY <1>5, <1>6, OutsideWaits DEF Waits
<1> QED BY <1>2, <1>4, <1>5, <1>7, TaskInv

\* vTaskSuspendAll: from here on the current task is not switched out.
LEMMA SuspendAllInv == ASSUME QueueInv, SchedInv, NEW t \in Tasks, SuspendAll(t) PROVE SchedInv'
<1>1. At(t, "suspend") /\ UNCHANGED q /\ "suspend" \notin Within /\ "suspend" # "yield" /\ k' = vTaskSuspendAll(k)
  BY DEF SuspendAll, Within
<1>2. KernelOK(k) /\ k.susp = 0 /\ k.cur = t /\ NoneAbove(k) /\ k.st[t] = "ready" /\ me[t].pc = "suspend"
  BY <1>1, SuspendedOrNot
<1>3. k \in Kernels BY <1>2 DEF KernelOK
<1>4. /\ k' \in Kernels /\ k'.st = k.st /\ k'.wake = k.wake /\ k'.ev = k.ev /\ k'.pending = k.pending
      /\ k'.prio = k.prio /\ k'.cur = k.cur /\ k'.susp = 1 /\ k'.tick = k.tick /\ k'.next = k.next
  <2>1. PICK n \in Nat : n = 1 OBVIOUS
  <2>2. k' = [k EXCEPT !.susp = n] BY <1>1, <1>2, <2>1 DEF vTaskSuspendAll
  <2> QED BY <1>3, <2>1, <2>2 DEF Kernels
<1>5. KernelOK(k') BY <1>2, <1>4 DEF KernelOK, PrioOK, ListsOK, TimesOK
<1>6. NoneAbove(k') BY <1>2, <1>4 DEF NoneAbove, PrioOf
<1>7. /\ \A u \in Tasks \ {t} : me'[u] = me[u]
      /\ me'[t].pc = "lock" /\ me'[t].left = me[t].left /\ me'[t].tick = me[t].tick
  BY CallFields DEF SuspendAll, Goto
<1>8. Waits(t) BY DEF SchedInv
<1>9. Waits(t)' BY <1>2, <1>4, <1>7, <1>8 DEF Waits, Within, Unplaced, QueueHeld
<1>10. Scheduled' BY <1>1, <1>2, <1>4, <1>5, <1>6, <1>7, Locks DEF Scheduled, Within
<1> QED BY <1>2, <1>7, <1>9, <1>10, TaskInv

\* A step of a call within the suspension that leaves the kernel alone.
LEMMA WithinStays ==
  ASSUME QueueInv, SchedInv, NEW t \in Tasks, NEW pc \in Within, At(t, pc), UNCHANGED k,
         q'.tx >= -1, q'.rx >= -1, me'[t].pc \in Within, Waits(t)', \A u \in Tasks \ {t} : me'[u] = me[u]
  PROVE  SchedInv'
<1>1. k.cur = t /\ k.susp = 1 /\ KernelOK(k) BY SuspendedOrNot
<1>2. Scheduled' BY <1>1, PendedScheduled
<1> QED BY <1>1, <1>2, TaskInv

\* prvLockQueue: from here on interrupts leave the event lists alone.
LEMMA LockInv == ASSUME QueueInv, SchedInv, NEW t \in Tasks, prvLockQueue(t) PROVE SchedInv'
<1>1. At(t, "lock") /\ UNCHANGED k /\ "lock" \in Within BY DEF prvLockQueue, Within
<1>2. PICK rx : rx = IF q.rx = queueUNLOCKED THEN 0 ELSE q.rx OBVIOUS
<1>3. PICK tx : tx = IF q.tx = queueUNLOCKED THEN 0 ELSE q.tx OBVIOUS
<1>4. tx >= -1 /\ rx >= -1 /\ tx # queueUNLOCKED /\ rx # queueUNLOCKED BY <1>2, <1>3, Locks DEF queueUNLOCKED
<1>5. q' = [q EXCEPT !.rx = rx, !.tx = tx] BY <1>2, <1>3, Zenon DEF prvLockQueue
<1>6. q'.tx = tx /\ q'.rx = rx BY <1>5, Locks DEF Rings
<1>7. /\ \A u \in Tasks \ {t} : me'[u] = me[u]
      /\ me'[t].pc = "timeout" /\ me'[t].left = me[t].left /\ me'[t].tick = me[t].tick
  BY CallFields DEF prvLockQueue, Goto
<1>8. Waits(t) /\ me[t].pc = "lock" BY <1>1, SuspendedOrNot DEF SchedInv
<1>9. Waits(t)' BY <1>1, <1>4, <1>6, <1>7, <1>8 DEF Waits, Within, Unplaced, QueueHeld
<1>10. me'[t].pc \in Within BY <1>7 DEF Within
<1> QED BY <1>1, <1>4, <1>6, <1>7, <1>9, <1>10, WithinStays

\* xTaskCheckForTimeOut, with the scheduler suspended.
LEMMA CheckForTimeOutInv == ASSUME QueueInv, SchedInv, NEW t \in Tasks, CheckForTimeOut(t) PROVE SchedInv'
<1>1. At(t, "timeout") /\ UNCHANGED <<k, q>> /\ "timeout" \in Within BY DEF CheckForTimeOut, Within
<1>2. Waits(t) /\ me[t].pc = "timeout" BY <1>1, SuspendedOrNot DEF SchedInv
<1>3. k.tick \in TickType BY KernelFields DEF SchedInv, Scheduled, KernelOK
<1>4. PICK e : e = Elapsed(t) OBVIOUS
<1>5. e \in TickType /\ me[t].left \in TickType \ {0} /\ \A a \in TickType : a \in 0 .. portMAX_DELAY
  <2>1. me[t].tick \in TickType /\ me[t].left \in TickType \ {0} BY <1>2 DEF Waits, Unplaced
  <2>2. PICK N : N = portMAX_DELAY OBVIOUS
  <2>3. N \in Nat /\ k.tick \in 0 .. N /\ me[t].tick \in 0 .. N BY <1>3, <2>1, <2>2, TickTypes DEF TickType
  <2>4. PICK d \in Int : d = k.tick - me[t].tick BY <2>3
  <2>5. d % (N + 1) \in 0 .. N BY <2>3
  <2> QED BY <1>4, <2>1, <2>2, <2>4, <2>5 DEF Elapsed, TickType
<1>6. e < me[t].left => me[t].left - e \in TickType \ {0}
  BY <1>5, TickTypes DEF TickType
<1>7. \/ me' = [me EXCEPT ![t] = [@ EXCEPT !.pc = "check"]]
      \/ e < me[t].left /\ me' = [me EXCEPT ![t] = [@ EXCEPT !.pc = "check", !.left = me[t].left - e, !.over = k.over, !.tick = k.tick]]
      \/ me' = [me EXCEPT ![t] = [@ EXCEPT !.pc = "unlockTx", !.left = 0, !.plan = "expire"]]
  <2>1. \/ me' = [me EXCEPT ![t] = [@ EXCEPT !.pc = "check"]]
        \/ Elapsed(t) < me[t].left /\ me' = [me EXCEPT ![t] = [@ EXCEPT !.pc = "check", !.left = me[t].left - Elapsed(t), !.over = k.over, !.tick = k.tick]]
        \/ me' = [me EXCEPT ![t] = [@ EXCEPT !.pc = "unlockTx", !.left = 0, !.plan = "expire"]]
    BY Zenon DEF CheckForTimeOut
  <2> QED BY <1>4, <2>1
<1>8. \A u \in Tasks \ {t} : me'[u] = me[u] BY <1>7, CallFields
<1>9. \/ me'[t].pc = "check" /\ me'[t].left \in TickType \ {0} /\ me'[t].tick \in TickType
      \/ me'[t].pc = "unlockTx" /\ me'[t].left \in TickType /\ me'[t].tick \in TickType
  <2>1. me[t].tick \in TickType BY <1>2 DEF Waits
  <2>2. CASE me' = [me EXCEPT ![t] = [@ EXCEPT !.pc = "check"]] BY <1>5, <2>1, <2>2, CallFields
  <2>3. CASE e < me[t].left /\ me' = [me EXCEPT ![t] = [@ EXCEPT !.pc = "check", !.left = me[t].left - e, !.over = k.over, !.tick = k.tick]]
    BY <1>3, <1>6, <2>3, CallFields
  <2>4. CASE me' = [me EXCEPT ![t] = [@ EXCEPT !.pc = "unlockTx", !.left = 0, !.plan = "expire"]]
    BY <2>1, <2>4, CallFields, TickTypes
  <2> QED BY <1>7, <2>2, <2>3, <2>4
<1>10. Waits(t)' BY <1>1, <1>2, <1>9 DEF Waits, Within, Unplaced, QueueHeld
<1>11. me'[t].pc \in Within BY <1>9 DEF Within
<1> QED BY <1>1, <1>8, <1>10, <1>11, Locks, WithinStays

\* prvIsQueueFull and prvIsQueueEmpty, with the scheduler suspended.
LEMMA CheckQueueInv == ASSUME QueueInv, SchedInv, NEW t \in Tasks, CheckQueue(t) PROVE SchedInv'
<1>1. At(t, "check") /\ UNCHANGED <<k, q>> /\ "check" \in Within BY DEF CheckQueue, Within
<1>2. Waits(t) /\ me[t].pc = "check" BY <1>1, SuspendedOrNot DEF SchedInv
<1>3. \/ me' = [me EXCEPT ![t].pc = "place", ![t].plan = "block"]
      \/ me' = [me EXCEPT ![t].pc = "unlockTx", ![t].plan = "retry"]
  BY DEF CheckQueue
<1>4. \A u \in Tasks \ {t} : me'[u] = me[u] BY <1>3, CallFields
<1>5. /\ me'[t].left = me[t].left /\ me'[t].tick = me[t].tick
      /\ (me'[t].pc = "place" /\ me'[t].plan = "block") \/ (me'[t].pc = "unlockTx" /\ me'[t].plan = "retry")
  BY <1>3, CallFields
<1>6. Waits(t)' BY <1>1, <1>2, <1>5 DEF Waits, Within, Unplaced, QueueHeld
<1>7. me'[t].pc \in Within BY <1>5 DEF Within
<1> QED BY <1>1, <1>4, <1>6, <1>7, Locks, WithinStays

\* vListInsert walks through a list that the lock keeps as it is.
LEMMA ScanInv == ASSUME QueueInv, SchedInv, NEW t \in Tasks, ScanEventList(t) PROVE SchedInv'
<1>1. At(t, "place") /\ UNCHANGED <<k, q>> /\ "place" \in Within BY DEF ScanEventList, Within
<1>2. Waits(t) /\ me[t].pc = "place" BY <1>1, SuspendedOrNot DEF SchedInv
<1>3. /\ \A u \in Tasks \ {t} : me'[u] = me[u]
      /\ me'[t].pc = "link" /\ me'[t].left = me[t].left /\ me'[t].tick = me[t].tick /\ me'[t].op = me[t].op
      /\ me'[t].plan = me[t].plan /\ me'[t].seen = k.ev[WaitList(t)]
  BY CallFields DEF ScanEventList
<1>4. WaitList(t)' = WaitList(t) BY <1>3 DEF WaitList
<1>5. Waits(t)' BY <1>1, <1>2, <1>3, <1>4 DEF Waits, Within, Unplaced, QueueHeld
<1>6. me'[t].pc \in Within BY <1>3 DEF Within
<1> QED BY <1>1, <1>3, <1>5, <1>6, Locks, WithinStays

\* vTaskPlaceOnEventList: the current task is linked in and leaves the ready list.
LEMMA PlaceInv == ASSUME QueueInv, SchedInv, NEW t \in Tasks, PlaceOnEventList(t) PROVE SchedInv'
<1>1. At(t, "link") /\ UNCHANGED q /\ "link" \in Within /\ k' = vTaskPlaceOnEventList(k, WaitList(t), me[t].left)
  BY DEF PlaceOnEventList, Within
<1>2. /\ Waits(t) /\ me[t].pc = "link" /\ KernelOK(k) /\ k.cur = t /\ k.susp = 1 /\ NoneAbove(k)
  BY <1>1, SuspendedOrNot DEF SchedInv
<1>3. me[t].left \in TickType \ {0} /\ k.st[t] = "ready" /\ me[t].plan = "block"
  BY <1>2 DEF Waits, Within, Unplaced
<1>4. WaitList(t) \in Lists BY QueueAssumption DEF WaitList
<1>5. Blocked(k, k') BY <1>1, <1>2, <1>3, <1>4, PlaceBlocks
<1>6. /\ \A u \in Tasks \ {t} : me'[u] = me[u]
      /\ me'[t].pc = "unlockTx" /\ me'[t].left = me[t].left /\ me'[t].tick = me[t].tick /\ me'[t].plan = me[t].plan
  BY CallFields DEF PlaceOnEventList
<1>7. Waits(t)' BY <1>2, <1>3, <1>5, <1>6 DEF Waits, Within, Unplaced, QueueHeld, Blocked
<1>8. NoneAbove(k') BY <1>2, <1>5 DEF NoneAbove, PrioOf, Blocked
<1>9. Scheduled' BY <1>1, <1>2, <1>5, <1>6, <1>8, Locks DEF Scheduled, Within, Blocked
<1> QED BY <1>2, <1>6, <1>7, <1>9, TaskInv

\* Half of prvUnlockQueue.
LEMMA UnlockStep ==
  ASSUME QueueInv, SchedInv, NEW t \in Tasks, NEW pc \in {"unlockTx", "unlockRx"}, At(t, pc), NEW l \in Lists,
         NEW lock \in Int, k' = Unlocked(k, lock, l), q'.tx >= -1, q'.rx >= -1,
         NEW pc2 \in {"unlockRx", "resume"}, Goto(t, pc2)
  PROVE  SchedInv'
<1>1. pc \in Within /\ pc2 \in Within BY DEF Within
<1>2. Waits(t) /\ me[t].pc = pc /\ KernelOK(k) /\ k.cur = t /\ k.susp = 1
  BY <1>1, SuspendedOrNot DEF SchedInv
<1>3. Pended(k, k') BY <1>2, UnlockPends
<1>4. /\ \A u \in Tasks \ {t} : me'[u] = me[u]
      /\ me'[t].pc = pc2 /\ me'[t].left = me[t].left /\ me'[t].tick = me[t].tick /\ me'[t].plan = me[t].plan
  BY CallFields DEF Goto
<1>5. Waits(t)' BY <1>1, <1>2, <1>3, <1>4 DEF Waits, Unplaced, QueueHeld, Pended, Wakes
<1>6. Scheduled' BY <1>1, <1>2, <1>3, <1>4, PendedScheduled DEF Pended, Wakes
<1> QED BY <1>2, <1>4, <1>5, <1>6, TaskInv

\* The first half of prvUnlockQueue.
LEMMA UnlockTxInv == ASSUME QueueInv, SchedInv, NEW t \in Tasks, prvUnlockQueueTx(t) PROVE SchedInv'
<1>1. q'.tx = -1 /\ q'.rx = q.rx BY Locks DEF prvUnlockQueueTx, Rings, queueUNLOCKED
<1>2. At(t, "unlockTx") /\ "rx" \in Lists /\ k' = Unlocked(k, q.tx, "rx") /\ Goto(t, "unlockRx")
  BY QueueAssumption DEF prvUnlockQueueTx
<1> QED BY <1>1, <1>2, Locks, UnlockStep

\* The second half of prvUnlockQueue.
LEMMA UnlockRxInv == ASSUME QueueInv, SchedInv, NEW t \in Tasks, prvUnlockQueueRx(t) PROVE SchedInv'
<1>1. q'.rx = -1 /\ q'.tx = q.tx BY Locks DEF prvUnlockQueueRx, Rings, queueUNLOCKED
<1>2. At(t, "unlockRx") /\ "tx" \in Lists /\ k' = Unlocked(k, q.rx, "tx") /\ Goto(t, "resume")
  BY QueueAssumption DEF prvUnlockQueueRx
<1> QED BY <1>1, <1>2, Locks, UnlockStep

\* xTaskResumeAll: the pending tasks are released and the switch they need is requested.
LEMMA ResumeInv == ASSUME QueueInv, SchedInv, NEW t \in Tasks, Resume(t) PROVE SchedInv'
<1>1. At(t, "resume") /\ UNCHANGED q /\ "resume" \in Within /\ k' = xTaskResumeAll(k) BY DEF Resume, Within
<1>2. /\ Waits(t) /\ me[t].pc = "resume" /\ KernelOK(k) /\ k.cur = t /\ k.susp = 1 /\ NoneAbove(k) /\ ~k.swi
  BY <1>1, SuspendedOrNot DEF SchedInv
<1>3. /\ KernelOK(k') /\ k'.cur = t /\ k'.susp = 0 /\ k'.swi = k'.yield
      /\ (\A u \in Tasks : k.st[u] = "ready" => k'.st[u] = "ready") /\ (~k'.swi => NoneAbove(k'))
  <2>1. PICK x : x = k' OBVIOUS
  <2>2. /\ KernelOK(x) /\ x.cur = k.cur /\ x.susp = 0 /\ x.swi = (k.swi \/ x.yield)
        /\ \A u \in Tasks : k.st[u] = "ready" => x.st[u] = "ready"
        /\ NoneAbove(k) /\ ~x.swi => NoneAbove(x)
    BY <1>1, <1>2, <2>1, KernelWoken, ResumeServes
  <2>3. x.swi \in BOOLEAN /\ x.yield \in BOOLEAN BY <2>2, KernelFields DEF KernelOK
  <2>4. x.swi = x.yield BY <1>2, <2>2, <2>3
  <2> QED BY <1>2, <2>1, <2>2, <2>4
<1>4. /\ \A u \in Tasks \ {t} : me'[u] = me[u]
      /\ Waits(t)' /\ (me[t].plan = "block" /\ ~k'.yield => me'[t].pc = "yield")
  <2>1. CASE me[t].plan = "expire" /\ me[t].op = "send"
    <3>1. Return(t) BY <2>1 DEF Resume, Fail
    <3> QED BY <2>1, <3>1, ReturnWaits
  <2>2. CASE ~(me[t].plan = "expire" /\ me[t].op = "send")
    <3>1. PICK pc : /\ me' = [me EXCEPT ![t].plan = "none", ![t].pc = pc]
                    /\ pc \in {"try", "yield", "last"}
                    /\ me[t].plan = "block" /\ ~k'.yield => pc = "yield"
      BY <2>2 DEF Resume
    <3>2. /\ \A u \in Tasks \ {t} : me'[u] = me[u]
          /\ me'[t].pc = pc /\ me'[t].left = me[t].left /\ me'[t].tick = me[t].tick
      BY <3>1, CallFields
    <3>3. me'[t].pc \notin Within \cup {"suspend"} BY <3>1, <3>2 DEF Within
    <3>4. Waits(t)' BY <1>2, <3>2, <3>3, OutsideWaits DEF Waits
    <3> QED BY <3>1, <3>2, <3>4
  <2> QED BY <2>1, <2>2
<1>5. me[t].plan # "block" => k'.st[t] = "ready" BY <1>1, <1>2, <1>3 DEF Waits
<1>6. Scheduled' BY <1>1, <1>3, <1>4, <1>5, Locks DEF Scheduled
<1> QED BY <1>2, <1>4, <1>6, TaskInv

\* xQueueGenericSendFromISR: a waiter is woken only when the queue is not locked.
LEMMA SendFromISRInv ==
  ASSUME QueueInv, SchedInv, NEW v, NEW pos, SendFromISR(v, pos) PROVE SchedInv'
<1>1. KernelOK(k) /\ "rx" \in Lists BY QueueAssumption DEF SchedInv, Scheduled
<1>2. Served(k, k')
  <2>1. CASE q.tx = queueUNLOCKED BY <1>1, <2>1, WakeFirstServes DEF SendFromISR
  <2>2. CASE q.tx # queueUNLOCKED BY <1>1, <2>2, SameServed DEF SendFromISR
  <2> QED BY <2>1, <2>2
<1>3. \A u \in Tasks : SameCall(u) BY DEF SameCall, SendFromISR
<1>4. PICK c : c = prvCopyDataToQueue(v, pos) OBVIOUS
<1>5. c.tx = q.tx /\ c.rx = q.rx /\ {"tx", "rx"} \subseteq DOMAIN c BY <1>4, Locks DEF prvCopyDataToQueue, Rings
<1>6. q' = [c EXCEPT !.tx = IF c.tx = queueUNLOCKED THEN c.tx ELSE Incremented(c.tx)] BY <1>4 DEF SendFromISR
<1>7. q'.rx = q.rx /\ q'.tx = IF q.tx = queueUNLOCKED THEN q.tx ELSE Incremented(q.tx) BY <1>5, <1>6
<1>8. q.tx # queueUNLOCKED => Incremented(q.tx) >= -1 /\ Incremented(q.tx) # queueUNLOCKED
  BY Locks DEF Incremented, queueUNLOCKED
<1>9. \A u \in Tasks : me[u].pc = "link" => k'.ev = k.ev
  BY DEF SchedInv, Waits, QueueHeld, SendFromISR
<1> QED BY <1>2, <1>3, <1>7, <1>8, <1>9, Locks, InterruptInv

\* xQueueReceiveFromISR: a waiter is woken only when the queue is not locked.
LEMMA ReceiveFromISRInv == ASSUME QueueInv, SchedInv, ReceiveFromISR PROVE SchedInv'
<1>1. KernelOK(k) /\ "tx" \in Lists BY QueueAssumption DEF SchedInv, Scheduled
<1>2. Served(k, k')
  <2>1. CASE q.rx = queueUNLOCKED BY <1>1, <2>1, WakeFirstServes DEF ReceiveFromISR
  <2>2. CASE q.rx # queueUNLOCKED BY <1>1, <2>2, SameServed DEF ReceiveFromISR
  <2> QED BY <2>1, <2>2
<1>3. \A u \in Tasks : SameCall(u) BY DEF SameCall, ReceiveFromISR
<1>4. PICK c : c = prvCopyDataFromQueue OBVIOUS
<1>5. c.tx = q.tx /\ c.rx = q.rx /\ {"tx", "rx"} \subseteq DOMAIN c BY <1>4, Locks DEF prvCopyDataFromQueue, Rings
<1>6. q' = [c EXCEPT !.rx = IF c.rx = queueUNLOCKED THEN c.rx ELSE Incremented(c.rx)] BY <1>4 DEF ReceiveFromISR
<1>7. q'.tx = q.tx /\ q'.rx = IF q.rx = queueUNLOCKED THEN q.rx ELSE Incremented(q.rx) BY <1>5, <1>6
<1>8. q.rx # queueUNLOCKED => Incremented(q.rx) >= -1 /\ Incremented(q.rx) # queueUNLOCKED
  BY Locks DEF Incremented, queueUNLOCKED
<1>9. \A u \in Tasks : me[u].pc = "link" => k'.ev = k.ev
  BY DEF SchedInv, Waits, QueueHeld, ReceiveFromISR
<1> QED BY <1>2, <1>3, <1>7, <1>8, <1>9, Locks, InterruptInv

\* xPortSysTickHandler.
LEMMA TickInv == ASSUME QueueInv, SchedInv, Tick PROVE SchedInv'
<1>1. KernelOK(k) BY DEF SchedInv, Scheduled
<1>2. Served(k, k') /\ (k.susp # 0 => k'.ev = k.ev) BY <1>1, TickServes DEF Tick
<1>3. ASSUME NEW u \in Tasks PROVE SameCall(u) BY CallFields DEF SameCall, Tick
<1>4. \A u \in Tasks : me[u].pc = "link" => k'.ev = k.ev BY <1>2 DEF SchedInv, Waits, Within
<1> QED BY <1>2, <1>3, <1>4, Locks, InterruptInv DEF Tick

\* vTaskSwitchContext, which keeps the current task while the scheduler is suspended.
LEMMA SwitchInv == ASSUME QueueInv, SchedInv, NEW t \in Tasks \cup {Idle}, Switch(t) PROVE SchedInv'
<1>1. KernelOK(k) /\ k \in Kernels BY DEF SchedInv, Scheduled, KernelOK
<1>2. PICK b \in BOOLEAN : b = (k.susp # 0) OBVIOUS
<1>3. k' = [k EXCEPT !.swi = FALSE, !.yield = b, !.cur = t] BY <1>2 DEF Switch, vTaskSwitchContext
<1>4. /\ k' \in Kernels /\ k'.st = k.st /\ k'.wake = k.wake /\ k'.ev = k.ev /\ k'.pending = k.pending
      /\ k'.prio = k.prio /\ k'.cur = t /\ k'.susp = k.susp /\ k'.tick = k.tick /\ k'.next = k.next
  BY <1>1, <1>3 DEF Kernels
<1>5. KernelOK(k') BY <1>1, <1>4 DEF KernelOK, PrioOK, ListsOK, TimesOK
<1>6. k.susp # 0 => t = k.cur BY DEF Switch, SwitchTo
<1>7. ASSUME NEW u \in Tasks PROVE Waits(u)'
  <2>1. SameCall(u) /\ UNCHANGED q BY DEF SameCall, Switch
  <2>2. me[u].pc \in Within => k'.cur = k.cur BY <1>4, <1>6 DEF SchedInv, Waits
  <2> QED BY <1>4, <2>1, <2>2, WaitsOn
<1>8. Scheduled'
  <2>1. CASE k.susp # 0
    <3>1. k.cur \in Tasks /\ me[k.cur].pc \in Within BY <2>1 DEF SchedInv, Scheduled
    <3> QED BY <1>4, <1>5, <1>6, <2>1, <3>1, Locks, PendedScheduled DEF Switch
  <2>2. CASE k.susp = 0
    <3>1. t \in TopReady(k) BY <2>2 DEF Switch, SwitchTo
    <3>2. \A u \in Tasks : k.prio[u] \in Nat BY <1>1, KernelFields
    <3>3. t \in Tasks => k.st[t] = "ready" BY <3>1, KernelAssumption DEF TopReady, On
    <3>4. NoneAbove(k')
      <4>1. CASE On(k, "ready") = {} BY <1>4, <4>1 DEF On, NoneAbove
      <4>2. CASE On(k, "ready") # {}
        <5>1. t \in Tasks /\ t # Idle /\ \A u \in On(k, "ready") : k.prio[u] <= k.prio[t]
          BY <3>1, <4>2, KernelAssumption DEF TopReady, On
        <5> QED BY <1>4, <5>1 DEF On, NoneAbove, PrioOf
      <4> QED BY <4>1, <4>2
    <3> QED BY <1>4, <1>5, <2>2, <3>3, <3>4, Locks DEF Scheduled, Switch
  <2> QED BY <2>1, <2>2
<1> QED BY <1>7, <1>8 DEF SchedInv

\* The scheduler invariant holds at the start.
LEMMA SchedInit == QueueInit => SchedInv
<1> SUFFICES ASSUME QueueInit PROVE SchedInv OBVIOUS
<1>1. PICK s : s = [t \in Tasks |-> IF use.calls[t] = {} THEN "suspended" ELSE "ready"] OBVIOUS
<1>2. k = [KernelInit EXCEPT !.st = s] BY <1>1 DEF QueueInit
<1>3. s \in [Tasks -> States] /\ \A t \in Tasks : s[t] # "delayed" /\ s[t] # "overflow" BY <1>1 DEF States
<1>4. PICK w, e, p, b : /\ w = [t \in Tasks |-> 0] /\ e = [l \in Lists |-> <<>>] /\ p = <<>>
                        /\ b = [t \in Tasks |-> BasePrio[t]] OBVIOUS
<1>5. /\ w \in [Tasks -> TickType] /\ e \in [Lists -> Seq(Tasks)] /\ p \in Seq(Tasks) /\ b \in [Tasks -> Nat]
  BY <1>4, TickTypes, KernelAssumption
<1>6. /\ k.st = s /\ k.wake = w /\ k.ev = e /\ k.pending = p /\ k.prio = b /\ k.cur = Idle /\ k.susp = 0
      /\ k.tick = 0 /\ k.swi = TRUE
  BY <1>2, <1>4 DEF KernelInit
<1>7. k \in Kernels
  <2>1. 0 \in TickType /\ portMAX_DELAY \in TickType /\ 0 \in Overflows BY TickTypes DEF Overflows
  <2>2. k = [st |-> s, wake |-> w, ev |-> e, pending |-> p, prio |-> b, cur |-> Idle, susp |-> 0, tick |-> 0,
             over |-> 0, next |-> portMAX_DELAY, pended |-> 0, yield |-> FALSE, swi |-> TRUE]
    BY <1>2, <1>4 DEF KernelInit
  <2> QED BY <1>3, <1>5, <2>1, <2>2 DEF Kernels
<1>8. PrioOK(k) BY <1>4, <1>6, KernelAssumption DEF PrioOK
<1>9. TimesOK(k) BY <1>3, <1>6 DEF TimesOK
<1>10. ListsOK(k)
  <2>1. List(<<>>) /\ ToSet(<<>>) = {} BY DEF List, ToSet
  <2>2. k.pending = <<>> /\ \A l \in Lists : k.ev[l] = <<>> BY <1>4, <1>6
  <2> QED BY <2>1, <2>2 DEF ListsOK
<1>11. Scheduled
  <2>1. q.tx = -1 /\ q.rx = -1 BY DEF QueueInit, EmptyQueue, queueUNLOCKED
  <2> QED BY <1>6, <1>7, <1>8, <1>9, <1>10, <2>1 DEF Scheduled, KernelOK
<1>12. ASSUME NEW t \in Tasks PROVE Waits(t)
  <2>1. me[t].pc = "idle" /\ me[t].left = 0 /\ me[t].tick = 0 BY DEF QueueInit, NoCall
  <2> QED BY <2>1, TickTypes DEF Waits, Within, Unplaced, QueueHeld
<1> QED BY <1>11, <1>12 DEF SchedInv

\* Every step keeps the scheduler invariant.
LEMMA SchedStep == QueueInv /\ SchedInv /\ [QueueNext]_queueVars => SchedInv'
<1> SUFFICES ASSUME QueueInv, SchedInv, [QueueNext]_queueVars PROVE SchedInv' OBVIOUS
<1>1. CASE UNCHANGED queueVars
  BY <1>1 DEF queueVars, SchedInv, Scheduled, Waits, WaitList
<1>2. ASSUME NEW t \in Tasks, TaskStep(t) PROVE SchedInv'
  <2>1. CASE \E c \in use.calls[t], v \in use.items : Begin(t, c, v) BY <2>1, BeginInv
  <2>2. CASE Retire(t) \/ SendNow(t) \/ ReceiveNow(t) \/ PeekNow(t) \/ ResetNow(t) \/ GiveUp(t) \/ Prepare(t)
    BY <2>2, RetireInv, SendNowInv, ReceiveNowInv, PeekNowInv, ResetNowInv, GiveUpInv, PrepareInv
  <2>3. CASE SuspendAll(t) \/ prvLockQueue(t) \/ CheckForTimeOut(t) \/ CheckQueue(t) \/ ScanEventList(t) \/ PlaceOnEventList(t)
    BY <2>3, SuspendAllInv, LockInv, CheckForTimeOutInv, CheckQueueInv, ScanInv, PlaceInv
  <2>4. CASE prvUnlockQueueTx(t) \/ prvUnlockQueueRx(t) \/ Resume(t) \/ YieldWithinApi(t) \/ LastLook(t)
    BY <2>4, UnlockTxInv, UnlockRxInv, ResumeInv, YieldInv, LastLookInv
  <2> QED BY <1>2, <2>1, <2>2, <2>3, <2>4 DEF TaskStep
<1>3. CASE QueueNext BY <1>2, <1>3, SwitchInv, ReceiveFromISRInv, SendFromISRInv, TickInv DEF QueueNext
<1> QED BY <1>1, <1>3

\* tasks.c under the calls of queue.c: outside a suspension and with no switch requested
\* a ready task of the highest priority runs (but for a task that has blocked and is
\* about to yield), every blocked task is in the delayed list its time belongs to and in
\* at most one event list, and no interrupt changes an event list while prvLockQueue's
\* owner inserts itself.
THEOREM KernelStaysConsistent == QueueSpec => []KernelConsistent
<1>1. QueueSpec => []QueueInv
  BY QueueInvInit, QueueStep, PTL DEF QueueSpec
<1>2. QueueSpec => []SchedInv
  BY <1>1, SchedInit, SchedStep, PTL DEF QueueSpec
<1>3. SchedInv => KernelConsistent BY InvConsistent
<1> QED BY <1>2, <1>3, PTL

(* --------------------------------- timeouts ------------------------------- *)

\* What a call knows of its time.
Timed(t) ==
  /\ TimeOutOK(me[t]) /\ me[t].set \in BOOLEAN
  /\ me[t].want = portMAX_DELAY => me[t].left = portMAX_DELAY
  /\ me[t].left = 0 => me[t].age = me[t].want
  /\ me[t].set = FALSE => me[t].left = me[t].want
  /\ me[t].set = TRUE => Counted(k, me[t], k.pended)
  /\ me[t].pc \in {"suspend", "lock", "timeout"} => me[t].set = TRUE
  /\ me[t].pc \in {"unlockTx", "unlockRx", "resume"} => me[t].plan \in {"block", "retry", "expire"}
  /\ me[t].plan = "expire" \/ me[t].pc = "last" => me[t].left = 0

TimedInv ==
  /\ early = FALSE /\ (k.susp = 0 => k.pended = 0)
  /\ \A t \in Tasks : Timed(t)

\* A call that notes no time and fails not.
SameTimer(u) ==
  /\ me'[u].want = me[u].want /\ me'[u].left = me[u].left /\ me'[u].set = me[u].set
  /\ me'[u].over = me[u].over /\ me'[u].tick = me[u].tick /\ me'[u].age = me[u].age

\* The time of a call is right as long as neither the call nor the clock changes.
LEMMA TimerKept ==
  ASSUME TimedInv, NEW u \in Tasks, SameTimer(u), SameTime(k, k'),
         me'[u].pc \in {"suspend", "lock", "timeout"} => me[u].set = TRUE,
         me'[u].pc \in {"unlockTx", "unlockRx", "resume"} => me'[u].plan \in {"block", "retry", "expire"},
         me'[u].plan = "expire" \/ me'[u].pc = "last" => me[u].left = 0
  PROVE  Timed(u)'
<1>1. Timed(u) BY DEF TimedInv
<1>2. TimeOutOK(me'[u]) BY <1>1 DEF Timed, TimeOutOK, SameTimer
<1>3. me'[u].set = TRUE => Counted(k', me'[u], k'.pended)
  BY <1>1 DEF Timed, SameTimer, SameTime, Counted, SameRound, Since
<1> QED BY <1>1, <1>2, <1>3 DEF Timed, SameTimer

\* A step of one task that leaves the clock alone leaves the times of the others.
LEMMA OthersTimed ==
  ASSUME TimedInv, NEW u \in Tasks, me'[u] = me[u], SameTime(k, k') PROVE Timed(u)'
<1>1. Timed(u) BY DEF TimedInv
<1> QED BY <1>1, TimerKept DEF Timed, SameTimer

\* A step of one call in which no tick is counted.
LEMMA TimedStep ==
  ASSUME TimedInv, NEW t \in Tasks, \A u \in Tasks \ {t} : me'[u] = me[u], SameTime(k, k'), Timed(t)',
         k'.susp = 0 => k.susp = 0, UNCHANGED early
  PROVE  TimedInv'
<1>1. \A u \in Tasks : Timed(u)' BY OthersTimed
<1> QED BY <1>1 DEF TimedInv, SameTime

\* No call: no time to wait.
LEMMA NoCallTimed == ASSUME NEW t \in Tasks, me'[t] = NoCall PROVE Timed(t)'
<1>1. /\ me'[t].pc = "idle" /\ me'[t].want = 0 /\ me'[t].left = 0 /\ me'[t].set = FALSE /\ me'[t].over = 0
      /\ me'[t].tick = 0 /\ me'[t].plan = "none" /\ me'[t].age = 0
  BY DEF NoCall
<1>2. TimeOutOK(me'[t]) BY <1>1, TickTypes DEF TimeOutOK, Overflows
<1>3. portMAX_DELAY # 0 BY SomeDelay, TickTypes
<1> QED BY <1>1, <1>2, <1>3 DEF Timed

\* A call that returns leaves no time to account for.
LEMMA ReturnTimed ==
  ASSUME QueueInv, NEW t \in Tasks, Return(t)
  PROVE  Timed(t)' /\ \A u \in Tasks \ {t} : me'[u] = me[u]
<1>1. me'[t] = NoCall /\ \A u \in Tasks \ {t} : me'[u] = me[u] BY CallFields DEF Return
<1> QED BY <1>1, NoCallTimed

\* A call that fails has waited for all of its time.
LEMMA FailsInTime ==
  ASSUME TimedInv, NEW t \in Tasks, Fail(t), me[t].left = 0 PROVE early' = FALSE
<1>1. Timed(t) BY DEF TimedInv
<1>2. me[t].want # portMAX_DELAY BY <1>1, SomeDelay, TickTypes DEF Timed
<1>3. me[t].age = me[t].want /\ me[t].want \in Nat BY <1>1, TickTypes DEF Timed, TimeOutOK, TickType
<1>4. ~(me[t].age < me[t].want) BY <1>3
<1>5. early = FALSE BY DEF TimedInv
<1> QED BY <1>2, <1>4, <1>5, Zenon DEF Fail

\* A call that succeeds.
LEMMA SuccessTimed ==
  ASSUME QueueInv, SchedInv, TimedInv, NEW t \in Tasks,
         SendNow(t) \/ ReceiveNow(t) \/ PeekNow(t) \/ ResetNow(t)
  PROVE  TimedInv'
<1>1. KernelOK(k) /\ "rx" \in Lists /\ "tx" \in Lists BY QueueAssumption DEF SchedInv, Scheduled
<1>2. Return(t) /\ UNCHANGED early BY DEF SendNow, ReceiveNow, PeekNow, ResetNow
<1>3. k' = WakeFirst(k, "rx") \/ k' = WakeFirst(k, "tx") BY DEF SendNow, ReceiveNow, PeekNow, ResetNow
<1>4. SameTime(k, k') /\ k'.susp = k.susp BY <1>1, <1>3, WakeFirstServes DEF Served, Wakes
<1> QED BY <1>2, <1>4, ReturnTimed, TimedStep

\* A call starts with all of its time left.
LEMMA BeginTimed ==
  ASSUME QueueInv, SchedInv, TimedInv, NEW t \in Tasks, NEW c \in use.calls[t], NEW v \in use.items, Begin(t, c, v)
  PROVE  TimedInv'
<1>1. c.wait \in TickType BY QueueAssumption DEF QueueInv
<1>2. /\ \A u \in Tasks \ {t} : me'[u] = me[u]
      /\ me'[t].pc = "try" /\ me'[t].want = c.wait /\ me'[t].left = c.wait /\ me'[t].set = FALSE
      /\ me'[t].over = 0 /\ me'[t].tick = 0 /\ me'[t].plan = "none" /\ me'[t].age = 0
  BY CallFields DEF Begin, NoCall
<1>3. c.wait \in Nat BY <1>1, TickTypes DEF TickType
<1>4. TimeOutOK(me'[t]) BY <1>1, <1>2, <1>3, TickTypes DEF TimeOutOK, Overflows
<1>5. Timed(t)' BY <1>2, <1>4 DEF Timed
<1>6. UNCHANGED <<k, early>> /\ SameTime(k, k') BY DEF Begin, SameTime
<1> QED BY <1>2, <1>5, <1>6, TimedStep

\* A task suspends itself.
LEMMA RetireTimed == ASSUME QueueInv, SchedInv, TimedInv, NEW t \in Tasks, Retire(t) PROVE TimedInv'
<1>1. k \in Kernels BY DEF SchedInv, Scheduled, KernelOK
<1>2. PICK s : s = [k.st EXCEPT ![t] = "suspended"] OBVIOUS
<1>3. k' = [[k EXCEPT !.st = s] EXCEPT !.swi = TRUE] BY <1>2 DEF Retire, portYIELD
<1>4. SameTime(k, k') /\ k'.susp = k.susp BY <1>1, <1>3 DEF Kernels, SameTime
<1>5. UNCHANGED <<me, early>> BY DEF Retire
<1> QED BY <1>4, <1>5, OthersTimed, TimedStep

\* The steps that note no time.
LEMMA GoesOnTimed ==
  ASSUME QueueInv, TimedInv, NEW t \in Tasks, NEW pc, Goto(t, pc), SameTime(k, k'), k'.susp = 0 => k.susp = 0,
         UNCHANGED early, pc \in {"lock", "timeout", "try"} \/ (pc \in {"unlockRx", "resume"} /\ me[t].pc \in {"unlockTx", "unlockRx"}),
         pc \in {"lock", "timeout"} => me[t].pc \in {"suspend", "lock"}
  PROVE  TimedInv'
<1>1. /\ \A u \in Tasks \ {t} : me'[u] = me[u]
      /\ me'[t].pc = pc /\ me'[t].plan = me[t].plan /\ SameTimer(t)
  BY CallFields DEF Goto, SameTimer
<1>2. Timed(t) BY DEF TimedInv
<1>3. Timed(t)' BY <1>1, <1>2, TimerKept DEF Timed
<1> QED BY <1>1, <1>3, TimedStep

\* vTaskSuspendAll.
LEMMA SuspendAllTimed == ASSUME QueueInv, SchedInv, TimedInv, NEW t \in Tasks, SuspendAll(t) PROVE TimedInv'
<1>1. k \in Kernels /\ k.susp \in Nat BY KernelFields DEF SchedInv, Scheduled, KernelOK
<1>2. SameTime(k, k') /\ k'.susp = k.susp + 1 BY <1>1 DEF SuspendAll, vTaskSuspendAll, Kernels, SameTime
<1>3. k'.susp # 0 BY <1>1, <1>2
<1>4. Goto(t, "lock") /\ UNCHANGED early /\ me[t].pc = "suspend" BY DEF SuspendAll, At
<1> QED BY <1>2, <1>3, <1>4, GoesOnTimed

\* prvLockQueue.
LEMMA LockTimed == ASSUME QueueInv, SchedInv, TimedInv, NEW t \in Tasks, prvLockQueue(t) PROVE TimedInv'
<1>1. Goto(t, "timeout") /\ UNCHANGED <<k, early>> /\ me[t].pc = "lock" BY DEF prvLockQueue, At
<1>2. SameTime(k, k') BY <1>1 DEF SameTime
<1> QED BY <1>1, <1>2, GoesOnTimed

\* Both halves of prvUnlockQueue.
LEMMA UnlockTimed ==
  ASSUME QueueInv, SchedInv, TimedInv, NEW t \in Tasks, prvUnlockQueueTx(t) \/ prvUnlockQueueRx(t) PROVE TimedInv'
<1>1. KernelOK(k) /\ "rx" \in Lists /\ "tx" \in Lists BY QueueAssumption DEF SchedInv, Scheduled
<1>2. me[t].pc \in {"unlockTx", "unlockRx"} /\ UNCHANGED early BY DEF prvUnlockQueueTx, prvUnlockQueueRx, At
<1>3. k.susp # 0 BY <1>2 DEF SchedInv, Waits, Within
<1>4. k' = Unlocked(k, q.tx, "rx") \/ k' = Unlocked(k, q.rx, "tx") BY DEF prvUnlockQueueTx, prvUnlockQueueRx
<1>5. SameTime(k, k') /\ k'.susp = k.susp BY <1>1, <1>3, <1>4, Locks, UnlockPends DEF Pended, Wakes
<1>6. Goto(t, "unlockRx") \/ Goto(t, "resume") BY DEF prvUnlockQueueTx, prvUnlockQueueRx
<1> QED BY <1>2, <1>5, <1>6, GoesOnTimed

\* taskYIELD_WITHIN_API.
LEMMA YieldTimed == ASSUME QueueInv, SchedInv, TimedInv, NEW t \in Tasks, YieldWithinApi(t) PROVE TimedInv'
<1>1. KernelOK(k) BY DEF SchedInv, Scheduled
<1>2. SameTime(k, k') /\ k'.susp = k.susp BY <1>1, YieldKeeps DEF YieldWithinApi, OnlySwi, SameTime
<1>3. Goto(t, "try") /\ UNCHANGED early BY DEF YieldWithinApi
<1> QED BY <1>2, <1>3, GoesOnTimed

\* A read that finds nothing after its time fails, and not early.
LEMMA LastLookTimed == ASSUME QueueInv, SchedInv, TimedInv, NEW t \in Tasks, LastLook(t) PROVE TimedInv'
<1>1. UNCHANGED k /\ me[t].pc = "last" BY DEF LastLook, At
<1>2. SameTime(k, k') BY <1>1 DEF SameTime
<1>3. CASE Fail(t)
  <2>1. me[t].left = 0 BY <1>1 DEF TimedInv, Timed
  <2>2. UNCHANGED early BY <1>3, <2>1, FailsInTime DEF TimedInv
  <2> QED BY <1>1, <1>2, <1>3, <2>2, ReturnTimed, TimedStep DEF Fail
<1>4. CASE Goto(t, "try") /\ UNCHANGED early BY <1>1, <1>2, <1>4, GoesOnTimed
<1> QED BY <1>3, <1>4 DEF LastLook

\* A call with no time left fails, and not early.
LEMMA GiveUpTimed == ASSUME QueueInv, SchedInv, TimedInv, NEW t \in Tasks, GiveUp(t) PROVE TimedInv'
<1>1. UNCHANGED k /\ me[t].left = 0 /\ Fail(t) BY DEF GiveUp
<1>2. SameTime(k, k') BY <1>1 DEF SameTime
<1>3. UNCHANGED early BY <1>1, FailsInTime DEF TimedInv
<1> QED BY <1>1, <1>2, <1>3, ReturnTimed, TimedStep DEF Fail

\* vTaskInternalSetTimeOutState: the time is noted when a call is about to block first.
LEMMA PrepareTimed == ASSUME QueueInv, SchedInv, TimedInv, NEW t \in Tasks, Prepare(t) PROVE TimedInv'
<1>1. UNCHANGED <<k, early>> /\ At(t, "try") /\ "try" \notin Within BY DEF Prepare, Within
<1>2. k.susp = 0 BY <1>1, SuspendedOrNot
<1>3. k.pended = 0 /\ Timed(t) BY <1>2 DEF TimedInv
<1>4. k.tick \in TickType /\ k.over \in Overflows BY KernelFields DEF SchedInv, Scheduled, KernelOK
<1>5. SameTime(k, k') BY <1>1 DEF SameTime
<1>6. me[t].set \in BOOLEAN BY <1>3 DEF Timed
<1>7. CASE me[t].set = TRUE
  <2>1. me' = [me EXCEPT ![t] = [@ EXCEPT !.pc = "suspend"]] BY <1>7, Zenon DEF Prepare
  <2>2. /\ \A u \in Tasks \ {t} : me'[u] = me[u]
        /\ me'[t].pc = "suspend" /\ me'[t].plan = me[t].plan /\ SameTimer(t)
    BY <2>1, CallFields DEF SameTimer
  <2>3. Timed(t)' BY <1>3, <1>5, <1>7, <2>2, TimerKept DEF Timed
  <2> QED BY <1>1, <1>5, <2>2, <2>3, TimedStep
<1>8. CASE me[t].set = FALSE
  <2>1. me' = [me EXCEPT ![t] = [@ EXCEPT !.pc = "suspend", !.set = TRUE, !.over = k.over, !.tick = k.tick]]
    BY <1>8, Zenon DEF Prepare
  <2>2. /\ \A u \in Tasks \ {t} : me'[u] = me[u]
        /\ me'[t].pc = "suspend" /\ me'[t].plan = me[t].plan /\ me'[t].want = me[t].want
        /\ me'[t].left = me[t].left /\ me'[t].set = TRUE /\ me'[t].over = k.over /\ me'[t].tick = k.tick
        /\ me'[t].age = me[t].age
    BY <2>1, CallFields
  <2>3. TimeOutOK(me'[t]) BY <1>3, <1>4, <2>2 DEF Timed, TimeOutOK
  <2>4. me[t].left = me[t].want BY <1>3, <1>8 DEF Timed
  <2>5. Counted(k', me'[t], k'.pended)
    <3>1. k.tick \in Nat /\ me[t].want \in Nat /\ me[t].age \in Nat
      BY <1>3, <1>4, TickTypes DEF Timed, TimeOutOK, TickType
    <3>2. SameRound(k', me'[t]) /\ Since(k', me'[t]) = 0 BY <1>1, <2>2, <3>1 DEF SameRound, Since
    <3>3. me'[t].want - me'[t].left + 0 + k'.pended <= me'[t].age BY <1>1, <1>3, <2>2, <2>4, <3>1
    <3> QED BY <3>2, <3>3 DEF Counted
  <2>6. Timed(t)' BY <1>3, <2>2, <2>3, <2>5 DEF Timed
  <2> QED BY <1>1, <1>5, <2>2, <2>6, TimedStep
<1> QED BY <1>6, <1>7, <1>8

\* xTaskCheckForTimeOut.
LEMMA CheckForTimeOutTimed ==
  ASSUME QueueInv, SchedInv, TimedInv, NEW t \in Tasks, CheckForTimeOut(t) PROVE TimedInv'
<1>1. UNCHANGED <<k, early>> /\ me[t].pc = "timeout" BY DEF CheckForTimeOut, At
<1>2. Timed(t) /\ Waits(t) BY DEF TimedInv, SchedInv
<1>3. k.tick \in TickType /\ k.over \in Overflows /\ k.pended \in Nat BY KernelFields DEF SchedInv, Scheduled, KernelOK
<1>4. SameTime(k, k') BY <1>1 DEF SameTime
<1>5. TimeOutOK(me[t]) /\ Counted(k, me[t], k.pended) /\ me[t].set = TRUE BY <1>1, <1>2 DEF Timed
<1>6. PICK N : N = portMAX_DELAY OBVIOUS
<1>7. N \in Nat /\ \A a : a \in TickType <=> a \in 0 .. N BY <1>6, TickTypes DEF TickType
<1>8. PICK want, left, tick, over, age : /\ want = me[t].want /\ left = me[t].left /\ tick = me[t].tick
                                         /\ over = me[t].over /\ age = me[t].age
  OBVIOUS
<1>9. /\ want \in 0 .. N /\ left \in 0 .. N /\ tick \in 0 .. N /\ over \in 0 .. 1 /\ age \in Nat
      /\ age <= want /\ left <= want /\ k.tick \in 0 .. N /\ k.over \in 0 .. 1
  BY <1>3, <1>5, <1>7, <1>8 DEF TimeOutOK, Overflows
<1>10. PICK e : e = Elapsed(t) OBVIOUS
<1>11. e = IF k.tick >= tick THEN k.tick - tick ELSE k.tick - tick + N + 1
  <2>1. PICK d \in Int : d = k.tick - tick BY <1>9
  <2>2. d % (N + 1) = IF k.tick >= tick THEN d ELSE d + (N + 1) BY <1>7, <1>9, <2>1
  <2>3. e = d % (N + 1) BY <1>6, <1>8, <1>10, <2>1, Zenon DEF Elapsed
  <2>4. PICK now : now = k.tick OBVIOUS
  <2>5. now \in Nat /\ tick \in Nat /\ d + (N + 1) = now - tick + N + 1 BY <1>7, <1>9, <2>1, <2>4
  <2>6. e = IF now >= tick THEN d ELSE d + (N + 1) BY <2>2, <2>3, <2>4, Zenon
  <2>7. e = IF now >= tick THEN now - tick ELSE now - tick + N + 1
    <3>1. CASE now >= tick BY ONLY <2>1, <2>4, <2>5, <2>6, <3>1
    <3>2. CASE ~(now >= tick) BY ONLY <2>5, <2>6, <3>2
    <3> QED BY <3>1, <3>2
  <2> QED BY <2>4, <2>7, Zenon
<1>12. \/ age = want
       \/ over = k.over /\ tick <= k.tick /\ want - left + e + k.pended <= age
       \/ over # k.over /\ k.tick < tick /\ want - left + e + k.pended <= age
  <2>1. \/ age = want
        \/ over = k.over /\ tick <= k.tick /\ want - left + (k.tick - tick) + k.pended <= age
        \/ over # k.over /\ k.tick < tick /\ want - left + (k.tick - tick + N + 1) + k.pended <= age
    BY <1>5, <1>6, <1>8 DEF Counted, SameRound, Since
  <2> QED BY <1>9, <1>11, <2>1
<1>13. CASE left = N
  <2>1. me' = [me EXCEPT ![t] = [@ EXCEPT !.pc = "check"]] BY <1>6, <1>8, <1>13, Zenon DEF CheckForTimeOut
  <2>2. /\ \A u \in Tasks \ {t} : me'[u] = me[u]
        /\ me'[t].pc = "check" /\ me'[t].plan = me[t].plan /\ SameTimer(t)
    BY <2>1, CallFields DEF SameTimer
  <2>3. Timed(t)' BY <1>2, <1>4, <2>2, TimerKept DEF Timed
  <2> QED BY <1>1, <1>4, <2>2, <2>3, TimedStep
<1>14. CASE left # N /\ (k.over = over \/ k.tick < tick) /\ e < left
  <2>1. me' = [me EXCEPT ![t] = [@ EXCEPT !.pc = "check", !.left = me[t].left - Elapsed(t), !.over = k.over, !.tick = k.tick]]
    <3>1. /\ me[t].left # portMAX_DELAY /\ (k.over = me[t].over \/ k.tick < me[t].tick)
          /\ Elapsed(t) < me[t].left
      BY <1>6, <1>8, <1>10, <1>14
    <3> QED BY <3>1, Zenon DEF CheckForTimeOut
  <2>2. /\ \A u \in Tasks \ {t} : me'[u] = me[u]
        /\ me'[t].pc = "check" /\ me'[t].plan = me[t].plan /\ me'[t].want = want /\ me'[t].left = left - e
        /\ me'[t].set = TRUE /\ me'[t].over = k.over /\ me'[t].tick = k.tick /\ me'[t].age = age
    BY <1>5, <1>8, <1>10, <2>1, CallFields
  <2>3. left - e \in 0 .. N /\ left - e # 0 /\ left - e <= want BY <1>7, <1>9, <1>11, <1>14
  <2>4. TimeOutOK(me'[t]) BY <1>3, <1>7, <1>9, <2>2, <2>3 DEF TimeOutOK
  <2>5. Counted(k', me'[t], k'.pended)
    <3>1. SameRound(k', me'[t]) /\ Since(k', me'[t]) = 0 BY <1>1, <1>9, <2>2 DEF SameRound, Since
    <3>2. age = want \/ want - (left - e) + 0 + k.pended <= age BY <1>3, <1>9, <1>11, <1>12
    <3> QED BY <1>1, <2>2, <3>1, <3>2 DEF Counted
  <2>6. want # N
    <3>1. want = N => left = N BY <1>2, <1>6, <1>8 DEF Timed
    <3> QED BY <1>14, <3>1
  <2>7. me'[t].plan # "expire"
    <3>1. me[t].left # 0 BY <1>1, <1>2 DEF Waits, Unplaced
    <3> QED BY <1>2, <2>2, <3>1 DEF Timed
  <2>8. Timed(t)' BY <1>6, <2>2, <2>3, <2>4, <2>5, <2>6, <2>7 DEF Timed
  <2> QED BY <1>1, <1>4, <2>2, <2>8, TimedStep
<1>15. CASE left # N /\ ~((k.over = over \/ k.tick < tick) /\ e < left)
  <2>1. me' = [me EXCEPT ![t] = [@ EXCEPT !.pc = "unlockTx", !.left = 0, !.plan = "expire"]]
    <3>1. /\ me[t].left # portMAX_DELAY
          /\ ~((k.over = me[t].over \/ k.tick < me[t].tick) /\ Elapsed(t) < me[t].left)
      BY <1>6, <1>8, <1>10, <1>15
    <3> QED BY <3>1, Zenon DEF CheckForTimeOut
  <2>2. /\ \A u \in Tasks \ {t} : me'[u] = me[u]
        /\ me'[t].pc = "unlockTx" /\ me'[t].plan = "expire" /\ me'[t].want = want /\ me'[t].left = 0
        /\ me'[t].set = TRUE /\ me'[t].over = over /\ me'[t].tick = tick /\ me'[t].age = age
    BY <1>5, <1>8, <2>1, CallFields
  <2>3. age = want BY <1>3, <1>9, <1>11, <1>12, <1>15
  <2>4. want # N
    <3>1. want = N => left = N BY <1>2, <1>6, <1>8 DEF Timed
    <3> QED BY <1>15, <3>1
  <2>5. TimeOutOK(me'[t]) BY <1>3, <1>7, <1>9, <2>2 DEF TimeOutOK, Overflows
  <2>6. Counted(k', me'[t], k'.pended) BY <2>2, <2>3 DEF Counted
  <2>7. Timed(t)' BY <1>6, <2>2, <2>3, <2>4, <2>5, <2>6 DEF Timed
  <2> QED BY <1>1, <1>4, <2>2, <2>7, TimedStep
<1> QED BY <1>13, <1>14, <1>15

\* prvIsQueueFull and prvIsQueueEmpty.
LEMMA CheckQueueTimed == ASSUME QueueInv, SchedInv, TimedInv, NEW t \in Tasks, CheckQueue(t) PROVE TimedInv'
<1>1. UNCHANGED <<k, early>> /\ SameTime(k, k') BY DEF CheckQueue, SameTime
<1>2. \/ me' = [me EXCEPT ![t].pc = "place", ![t].plan = "block"]
      \/ me' = [me EXCEPT ![t].pc = "unlockTx", ![t].plan = "retry"]
  BY DEF CheckQueue
<1>3. /\ \A u \in Tasks \ {t} : me'[u] = me[u]
      /\ (me'[t].pc = "place" /\ me'[t].plan = "block") \/ (me'[t].pc = "unlockTx" /\ me'[t].plan = "retry")
      /\ SameTimer(t)
  BY <1>2, CallFields DEF SameTimer
<1>4. Timed(t)' BY <1>1, <1>3, TimerKept
<1> QED BY <1>1, <1>3, <1>4, TimedStep

\* vListInsert walks through the list.
LEMMA ScanTimed == ASSUME QueueInv, SchedInv, TimedInv, NEW t \in Tasks, ScanEventList(t) PROVE TimedInv'
<1>1. UNCHANGED <<k, early>> /\ SameTime(k, k') BY DEF ScanEventList, SameTime
<1>2. /\ \A u \in Tasks \ {t} : me'[u] = me[u]
      /\ me'[t].pc = "link" /\ me'[t].plan = me[t].plan /\ SameTimer(t)
  BY CallFields DEF ScanEventList, SameTimer
<1>3. Timed(t)' BY <1>1, <1>2, TimerKept DEF TimedInv, Timed
<1> QED BY <1>1, <1>2, <1>3, TimedStep

\* vTaskPlaceOnEventList.
LEMMA PlaceTimed == ASSUME QueueInv, SchedInv, TimedInv, NEW t \in Tasks, PlaceOnEventList(t) PROVE TimedInv'
<1>1. At(t, "link") /\ UNCHANGED early /\ "link" \in Within /\ k' = vTaskPlaceOnEventList(k, WaitList(t), me[t].left)
  BY DEF PlaceOnEventList, Within
<1>2. /\ Waits(t) /\ me[t].pc = "link" /\ KernelOK(k) /\ k.cur = t
  BY <1>1, SuspendedOrNot DEF SchedInv
<1>3. me[t].left \in TickType \ {0} /\ k.st[t] = "ready" /\ me[t].plan = "block"
  BY <1>2 DEF Waits, Within, Unplaced
<1>4. WaitList(t) \in Lists BY QueueAssumption DEF WaitList
<1>5. Blocked(k, k') BY <1>1, <1>2, <1>3, <1>4, PlaceBlocks
<1>6. /\ \A u \in Tasks \ {t} : me'[u] = me[u]
      /\ me'[t].pc = "unlockTx" /\ me'[t].plan = "block" /\ SameTimer(t)
  BY <1>3, CallFields DEF PlaceOnEventList, SameTimer
<1>7. SameTime(k, k') /\ k'.susp = k.susp BY <1>5 DEF Blocked
<1>8. Timed(t)' BY <1>6, <1>7, TimerKept
<1> QED BY <1>1, <1>6, <1>7, <1>8, TimedStep

\* xTaskResumeAll: the ticks that came meanwhile are counted; an expired send fails, and not early.
LEMMA ResumeTimed == ASSUME QueueInv, SchedInv, TimedInv, NEW t \in Tasks, Resume(t) PROVE TimedInv'
<1>1. At(t, "resume") /\ "resume" \in Within /\ k' = xTaskResumeAll(k) BY DEF Resume, Within
<1>2. KernelOK(k) /\ k.susp = 1 /\ me[t].pc = "resume" BY <1>1, SuspendedOrNot
<1>3. k'.susp = 0 /\ k'.pended = 0 BY <1>1, <1>2, KernelWoken, ResumeServes
<1>4. ASSUME NEW u \in Tasks PROVE me[u].set = TRUE => Counted(k', me[u], k'.pended)
  <2>1. TimeOutOK(me[u]) /\ (me[u].set = TRUE => Counted(k, me[u], k.pended)) BY DEF TimedInv, Timed
  <2> QED BY <1>1, <1>2, <1>3, <2>1, ResumeCounted
<1>5. ASSUME NEW u \in Tasks, SameTimer(u),
             me'[u].pc \in {"suspend", "lock", "timeout"} => me[u].set = TRUE,
             me'[u].pc \in {"unlockTx", "unlockRx", "resume"} => me'[u].plan \in {"block", "retry", "expire"},
             me'[u].plan = "expire" \/ me'[u].pc = "last" => me[u].left = 0
      PROVE  Timed(u)'
  <2>1. Timed(u) BY DEF TimedInv
  <2>2. TimeOutOK(me'[u]) BY <1>5, <2>1 DEF Timed, TimeOutOK, SameTimer
  <2>3. me'[u].set = TRUE => Counted(k', me'[u], k'.pended)
    BY <1>4, <1>5 DEF SameTimer, Counted, SameRound, Since
  <2> QED BY <1>5, <2>1, <2>2, <2>3 DEF Timed, SameTimer
<1>6. ASSUME NEW u \in Tasks, me'[u] = me[u] PROVE Timed(u)'
  <2>1. Timed(u) BY DEF TimedInv
  <2> QED BY <1>5, <1>6, <2>1 DEF Timed, SameTimer
<1>7. CASE me[t].plan = "expire" /\ me[t].op = "send"
  <2>1. Fail(t) BY <1>7 DEF Resume
  <2>2. me[t].left = 0 BY <1>7 DEF TimedInv, Timed
  <2>3. early' = FALSE BY <2>1, <2>2, FailsInTime
  <2>4. Timed(t)' /\ \A u \in Tasks \ {t} : me'[u] = me[u] BY <2>1, ReturnTimed DEF Fail
  <2> QED BY <1>3, <1>6, <2>3, <2>4 DEF TimedInv
<1>8. CASE ~(me[t].plan = "expire" /\ me[t].op = "send")
  <2>0. me[t].plan \in {"block", "retry", "expire"} BY <1>2 DEF TimedInv, Timed
  <2>1. PICK pc : /\ me' = [me EXCEPT ![t].plan = "none", ![t].pc = pc]
                  /\ pc \in {"try", "yield", "last"} /\ (pc = "last" => me[t].plan = "expire")
                  /\ UNCHANGED early
    BY <1>8, <2>0 DEF Resume
  <2>2. /\ \A u \in Tasks \ {t} : me'[u] = me[u]
        /\ me'[t].pc = pc /\ me'[t].plan = "none" /\ SameTimer(t)
    BY <2>1, CallFields DEF SameTimer
  <2>3. pc = "last" => me[t].left = 0 BY <2>1 DEF TimedInv, Timed
  <2>4. Timed(t)' BY <1>5, <2>1, <2>2, <2>3
  <2> QED BY <1>3, <1>6, <2>1, <2>2, <2>4 DEF TimedInv
<1> QED BY <1>7, <1>8

\* The interrupts that are not the tick, and the switches.
LEMMA NoTickTimed == ASSUME TimedInv, UNCHANGED <<me, early>>, SameTime(k, k'), k'.susp = k.susp PROVE TimedInv'
<1>1. \A u \in Tasks : Timed(u)' BY OthersTimed
<1> QED BY <1>1 DEF TimedInv, SameTime

\* An interrupt that uses the queue leaves the clock alone.
LEMMA InterruptTimed ==
  ASSUME QueueInv, SchedInv, TimedInv,
         ReceiveFromISR \/ (\E v \in use.items, pos \in use.isr \ {"receive"} : SendFromISR(v, pos))
  PROVE  TimedInv'
<1>1. KernelOK(k) /\ "rx" \in Lists /\ "tx" \in Lists BY QueueAssumption DEF SchedInv, Scheduled
<1>2. k' = k \/ k' = WakeFirst(k, "rx") \/ k' = WakeFirst(k, "tx") BY DEF ReceiveFromISR, SendFromISR
<1>3. SameTime(k, k') /\ k'.susp = k.susp BY <1>1, <1>2, WakeFirstServes DEF Served, Wakes, SameTime
<1>4. UNCHANGED <<me, early>> BY DEF ReceiveFromISR, SendFromISR
<1> QED BY <1>3, <1>4, NoTickTimed

\* vTaskSwitchContext leaves the clock alone.
LEMMA SwitchTimed == ASSUME QueueInv, SchedInv, TimedInv, NEW t \in Tasks \cup {Idle}, Switch(t) PROVE TimedInv'
<1>1. k \in Kernels BY DEF SchedInv, Scheduled, KernelOK
<1>2. SameTime(k, k') /\ k'.susp = k.susp BY <1>1 DEF Switch, vTaskSwitchContext, Kernels, SameTime
<1>3. UNCHANGED <<me, early>> BY DEF Switch
<1> QED BY <1>2, <1>3, NoTickTimed

\* xPortSysTickHandler: a tick counts for the clock or is pended, and for every call.
LEMMA TickTimed == ASSUME QueueInv, SchedInv, TimedInv, Tick PROVE TimedInv'
<1>1. KernelOK(k) /\ k \in Kernels /\ k.pended \in Nat BY KernelFields DEF SchedInv, Scheduled, KernelOK
<1>2. /\ Served(k, k')
      /\ k.susp # 0 => k'.tick = k.tick /\ k'.over = k.over /\ k'.pended = k.pended + 1
      /\ k.susp = 0 => Advances(k, k') /\ k'.pended = k.pended
  BY <1>1, TickServes DEF Tick
<1>3. KernelOK(k') /\ k' \in Kernels /\ k'.susp = k.susp BY <1>2 DEF Served, Wakes, KernelOK
<1>4. UNCHANGED early BY DEF Tick
<1>5. k'.susp = 0 => k'.pended = 0 BY <1>2, <1>3 DEF TimedInv
<1>6. ASSUME NEW u \in Tasks PROVE Timed(u)'
  <2>1. Timed(u) BY DEF TimedInv
  <2>2. TimeOutOK(me[u]) BY <2>1 DEF Timed
  <2>3. /\ me[u].age \in Nat /\ me[u].want \in Nat /\ me[u].age <= me[u].want
    BY <2>2, TickTypes DEF TimeOutOK, TickType
  <2>4. /\ me'[u].pc = me[u].pc /\ me'[u].want = me[u].want /\ me'[u].left = me[u].left /\ me'[u].set = me[u].set
        /\ me'[u].over = me[u].over /\ me'[u].tick = me[u].tick /\ me'[u].plan = me[u].plan
        /\ me'[u].age = IF me[u].age < me[u].want THEN me[u].age + 1 ELSE me[u].age
    BY CallFields DEF Tick
  <2>5. me'[u].age \in Nat /\ me'[u].age <= me'[u].want BY <2>3, <2>4
  <2>6. TimeOutOK(me'[u]) BY <2>2, <2>4, <2>5 DEF TimeOutOK
  <2>7. me[u].age = me[u].want => me'[u].age = me'[u].want BY <2>3, <2>4
  <2>8. me'[u].set = TRUE => Counted(k, me'[u], k.pended + 1)
    <3> SUFFICES ASSUME me[u].set = TRUE PROVE Counted(k, me'[u], k.pended + 1) BY <2>4
    <3>1. Counted(k, me[u], k.pended) BY <2>1 DEF Timed
    <3>2. CASE me[u].age = me[u].want BY <2>7, <3>2 DEF Counted
    <3>3. CASE me[u].age # me[u].want
      <4>1. me'[u].age = me[u].age + 1 BY <2>3, <2>4, <3>3
      <4>2. SameRound(k, me[u]) /\ me[u].want - me[u].left + Since(k, me[u]) + k.pended <= me[u].age
        BY <3>1, <3>3 DEF Counted
      <4>3. SameRound(k, me'[u]) /\ Since(k, me'[u]) = Since(k, me[u]) BY <2>4, <4>2 DEF SameRound, Since
      <4>4. Since(k, me[u]) \in Int /\ me[u].left \in Int
        <5>1. me[u].tick \in Nat /\ k.tick \in Nat /\ portMAX_DELAY \in Nat /\ me[u].left \in Nat
          BY <1>1, <2>2, TickTypes, KernelFields DEF TimeOutOK, TickType
        <5> QED BY <5>1 DEF Since
      <4>5. PICK d \in Int : d = Since(k, me[u]) BY <4>4
      <4>6. me[u].want - me[u].left + d + (k.pended + 1) <= me[u].age + 1 BY <1>1, <2>3, <4>2, <4>4, <4>5
      <4> QED BY <2>4, <4>1, <4>3, <4>5, <4>6 DEF Counted
    <3> QED BY <3>2, <3>3
  <2>9. me'[u].set = TRUE => Counted(k', me'[u], k'.pended)
    <3>1. CASE k.susp # 0 BY <1>2, <2>8, <3>1, SameCounted
    <3>2. CASE k.susp = 0 BY <1>1, <1>2, <1>3, <2>6, <2>8, <3>2, TickIsCounted
    <3> QED BY <3>1, <3>2
  <2> QED BY <2>1, <2>4, <2>6, <2>7, <2>9 DEF Timed
<1> QED BY <1>4, <1>5, <1>6 DEF TimedInv

\* The invariant of the timeouts holds at the start.
LEMMA TimedInit == QueueInit => TimedInv
<1> SUFFICES ASSUME QueueInit PROVE TimedInv OBVIOUS
<1>1. early = FALSE /\ k.pended = 0 BY DEF QueueInit, KernelInit
<1>2. ASSUME NEW t \in Tasks PROVE Timed(t)
  <2>1. me[t] = NoCall BY DEF QueueInit
  <2>2. /\ me[t].pc = "idle" /\ me[t].want = 0 /\ me[t].left = 0 /\ me[t].set = FALSE /\ me[t].over = 0
        /\ me[t].tick = 0 /\ me[t].plan = "none" /\ me[t].age = 0
    BY <2>1 DEF NoCall
  <2>3. TimeOutOK(me[t]) BY <2>2, TickTypes DEF TimeOutOK, Overflows
  <2>4. portMAX_DELAY # 0 BY SomeDelay, TickTypes
  <2> QED BY <2>2, <2>3, <2>4 DEF Timed
<1> QED BY <1>1, <1>2 DEF TimedInv

\* Every step keeps the invariant of the timeouts.
LEMMA TimedNext == QueueInv /\ SchedInv /\ TimedInv /\ [QueueNext]_queueVars => TimedInv'
<1> SUFFICES ASSUME QueueInv, SchedInv, TimedInv, [QueueNext]_queueVars PROVE TimedInv' OBVIOUS
<1>1. CASE UNCHANGED queueVars
  <2>1. UNCHANGED <<me, early>> /\ SameTime(k, k') /\ k'.susp = k.susp BY <1>1 DEF queueVars, SameTime
  <2> QED BY <2>1, NoTickTimed
<1>2. ASSUME NEW t \in Tasks, TaskStep(t) PROVE TimedInv'
  <2>1. CASE \E c \in use.calls[t], v \in use.items : Begin(t, c, v) BY <2>1, BeginTimed
  <2>2. CASE Retire(t) \/ SendNow(t) \/ ReceiveNow(t) \/ PeekNow(t) \/ ResetNow(t) \/ GiveUp(t) \/ Prepare(t)
    BY <2>2, RetireTimed, SuccessTimed, GiveUpTimed, PrepareTimed
  <2>3. CASE SuspendAll(t) \/ prvLockQueue(t) \/ CheckForTimeOut(t) \/ CheckQueue(t) \/ ScanEventList(t) \/ PlaceOnEventList(t)
    BY <2>3, SuspendAllTimed, LockTimed, CheckForTimeOutTimed, CheckQueueTimed, ScanTimed, PlaceTimed
  <2>4. CASE prvUnlockQueueTx(t) \/ prvUnlockQueueRx(t) \/ Resume(t) \/ YieldWithinApi(t) \/ LastLook(t)
    BY <2>4, UnlockTimed, ResumeTimed, YieldTimed, LastLookTimed
  <2> QED BY <1>2, <2>1, <2>2, <2>3, <2>4 DEF TaskStep
<1>3. CASE QueueNext BY <1>2, <1>3, SwitchTimed, InterruptTimed, TickTimed DEF QueueNext
<1> QED BY <1>1, <1>3

\* xTaskCheckForTimeOut as queue.c uses it: a call fails for lack of an item or of room
\* only after all the ticks it was given, however often it was woken, however the tick
\* counter wraps and however many ticks came while the scheduler was suspended.
THEOREM NeverEarly == QueueSpec => []TimeoutNotEarly
<1>1. QueueSpec => []QueueInv
  BY QueueInvInit, QueueStep, PTL DEF QueueSpec
<1>2. QueueSpec => []SchedInv
  BY <1>1, SchedInit, SchedStep, PTL DEF QueueSpec
<1>3. QueueSpec => []TimedInv
  BY <1>1, <1>2, TimedInit, TimedNext, PTL DEF QueueSpec
<1>4. TimedInv => TimeoutNotEarly BY DEF TimedInv, TimeoutNotEarly
<1> QED BY <1>3, <1>4, PTL

(* ---------------------------- no lost wake-up ---------------------------- *)

\* A call that tries next, or will when the suspension it has begun ends.
Eager(c) == \/ c.pc \in {"try", "yield"}
            \/ c.pc \in {"unlockTx", "unlockRx", "resume"} /\ c.plan \in {"block", "retry"}

\* What an event list is for: items for the readers, room for the senders.
Wanting(u, l) == me[u].op # "reset" /\ WaitList(u) = l /\ Eager(me[u])
Amount(l) == IF l = "rx" THEN q.n ELSE Length - q.n
LockOf(l) == IF l = "rx" THEN q.tx ELSE q.rx

\* The tasks that are on their way to it, and those that unlocking the queue will add:
\* at most as many as the lock has counted, or every task there is.
Seekers(l) == {u \in Tasks : Wanting(u, l) /\ \A m \in Lists : u \notin ToSet(k.ev[m])}
AllOwed(l) == LockOf(l) >= Cardinality(Tasks)

\* While a task waits, there is no more to be had than others will come for; a task about
\* to wait finds no more than what the lock has counted.
Balanced(l) == k.ev[l] # <<>> => AllOwed(l) \/ Amount(l) <= Cardinality(Seekers(l)) + Positive(LockOf(l))
Placed(l) == \A u \in Tasks : me[u].pc \in {"place", "link"} /\ WaitList(u) = l => AllOwed(l) \/ Amount(l) <= LockOf(l)
Waiting(l) == \A w \in ToSet(k.ev[l]) : Wanting(w, l)
WakeInv(l) == Balanced(l) /\ Placed(l) /\ Waiting(l)

\* A call that resets is over after its first critical section.
AtOnce == \A u \in Tasks : me[u].op = "reset" => me[u].pc \in {"idle", "try"}

\* Amounts and counts are numbers.
LEMMA Amounts ==
  ASSUME QueueInv, SchedInv, NEW l
  PROVE  /\ Length \in Nat /\ q.n \in Nat /\ q.n <= Length /\ Amount(l) \in Nat
         /\ LockOf(l) \in Int /\ LockOf(l) >= -1
         /\ IsFiniteSet(Tasks) /\ Cardinality(Tasks) \in Nat
         /\ IsFiniteSet(Seekers(l)) /\ Cardinality(Seekers(l)) \in Nat
<1>1. Length \in Nat /\ q.n \in Nat /\ q.n <= Length
  <2>1. PICK L : L = Length OBVIOUS
  <2>2. L \in Nat \ {0} /\ q.n \in 0 .. L BY <2>1, RingFacts DEF QueueInv
  <2> QED BY <2>1, <2>2
<1>2. Amount(l) \in Nat BY <1>1 DEF Amount
<1>3. LockOf(l) \in Int /\ LockOf(l) >= -1 BY Locks DEF LockOf
<1>4. IsFiniteSet(Tasks) /\ Cardinality(Tasks) \in Nat BY KernelAssumption, FS_CardinalityType
<1>5. Seekers(l) \subseteq Tasks BY DEF Seekers
<1>6. IsFiniteSet(Seekers(l)) BY <1>4, <1>5, FS_Subset
<1> QED BY <1>1, <1>2, <1>3, <1>4, <1>6, FS_CardinalityType

\* Some leave a set and others join it.
LEMMA GoAndCome ==
  ASSUME NEW S, NEW R, NEW G, NEW C, IsFiniteSet(S), IsFiniteSet(R), IsFiniteSet(G), IsFiniteSet(C),
         (S \ G) \cup C \subseteq R, C \cap S = {}
  PROVE  Cardinality(R) + Cardinality(G) >= Cardinality(S) + Cardinality(C)
<1>1. IsFiniteSet(S \ G) /\ Cardinality(S \ G) = Cardinality(S) - Cardinality(S \cap G) BY FS_Difference
<1>2. Cardinality(S \cap G) <= Cardinality(G) /\ IsFiniteSet(S \cap G)
  <2>1. S \cap G \subseteq G OBVIOUS
  <2> QED BY <2>1, FS_Subset
<1>3. (S \ G) \cap C = {} OBVIOUS
<1>4. Cardinality((S \ G) \cup C) = Cardinality(S \ G) + Cardinality(C) /\ IsFiniteSet((S \ G) \cup C)
  <2>1. PICK A : A = S \ G OBVIOUS
  <2>2. IsFiniteSet(A) /\ A \cap C = {} BY <1>1, <1>3, <2>1
  <2>3. Cardinality(A \cup C) = Cardinality(A) + Cardinality(C) - Cardinality(A \cap C) /\ IsFiniteSet(A \cup C)
    BY <2>2, FS_Union
  <2>4. Cardinality(A \cap C) = 0 BY <2>2, FS_EmptySet
  <2>5. Cardinality(A) \in Nat /\ Cardinality(C) \in Nat BY <2>2, FS_CardinalityType
  <2> QED BY <2>1, <2>3, <2>4, <2>5
<1>5. Cardinality((S \ G) \cup C) <= Cardinality(R) BY FS_Subset
<1>6. /\ Cardinality(S) \in Nat /\ Cardinality(R) \in Nat /\ Cardinality(G) \in Nat /\ Cardinality(C) \in Nat
      /\ Cardinality(S \cap G) \in Nat
  BY <1>2, FS_CardinalityType
<1>7. PICK s, r, g, c, d \in Nat : /\ s = Cardinality(S) /\ r = Cardinality(R) /\ g = Cardinality(G)
                                   /\ c = Cardinality(C) /\ d = Cardinality(S \cap G)
  BY <1>6
<1>8. d <= g /\ (s - d) + c <= r BY <1>1, <1>2, <1>4, <1>5, <1>7
<1>9. r + g >= s + c BY <1>8
<1> QED BY <1>7, <1>9

\* What a step does to the event lists: nobody joins one, and of the tasks that want what
\* a list is for only those of G go off.
Freed(G, l) ==
  /\ \A m \in Lists : ToSet(k'.ev[m]) \subseteq ToSet(k.ev[m])
  /\ \A u \in Tasks \ G : Wanting(u, l) => Wanting(u, l)'
  /\ G \cap ToSet(k.ev[l]) = {}

\* Then those that leave the list are on their way, and the others still wait.
LEMMA FreedSeek ==
  ASSUME SchedInv, NEW l \in Lists, Waiting(l), NEW G, Freed(G, l)
  PROVE  /\ (Seekers(l) \ G) \cup Left(k, k', l) \subseteq Seekers(l)'
         /\ Left(k, k', l) \cap Seekers(l) = {} /\ Left(k, k', l) \subseteq Tasks
         /\ Waiting(l)'
<1>1. k.ev \in [Lists -> Seq(Tasks)] /\ ListsOK(k) BY KernelFields DEF SchedInv, Scheduled, KernelOK
<1>2. ToSet(k.ev[l]) \subseteq Tasks BY <1>1, InList
<1>3. Left(k, k', l) \subseteq Tasks /\ Left(k, k', l) \cap Seekers(l) = {} BY <1>2 DEF Left, Seekers
<1>4. ASSUME NEW u \in Seekers(l) \ G PROVE u \in Seekers(l)'
  <2>1. u \in Tasks /\ Wanting(u, l) /\ \A m \in Lists : u \notin ToSet(k.ev[m]) BY DEF Seekers
  <2>2. Wanting(u, l)' /\ \A m \in Lists : u \notin ToSet(k'.ev[m]) BY <2>1 DEF Freed
  <2> QED BY <2>1, <2>2 DEF Seekers
<1>5. ASSUME NEW w \in Left(k, k', l) PROVE w \in Seekers(l)'
  <2>1. w \in Tasks /\ w \in ToSet(k.ev[l]) /\ w \notin ToSet(k'.ev[l]) BY <1>3 DEF Left
  <2>2. Wanting(w, l)' BY <2>1 DEF Waiting, Freed
  <2>3. \A m \in Lists : w \notin ToSet(k'.ev[m]) BY <1>1, <2>1 DEF Freed, ListsOK
  <2> QED BY <2>1, <2>2, <2>3 DEF Seekers
<1>6. ASSUME NEW w \in ToSet(k'.ev[l]) PROVE Wanting(w, l)'
  <2>1. w \in ToSet(k.ev[l]) BY DEF Freed
  <2> QED BY <1>2, <2>1 DEF Waiting, Freed
<1> QED BY <1>3, <1>4, <1>5, <1>6 DEF Waiting

\* Amounts and counts are numbers after a step too.
LEMMA NextAmounts ==
  ASSUME QueueInv', SchedInv', UNCHANGED use, NEW l
  PROVE  /\ Length' = Length /\ q'.n \in Nat /\ q'.n <= Length /\ Amount(l)' \in Nat
         /\ LockOf(l)' \in Int /\ LockOf(l)' >= -1
         /\ IsFiniteSet(Seekers(l)') /\ Cardinality(Seekers(l)') \in Nat
<1>1. Length' = Length /\ Length \in Nat /\ q'.n \in Nat /\ q'.n <= Length /\ q'.tx \in Int /\ q'.rx \in Int
  <2>1. PICK L : L = Length' OBVIOUS
  <2>2. RingOK(L, q') BY <2>1 DEF QueueInv
  <2>3. L \in Nat \ {0} /\ q'.n \in 0 .. L BY <2>2, RingFacts
  <2>4. q' \in Rings(L) BY <2>2 DEF RingOK
  <2>5. q'.tx \in Int /\ q'.rx \in Int BY <2>4 DEF Rings
  <2>6. Length' = Length BY DEF Length
  <2> QED BY <2>1, <2>3, <2>5, <2>6
<1>2. Amount(l)' \in Nat BY <1>1 DEF Amount
<1>3. LockOf(l)' \in Int /\ LockOf(l)' >= -1 BY <1>1 DEF LockOf, SchedInv, Scheduled
<1>4. Seekers(l)' \subseteq Tasks BY DEF Seekers
<1>5. IsFiniteSet(Seekers(l)') BY <1>4, KernelAssumption, FS_Subset
<1> QED BY <1>1, <1>2, <1>3, <1>5, FS_CardinalityType

\* There is enough of those who come for what there is after a step.
Enough(l, G) ==
  k'.ev[l] # <<>> =>
    \/ AllOwed(l)' \/ Amount(l)' <= Cardinality(Left(k, k', l))
    \/ /\ ~AllOwed(l)
       /\ Amount(l)' + Cardinality(G) + Positive(LockOf(l))
            <= Amount(l) + Cardinality(Left(k, k', l)) + Positive(LockOf(l)')

\* A step that lets the tasks of G go keeps the invariant if there is enough.
LEMMA WakeKept ==
  ASSUME QueueInv, SchedInv, QueueInv', SchedInv', UNCHANGED use, NEW l \in Lists, WakeInv(l),
         NEW G, IsFiniteSet(G), Freed(G, l), Enough(l, G), Placed(l)'
  PROVE  WakeInv(l)'
<1>1. /\ (Seekers(l) \ G) \cup Left(k, k', l) \subseteq Seekers(l)'
      /\ Left(k, k', l) \cap Seekers(l) = {} /\ Left(k, k', l) \subseteq Tasks /\ Waiting(l)'
  BY FreedSeek DEF WakeInv
<1>2. PICK R, C : R = Seekers(l)' /\ C = Left(k, k', l) OBVIOUS
<1>3. IsFiniteSet(C) /\ IsFiniteSet(R) /\ IsFiniteSet(Seekers(l))
  <2>1. C \subseteq Tasks BY <1>1, <1>2
  <2>2. IsFiniteSet(C) BY <2>1, Amounts, FS_Subset
  <2> QED BY <1>2, <2>2, Amounts, NextAmounts
<1>4. Cardinality(R) + Cardinality(G) >= Cardinality(Seekers(l)) + Cardinality(C)
  <2>1. (Seekers(l) \ G) \cup C \subseteq R /\ C \cap Seekers(l) = {} BY <1>1, <1>2
  <2> QED BY <1>3, <2>1, GoAndCome
<1>5. Cardinality(C) <= Cardinality(R) BY <1>1, <1>2, <1>3, FS_Subset
<1>6. Balanced(l)'
  <2> SUFFICES ASSUME k'.ev[l] # <<>>, ~AllOwed(l)' PROVE Amount(l)' <= Cardinality(R) + Positive(LockOf(l)')
    BY <1>2 DEF Balanced
  <2>1. PICK a2, p2 \in Nat : a2 = Amount(l)' /\ p2 = Positive(LockOf(l)') BY NextAmounts DEF Positive
  <2>2. PICK a1, p1 \in Nat : a1 = Amount(l) /\ p1 = Positive(LockOf(l)) BY Amounts DEF Positive
  <2>4. PICK r, g, s, c \in Nat : /\ r = Cardinality(R) /\ g = Cardinality(G) /\ s = Cardinality(Seekers(l))
                                  /\ c = Cardinality(C)
    BY <1>3, FS_CardinalityType
  <2>5. r + g >= s + c /\ c <= r BY <1>4, <1>5, <2>4
  <2>6. CASE a2 <= c
    <3>1. a2 <= r + p2 BY <2>5, <2>6
    <3> QED BY <2>1, <2>4, <3>1
  <2>7. CASE ~(a2 <= c)
    <3>1. ~AllOwed(l) /\ a2 + g + p1 <= a1 + c + p2 BY <1>2, <2>1, <2>2, <2>4, <2>7 DEF Enough
    <3>2. k.ev[l] # <<>>
      <4>1. k.ev \in [Lists -> Seq(Tasks)] /\ k'.ev \in [Lists -> Seq(Tasks)]
        BY KernelFields DEF SchedInv, Scheduled, KernelOK
      <4>2. k'.ev[l] \in Seq(Tasks) /\ ToSet(k'.ev[l]) \subseteq ToSet(k.ev[l]) BY <4>1 DEF Freed
      <4>3. ToSet(<<>>) = {} BY DEF ToSet
      <4> QED BY <4>2, <4>3, EmptyList
    <3>3. a1 <= s + p1 BY <2>2, <2>4, <3>1, <3>2 DEF WakeInv, Balanced
    <3>4. a2 <= r + p2 BY <2>5, <3>1, <3>3
    <3> QED BY <2>1, <2>4, <3>4
  <2> QED BY <2>6, <2>7
<1> QED BY <1>1, <1>6 DEF WakeInv

\* A step that leaves the amount and the lock's count as they are.
LEMMA QuietWake ==
  ASSUME QueueInv, SchedInv, QueueInv', SchedInv', UNCHANGED use, NEW l \in Lists, WakeInv(l),
         Freed({}, l), Placed(l)', q'.n = q.n,
         LockOf(l)' = LockOf(l) \/ (LockOf(l) = -1 /\ LockOf(l)' = 0)
  PROVE  WakeInv(l)'
<1>1. IsFiniteSet({}) /\ Cardinality({}) = 0 BY FS_EmptySet
<1>2. Amount(l)' = Amount(l) BY NextAmounts DEF Amount
<1>3. Positive(LockOf(l)') = Positive(LockOf(l)) BY DEF Positive
<1>4. AllOwed(l) => AllOwed(l)' BY Amounts DEF AllOwed
<1>5. Enough(l, {})
  <2>1. PICK C : C = Left(k, k', l) OBVIOUS
  <2>2. C \subseteq Tasks BY <2>1, FreedSeek DEF WakeInv
  <2>3. IsFiniteSet(C) BY <2>2, Amounts, FS_Subset
  <2>4. PICK c \in Nat : c = Cardinality(C) BY <2>3, FS_CardinalityType
  <2>5. PICK a, p \in Int : a = Amount(l) /\ p = Positive(LockOf(l)) BY Amounts DEF Positive
  <2>6. a + 0 + p <= a + c + p BY <2>4, <2>5
  <2> QED BY <1>1, <1>2, <1>3, <1>4, <2>1, <2>4, <2>5, <2>6 DEF Enough
<1> QED BY <1>1, <1>5, WakeKept

\* The step of a task is about its own call, and about no other in the suspension.
LEMMA OwnPlaced ==
  ASSUME SchedInv, NEW t \in Tasks, k.cur = t, \A u \in Tasks \ {t} : me'[u] = me[u],
         me'[t].pc \notin {"place", "link"}, NEW l
  PROVE  Placed(l)'
<1>1. ASSUME NEW u \in Tasks, me'[u].pc \in {"place", "link"} PROVE FALSE
  <2>1. u # t BY <1>1
  <2>2. me[u].pc \in Within BY <1>1, <2>1 DEF Within
  <2> QED BY <2>1, <2>2 DEF SchedInv, Waits
<1> QED BY <1>1 DEF Placed

\* Calls that stay where they are want what they wanted.
LEMMA SameWanting ==
  ASSUME NEW u, me'[u].pc = me[u].pc, me'[u].op = me[u].op, me'[u].plan = me[u].plan, NEW l, Wanting(u, l)
  PROVE  Wanting(u, l)'
  BY DEF Wanting, WaitList, Eager

\* A step of the running task after which it wants what it wanted, if it did.
LEMMA OwnFreed ==
  ASSUME NEW t \in Tasks, \A u \in Tasks \ {t} : me'[u] = me[u], NEW l \in Lists,
         Wanting(t, l) => Wanting(t, l)',
         \A m \in Lists : ToSet(k'.ev[m]) \subseteq ToSet(k.ev[m])
  PROVE  Freed({}, l)
<1>1. \A u \in Tasks \ {t} : Wanting(u, l) => Wanting(u, l)' BY SameWanting
<1> QED BY <1>1 DEF Freed

\* A step of the running task with which its call may end.
LEMMA OwnLeaves ==
  ASSUME SchedInv, NEW t \in Tasks, At(t, "try"), \A u \in Tasks \ {t} : me'[u] = me[u], NEW l \in Lists,
         \A m \in Lists : ToSet(k'.ev[m]) \subseteq ToSet(k.ev[m])
  PROVE  Freed({t}, l)
<1>1. "try" \notin Within /\ "try" # "yield" BY DEF Within
<1>2. KernelOK(k) /\ k.st[t] = "ready" BY <1>1, SuspendedOrNot
<1>3. t \notin ToSet(k.ev[l]) BY <1>2 DEF KernelOK, ListsOK
<1>4. \A u \in Tasks \ {t} : Wanting(u, l) => Wanting(u, l)' BY SameWanting
<1> QED BY <1>3, <1>4 DEF Freed

\* Waking the first waiter of a list.
LEMMA FirstLeaves ==
  ASSUME SchedInv, NEW m \in Lists, k' = WakeFirst(k, m)
  PROVE  /\ \A l \in Lists : ToSet(k'.ev[l]) \subseteq ToSet(k.ev[l])
         /\ k'.ev[m] # <<>> => Cardinality(Left(k, k', m)) = 1
         /\ \A l \in Lists \ {m} : k'.ev[l] = k.ev[l] /\ Left(k, k', l) = {}
<1>1. KernelOK(k) /\ List(k.ev[m]) BY DEF SchedInv, Scheduled, KernelOK, ListsOK
<1>2. /\ \A l \in Lists \ {m} : k'.ev[l] = k.ev[l]
      /\ k.ev[m] = <<>> => k'.ev[m] = <<>>
      /\ k.ev[m] # <<>> => k'.ev[m] = Tail(k.ev[m])
  BY <1>1, WakeFirstTakes
<1>3. CASE k.ev[m] = <<>> BY <1>2, <1>3 DEF Left
<1>4. CASE k.ev[m] # <<>>
  <2>1. PICK h : h = Head(k.ev[m]) OBVIOUS
  <2>2. ToSet(k'.ev[m]) = ToSet(k.ev[m]) \ {h} /\ h \in ToSet(k.ev[m]) BY <1>1, <1>2, <1>4, <2>1, TailLeaves
  <2>3. Left(k, k', m) = {h} BY <2>2 DEF Left
  <2>4. Cardinality(Left(k, k', m)) = 1 BY <2>3, FS_Singleton
  <2> QED BY <1>2, <2>2, <2>4 DEF Left
<1> QED BY <1>3, <1>4

\* The first critical section of a call that succeeds: it ends, and a waiter of the list m
\* is woken.
LEMMA TryWake ==
  ASSUME QueueInv, SchedInv, QueueInv', SchedInv', UNCHANGED use, NEW t \in Tasks, At(t, "try"), Return(t),
         NEW m \in Lists, k' = WakeFirst(k, m), q'.tx = q.tx, q'.rx = q.rx, NEW l \in Lists, WakeInv(l),
         \/ Amount(l)' = 0
         \/ l # m /\ WaitList(t) = l /\ Amount(l)' = Amount(l) - 1
         \/ l = m /\ WaitList(t) = l /\ Amount(l)' = Amount(l)
         \/ l = m /\ WaitList(t) # l /\ Amount(l)' <= Amount(l) + 1
         \/ l # m /\ WaitList(t) # l /\ Amount(l)' <= Amount(l)
  PROVE  WakeInv(l)'
<1>1. k.cur = t /\ me'[t].pc = "idle" /\ \A u \in Tasks \ {t} : me'[u] = me[u]
  BY ReturnWaits, CallFields DEF At, Running, Return, NoCall
<1>2. Placed(l)' BY <1>1, OwnPlaced
<1>3. LockOf(l)' = LockOf(l) /\ (AllOwed(l) => AllOwed(l)') BY DEF LockOf, AllOwed
<1>4. /\ \A n \in Lists : ToSet(k'.ev[n]) \subseteq ToSet(k.ev[n])
      /\ k'.ev[m] # <<>> => Cardinality(Left(k, k', m)) = 1
      /\ l # m => Cardinality(Left(k, k', l)) = 0
  BY FirstLeaves, FS_EmptySet
<1>5. PICK a1, a2, p \in Nat : a1 = Amount(l) /\ a2 = Amount(l)' /\ p = Positive(LockOf(l))
  BY Amounts, NextAmounts DEF Positive
<1>6. k'.ev[l] # <<>> => Cardinality(Left(k, k', l)) = IF l = m THEN 1 ELSE 0 BY <1>4
<1>7. CASE WaitList(t) = l
  <2>1. Freed({t}, l) BY <1>1, <1>4, OwnLeaves
  <2>2. IsFiniteSet({t}) /\ Cardinality({t}) = 1 BY FS_Singleton
  <2>3. a2 = 0 \/ a2 + 1 + p <= a1 + (IF l = m THEN 1 ELSE 0) + p BY <1>5, <1>7
  <2>4. Enough(l, {t})
    <3> SUFFICES ASSUME k'.ev[l] # <<>>, ~AllOwed(l)'
                 PROVE  \/ Amount(l)' <= Cardinality(Left(k, k', l))
                        \/ /\ ~AllOwed(l)
                           /\ Amount(l)' + Cardinality({t}) + Positive(LockOf(l))
                                <= Amount(l) + Cardinality(Left(k, k', l)) + Positive(LockOf(l)')
      BY DEF Enough
    <3> QED BY <1>3, <1>5, <1>6, <2>2, <2>3
  <2> QED BY <1>2, <2>1, <2>2, <2>4, WakeKept
<1>8. CASE WaitList(t) # l
  <2>1. Freed({}, l) BY <1>1, <1>4, <1>8, OwnFreed DEF Wanting
  <2>2. IsFiniteSet({}) /\ Cardinality({}) = 0 BY FS_EmptySet
  <2>3. a2 = 0 \/ a2 + 0 + p <= a1 + (IF l = m THEN 1 ELSE 0) + p BY <1>5, <1>8
  <2>4. Enough(l, {})
    <3> SUFFICES ASSUME k'.ev[l] # <<>>, ~AllOwed(l)'
                 PROVE  \/ Amount(l)' <= Cardinality(Left(k, k', l))
                        \/ /\ ~AllOwed(l)
                           /\ Amount(l)' + Cardinality({}) + Positive(LockOf(l))
                                <= Amount(l) + Cardinality(Left(k, k', l)) + Positive(LockOf(l)')
      BY DEF Enough
    <3> QED BY <1>3, <1>5, <1>6, <2>2, <2>3
  <2> QED BY <1>2, <2>1, <2>2, <2>4, WakeKept
<1> QED BY <1>7, <1>8

\* How prvCopyDataToQueue counts.
LEMMA CopyCounts ==
  ASSUME QueueInv, SchedInv, NEW v, NEW pos, Room(pos), pos = "overwrite" => Length = 1,
         NEW c, c = prvCopyDataToQueue(v, pos)
  PROVE  /\ c.tx = q.tx /\ c.rx = q.rx /\ {"tx", "rx", "n"} \subseteq DOMAIN c
         /\ (c.n = q.n + 1 /\ q.n < Length) \/ (c.n = q.n /\ q.n = Length)
<1>1. q \in Rings(Length) /\ {"buf", "w", "r", "n", "tx", "rx"} = DOMAIN q BY Locks DEF Rings
<1>2. Length \in Nat /\ q.n \in Nat /\ q.n <= Length BY Amounts
<1>3. CASE pos = "back"
  <2>1. c.tx = q.tx /\ c.rx = q.rx /\ {"tx", "rx", "n"} \subseteq DOMAIN c /\ c.n = q.n + 1
    BY <1>1, <1>3 DEF prvCopyDataToQueue
  <2> QED BY <1>2, <1>3, <2>1 DEF Room
<1>4. CASE pos # "back"
  <2>1. /\ c.tx = q.tx /\ c.rx = q.rx /\ {"tx", "rx", "n"} \subseteq DOMAIN c
        /\ c.n = IF pos = "overwrite" /\ q.n > 0 THEN q.n ELSE q.n + 1
    BY <1>1, <1>4 DEF prvCopyDataToQueue
  <2>2. CASE pos = "overwrite" /\ q.n > 0 BY <1>2, <2>1, <2>2
  <2>3. CASE ~(pos = "overwrite" /\ q.n > 0) BY <1>2, <2>1, <2>3 DEF Room
  <2> QED BY <2>2, <2>3
<1> QED BY <1>3, <1>4

\* How prvCopyDataFromQueue counts.
LEMMA TakeCounts ==
  ASSUME QueueInv, SchedInv, NEW c, c = prvCopyDataFromQueue
  PROVE  c.tx = q.tx /\ c.rx = q.rx /\ {"tx", "rx", "n"} \subseteq DOMAIN c /\ c.n = q.n - 1
<1>1. q \in Rings(Length) /\ {"buf", "w", "r", "n", "tx", "rx"} = DOMAIN q BY Locks DEF Rings
<1> QED BY <1>1 DEF prvCopyDataFromQueue

\* The lists of a queue.
LEMMA QueueLists == "rx" \in Lists /\ "tx" \in Lists /\ "rx" # "tx"
  BY QueueAssumption

\* A send: an item for the readers, one place less for the senders.
LEMMA SendNowWake ==
  ASSUME QueueInv, SchedInv, QueueInv', SchedInv', UNCHANGED use, NEW t \in Tasks, SendNow(t),
         NEW l \in {"rx", "tx"}, WakeInv(l)
  PROVE  WakeInv(l)'
<1>1. At(t, "try") /\ Return(t) /\ k' = WakeFirst(k, "rx") /\ me[t].op = "send" BY DEF SendNow
<1>2. me[t].pos = "overwrite" => Length = 1 BY DEF QueueInv, CallsOK, CallOK
<1>3. /\ q'.tx = q.tx /\ q'.rx = q.rx
      /\ (q'.n = q.n + 1 /\ q.n < Length) \/ (q'.n = q.n /\ q.n = Length)
  BY <1>2, CopyCounts DEF SendNow
<1>4. Length' = Length /\ Length \in Nat /\ q.n \in Nat BY Amounts, NextAmounts
<1>5. WaitList(t) = "tx" BY <1>1 DEF WaitList
<1>6. l = "rx" => Amount(l)' <= Amount(l) + 1 BY <1>3, <1>4 DEF Amount
<1>7. l = "tx" => Amount(l)' = 0 \/ Amount(l)' = Amount(l) - 1 BY <1>3, <1>4, QueueLists DEF Amount
<1>8. l = "rx" \/ l = "tx" OBVIOUS
<1> QED BY <1>1, <1>3, <1>5, <1>6, <1>7, <1>8, QueueLists, TryWake

\* A receive: one item less for the readers, a place for the senders.
LEMMA ReceiveNowWake ==
  ASSUME QueueInv, SchedInv, QueueInv', SchedInv', UNCHANGED use, NEW t \in Tasks, ReceiveNow(t),
         NEW l \in {"rx", "tx"}, WakeInv(l)
  PROVE  WakeInv(l)'
<1>1. At(t, "try") /\ Return(t) /\ k' = WakeFirst(k, "tx") /\ me[t].op = "receive" BY DEF ReceiveNow
<1>2. q'.tx = q.tx /\ q'.rx = q.rx /\ q'.n = q.n - 1 BY TakeCounts DEF ReceiveNow
<1>3. Length' = Length /\ Length \in Nat /\ q.n \in Nat BY Amounts, NextAmounts
<1>4. WaitList(t) = "rx" BY <1>1 DEF WaitList
<1>5. l = "rx" => Amount(l)' = Amount(l) - 1 BY <1>2, <1>3 DEF Amount
<1>6. l = "tx" => Amount(l)' <= Amount(l) + 1 BY <1>2, <1>3, QueueLists DEF Amount
<1>7. l = "rx" \/ l = "tx" OBVIOUS
<1> QED BY <1>1, <1>2, <1>4, <1>5, <1>6, <1>7, QueueLists, TryWake

\* A peek leaves the item for another reader, and wakes one.
LEMMA PeekNowWake ==
  ASSUME QueueInv, SchedInv, QueueInv', SchedInv', UNCHANGED use, NEW t \in Tasks, PeekNow(t),
         NEW l \in {"rx", "tx"}, WakeInv(l)
  PROVE  WakeInv(l)'
<1>1. At(t, "try") /\ Return(t) /\ k' = WakeFirst(k, "rx") /\ me[t].op = "peek" /\ q' = q BY DEF PeekNow
<1>2. Length' = Length /\ Length \in Nat /\ q.n \in Nat BY Amounts, NextAmounts
<1>3. WaitList(t) = "rx" BY <1>1 DEF WaitList
<1>4. Amount(l)' = Amount(l) /\ Amount(l) <= Amount(l) BY <1>1, <1>2 DEF Amount
<1>5. l = "rx" \/ l = "tx" OBVIOUS
<1> QED BY <1>1, <1>3, <1>4, <1>5, QueueLists, TryWake

\* xQueueReset: nothing is left for the readers; of the senders one is woken, which is
\* enough where there is one place, or one sender.
LEMMA ResetNowWake ==
  ASSUME QueueInv, SchedInv, QueueInv', SchedInv', UNCHANGED use, NEW t \in Tasks, ResetNow(t),
         NEW l \in {"rx", "tx"}, l = "tx" => ResetWakesEnough, WakeInv(l)
  PROVE  WakeInv(l)'
<1>1. At(t, "try") /\ Return(t) /\ k' = WakeFirst(k, "tx") /\ me[t].op = "reset" /\ q'.n = 0
  BY DEF ResetNow, EmptyQueue
<1>2. k.cur = t /\ me'[t].pc = "idle" /\ \A u \in Tasks \ {t} : me'[u] = me[u]
  BY <1>1, ReturnWaits, CallFields DEF At, Running, Return, NoCall
<1>3. Placed(l)' BY <1>2, OwnPlaced
<1>4. /\ \A n \in Lists : ToSet(k'.ev[n]) \subseteq ToSet(k.ev[n])
      /\ k'.ev["tx"] # <<>> => Cardinality(Left(k, k', "tx")) = 1
      /\ Left(k, k', "rx") = {}
  BY <1>1, QueueLists, FirstLeaves
<1>5. Freed({}, l) BY <1>1, <1>2, <1>4, QueueLists, OwnFreed DEF Wanting
<1>6. Length' = Length /\ Length \in Nat BY Amounts, NextAmounts
<1>7. Enough(l, {})
  <2>1. CASE l = "rx"
    <3>1. Amount(l)' = 0 /\ Cardinality(Left(k, k', l)) = 0 BY <1>1, <1>4, <2>1, FS_EmptySet DEF Amount
    <3> QED BY <3>1 DEF Enough
  <2>2. CASE l = "tx" /\ Length = 1
    <3>1. Amount(l)' = 1 BY <1>1, <1>6, <2>2, QueueLists DEF Amount
    <3> QED BY <1>4, <2>2, <3>1 DEF Enough
  <2>3. CASE l = "tx" /\ Length # 1
    <3>1. me[t].pc # "idle" BY <1>1 DEF At
    <3>2. PICK c \in use.calls[t] : c.op = "reset" BY <1>1, <3>1 DEF QueueInv, CallsOK, CallOK
    <3>3. \A u, w \in Tasks : \A d \in use.calls[u], e \in use.calls[w] : d.op = "send" /\ e.op = "send" => u = w
      BY <2>3, <3>2 DEF ResetWakesEnough
    <3>4. k.ev \in [Lists -> Seq(Tasks)] /\ KernelOK(k) BY KernelFields DEF SchedInv, Scheduled, KernelOK
    <3>5. ToSet(k.ev["tx"]) \subseteq Tasks /\ List(k.ev["tx"]) BY <3>4, QueueLists, InList DEF KernelOK, ListsOK
    <3>6. ASSUME NEW w \in ToSet(k.ev["tx"]) PROVE \E d \in use.calls[w] : d.op = "send"
      <4>1. w \in Tasks /\ Wanting(w, "tx") BY <2>3, <3>5 DEF WakeInv, Waiting
      <4>2. me[w].op = "send" /\ me[w].pc # "idle" BY <4>1, QueueLists DEF Wanting, WaitList, Eager
      <4> QED BY <4>1, <4>2 DEF QueueInv, CallsOK, CallOK
    <3>7. \A u, w \in ToSet(k.ev["tx"]) : u = w BY <3>3, <3>5, <3>6
    <3>8. k'.ev["tx"] = <<>>
      <4>1. CASE k.ev["tx"] = <<>> BY <1>1, <3>4, <4>1, QueueLists, WakeFirstTakes
      <4>2. CASE k.ev["tx"] # <<>>
        <5>1. k'.ev["tx"] = Tail(k.ev["tx"]) BY <1>1, <3>4, <4>2, QueueLists, WakeFirstTakes
        <5>2. /\ Tail(k.ev["tx"]) \in Seq(Tasks) /\ ToSet(Tail(k.ev["tx"])) = ToSet(k.ev["tx"]) \ {Head(k.ev["tx"])}
              /\ Head(k.ev["tx"]) \in ToSet(k.ev["tx"])
          BY <3>5, <4>2, TailLeaves DEF List
        <5>3. ToSet(Tail(k.ev["tx"])) = {} BY <3>7, <5>2
        <5> QED BY <5>1, <5>2, <5>3, EmptyList
      <4> QED BY <4>1, <4>2
    <3> QED BY <2>3, <3>8 DEF Enough
  <2> QED BY <2>1, <2>2, <2>3
<1> QED BY <1>3, <1>5, <1>7, QueueLists, FS_EmptySet, WakeKept

\* A step of the running task that leaves the amount alone and goes on wanting what it wanted.
LEMMA OwnQuiet ==
  ASSUME QueueInv, SchedInv, QueueInv', SchedInv', UNCHANGED use, NEW t \in Tasks, k.cur = t,
         \A u \in Tasks \ {t} : me'[u] = me[u], me'[t].pc \notin {"place", "link"},
         \A m \in Lists : ToSet(k'.ev[m]) \subseteq ToSet(k.ev[m]), q'.n = q.n, NEW l \in Lists, WakeInv(l),
         LockOf(l)' = LockOf(l) \/ (LockOf(l) = -1 /\ LockOf(l)' = 0),
         Wanting(t, l) => Wanting(t, l)'
  PROVE  WakeInv(l)'
<1>1. Placed(l)' BY OwnPlaced
<1>2. Freed({}, l) BY OwnFreed
<1> QED BY <1>1, <1>2, QuietWake

\* A call begins.
LEMMA BeginWake ==
  ASSUME QueueInv, SchedInv, QueueInv', SchedInv', UNCHANGED use, NEW t \in Tasks, NEW c, NEW v, Begin(t, c, v),
         NEW l \in Lists, WakeInv(l)
  PROVE  WakeInv(l)'
<1>1. me'[t].pc = "try" /\ \A u \in Tasks \ {t} : me'[u] = me[u] BY CallFields DEF Begin, NoCall
<1>2. k.cur = t /\ ~Wanting(t, l) BY DEF Begin, At, Running, Wanting, Eager
<1>3. k' = k /\ q' = q BY DEF Begin
<1>4. LockOf(l)' = LockOf(l) BY <1>3 DEF LockOf
<1> QED BY <1>1, <1>2, <1>3, <1>4, OwnQuiet

\* A task that has nothing left to do.
LEMMA RetireWake ==
  ASSUME QueueInv, SchedInv, QueueInv', SchedInv', UNCHANGED use, NEW t \in Tasks, Retire(t),
         NEW l \in Lists, WakeInv(l)
  PROVE  WakeInv(l)'
<1>1. me' = me /\ q' = q /\ k.cur = t /\ me[t].pc = "idle" BY DEF Retire, At, Running
<1>2. k'.ev = k.ev
  <2>1. k \in Kernels BY DEF SchedInv, Scheduled, KernelOK
  <2>2. PICK s : s = [k.st EXCEPT ![t] = "suspended"] OBVIOUS
  <2>3. k' = portYIELD([k EXCEPT !.st = s]) BY <2>2 DEF Retire
  <2> QED BY <2>1, <2>3 DEF portYIELD, Kernels
<1>3. LockOf(l)' = LockOf(l) BY <1>1 DEF LockOf
<1>4. ~Wanting(t, l) BY <1>1 DEF Wanting, Eager
<1> QED BY <1>1, <1>2, <1>3, <1>4, OwnQuiet

\* A call that finds nothing gives up, or prepares to wait: there is nothing to be had.
LEMMA StuckWake ==
  ASSUME QueueInv, SchedInv, QueueInv', SchedInv', UNCHANGED use, NEW t \in Tasks, At(t, "try"), Stuck(t),
         UNCHANGED <<k, q>>, \A u \in Tasks \ {t} : me'[u] = me[u], me'[t].pc \in {"idle", "suspend"},
         NEW l \in {"rx", "tx"}, WakeInv(l)
  PROVE  WakeInv(l)'
<1>1. k.cur = t /\ LockOf(l)' = LockOf(l) BY DEF At, Running, LockOf
<1>2. Length' = Length /\ Length \in Nat /\ q.n \in Nat /\ q.n <= Length BY Amounts, NextAmounts
<1>3. CASE WaitList(t) = l
  <2>1. Placed(l)' BY <1>1, OwnPlaced
  <2>2. Freed({t}, l) BY QueueLists, OwnLeaves
  <2>3. Amount(l)' = 0 BY <1>2, <1>3, QueueLists DEF Stuck, Room, WaitList, Amount
  <2>4. Cardinality(Left(k, k', l)) = 0
    <3>1. Left(k, k', l) = {} BY DEF Left
    <3> QED BY <3>1, FS_EmptySet
  <2>5. Enough(l, {t}) BY <2>3, <2>4 DEF Enough
  <2> QED BY <2>1, <2>2, <2>5, QueueLists, FS_Singleton, WakeKept
<1>4. CASE WaitList(t) # l
  <2>1. ~Wanting(t, l) BY <1>4 DEF Wanting
  <2> QED BY <1>1, <2>1, QueueLists, OwnQuiet
<1> QED BY <1>3, <1>4

\* The ways out of the first critical section when there is nothing.
LEMMA GiveUpWake ==
  ASSUME QueueInv, SchedInv, QueueInv', SchedInv', UNCHANGED use, NEW t \in Tasks, GiveUp(t) \/ Prepare(t),
         NEW l \in {"rx", "tx"}, WakeInv(l)
  PROVE  WakeInv(l)'
<1>1. At(t, "try") /\ Stuck(t) /\ UNCHANGED <<k, q>> BY DEF GiveUp, Prepare
<1>2. CASE GiveUp(t)
  <2>1. Return(t) BY <1>2 DEF GiveUp, Fail
  <2>2. me'[t].pc = "idle" /\ \A u \in Tasks \ {t} : me'[u] = me[u]
    BY <2>1, ReturnWaits, CallFields DEF Return, NoCall
  <2> QED BY <1>1, <2>2, StuckWake
<1>3. CASE Prepare(t)
  <2>1. me'[t].pc = "suspend" /\ \A u \in Tasks \ {t} : me'[u] = me[u] BY <1>3, CallFields DEF Prepare
  <2> QED BY <1>1, <2>1, StuckWake
<1> QED BY <1>2, <1>3

\* vTaskSuspendAll.
LEMMA SuspendAllWake ==
  ASSUME QueueInv, SchedInv, QueueInv', SchedInv', UNCHANGED use, NEW t \in Tasks, SuspendAll(t),
         NEW l \in Lists, WakeInv(l)
  PROVE  WakeInv(l)'
<1>1. q' = q /\ k.cur = t /\ me[t].pc = "suspend" BY DEF SuspendAll, At, Running
<1>2. me'[t].pc = "lock" /\ \A u \in Tasks \ {t} : me'[u] = me[u] BY CallFields DEF SuspendAll, Goto
<1>3. k'.ev = k.ev
  <2>1. k \in Kernels BY DEF SchedInv, Scheduled, KernelOK
  <2> QED BY <2>1 DEF SuspendAll, vTaskSuspendAll, Kernels
<1>4. LockOf(l)' = LockOf(l) BY <1>1 DEF LockOf
<1>5. ~Wanting(t, l) BY <1>1 DEF Wanting, Eager
<1> QED BY <1>1, <1>2, <1>3, <1>4, <1>5, OwnQuiet

\* prvLockQueue: the count begins at nothing.
LEMMA LockWake ==
  ASSUME QueueInv, SchedInv, QueueInv', SchedInv', UNCHANGED use, NEW t \in Tasks, prvLockQueue(t),
         NEW l \in Lists, WakeInv(l)
  PROVE  WakeInv(l)'
<1>1. k' = k /\ k.cur = t /\ me[t].pc = "lock" BY DEF prvLockQueue, At, Running
<1>2. me'[t].pc = "timeout" /\ \A u \in Tasks \ {t} : me'[u] = me[u] BY CallFields DEF prvLockQueue, Goto
<1>3. PICK rx : rx = IF q.rx = queueUNLOCKED THEN 0 ELSE q.rx OBVIOUS
<1>4. PICK tx : tx = IF q.tx = queueUNLOCKED THEN 0 ELSE q.tx OBVIOUS
<1>5. q' = [q EXCEPT !.rx = rx, !.tx = tx] BY <1>3, <1>4, Zenon DEF prvLockQueue
<1>6. q'.tx = tx /\ q'.rx = rx /\ q'.n = q.n BY <1>5, Locks DEF Rings
<1>7. LockOf(l)' = LockOf(l) \/ (LockOf(l) = -1 /\ LockOf(l)' = 0)
  BY <1>3, <1>4, <1>6 DEF LockOf, queueUNLOCKED
<1>8. ~Wanting(t, l) BY <1>1 DEF Wanting, Eager
<1> QED BY <1>1, <1>2, <1>6, <1>7, <1>8, OwnQuiet

\* xTaskCheckForTimeOut.
LEMMA CheckForTimeOutWake ==
  ASSUME QueueInv, SchedInv, QueueInv', SchedInv', UNCHANGED use, NEW t \in Tasks, CheckForTimeOut(t),
         NEW l \in Lists, WakeInv(l)
  PROVE  WakeInv(l)'
<1>1. k' = k /\ q' = q /\ k.cur = t /\ me[t].pc = "timeout" BY DEF CheckForTimeOut, At, Running
<1>2. PICK e : e = Elapsed(t) OBVIOUS
<1>3. \/ me' = [me EXCEPT ![t] = [@ EXCEPT !.pc = "check"]]
      \/ me' = [me EXCEPT ![t] = [@ EXCEPT !.pc = "check", !.left = me[t].left - e, !.over = k.over, !.tick = k.tick]]
      \/ me' = [me EXCEPT ![t] = [@ EXCEPT !.pc = "unlockTx", !.left = 0, !.plan = "expire"]]
  <2>1. \/ me' = [me EXCEPT ![t] = [@ EXCEPT !.pc = "check"]]
        \/ me' = [me EXCEPT ![t] = [@ EXCEPT !.pc = "check", !.left = me[t].left - Elapsed(t), !.over = k.over, !.tick = k.tick]]
        \/ me' = [me EXCEPT ![t] = [@ EXCEPT !.pc = "unlockTx", !.left = 0, !.plan = "expire"]]
    BY Zenon DEF CheckForTimeOut
  <2> QED BY <1>2, <2>1
<1>4. me'[t].pc \in {"check", "unlockTx"} /\ \A u \in Tasks \ {t} : me'[u] = me[u] BY <1>3, CallFields
<1>5. LockOf(l)' = LockOf(l) BY <1>1 DEF LockOf
<1>6. ~Wanting(t, l) BY <1>1 DEF Wanting, Eager
<1> QED BY <1>1, <1>4, <1>5, <1>6, OwnQuiet

\* prvIsQueueFull and prvIsQueueEmpty: a task that goes on to wait has found nothing.
LEMMA CheckQueueWake ==
  ASSUME QueueInv, SchedInv, QueueInv', SchedInv', UNCHANGED use, NEW t \in Tasks, CheckQueue(t),
         NEW l \in {"rx", "tx"}, WakeInv(l)
  PROVE  WakeInv(l)'
<1>1. k' = k /\ q' = q /\ k.cur = t /\ me[t].pc = "check" BY DEF CheckQueue, At, Running
<1>2. PICK full : full = IF me[t].op = "send" THEN q.n = Length ELSE q.n = 0 OBVIOUS
<1>3. /\ \A u \in Tasks \ {t} : me'[u] = me[u]
      /\ me'[t].pc \in {"place", "unlockTx"} /\ (me'[t].pc = "place" => full) /\ me'[t].op = me[t].op
  BY <1>2, CallFields DEF CheckQueue
<1>4. Length' = Length /\ Length \in Nat BY Amounts, NextAmounts
<1>5. LockOf(l)' = LockOf(l) /\ LockOf(l) >= 0
  <2>1. q.tx # queueUNLOCKED /\ q.rx # queueUNLOCKED BY <1>1 DEF SchedInv, Waits, QueueHeld
  <2>2. q.tx >= 0 /\ q.rx >= 0 BY <2>1, Locks DEF queueUNLOCKED
  <2> QED BY <1>1, <2>2 DEF LockOf
<1>6. Placed(l)'
  <2>1. ASSUME NEW u \in Tasks, me'[u].pc \in {"place", "link"}, WaitList(u)' = l PROVE Amount(l)' <= LockOf(l)'
    <3>1. CASE u # t
      <4>1. me[u].pc \in Within BY <1>3, <2>1, <3>1 DEF Within
      <4> QED BY <1>1, <3>1, <4>1 DEF SchedInv, Waits
    <3>2. CASE u = t
      <4>1. full BY <1>3, <2>1, <3>2
      <4>2. WaitList(t) = l BY <1>3, <2>1, <3>2 DEF WaitList
      <4>3. CASE me[t].op = "send"
        <5>1. l = "tx" /\ q.n = Length BY <1>2, <4>1, <4>2, <4>3 DEF WaitList
        <5>2. Amount(l)' = Length - Length BY <1>1, <1>4, <5>1, QueueLists DEF Amount
        <5> QED BY <1>4, <1>5, <5>2
      <4>4. CASE me[t].op # "send"
        <5>1. l = "rx" /\ q.n = 0 BY <1>2, <4>1, <4>2, <4>4 DEF WaitList
        <5>2. Amount(l)' = 0 BY <1>1, <5>1 DEF Amount
        <5> QED BY <1>5, <5>2
      <4> QED BY <4>3, <4>4
    <3> QED BY <3>1, <3>2
  <2> QED BY <2>1 DEF Placed
<1>7. ~Wanting(t, l) BY <1>1 DEF Wanting, Eager
<1>8. Freed({}, l) BY <1>1, <1>3, <1>7, QueueLists, OwnFreed
<1> QED BY <1>1, <1>5, <1>6, <1>8, QueueLists, QuietWake

\* vListInsert looks for the task's place.
LEMMA ScanWake ==
  ASSUME QueueInv, SchedInv, QueueInv', SchedInv', UNCHANGED use, NEW t \in Tasks, ScanEventList(t),
         NEW l \in Lists, WakeInv(l)
  PROVE  WakeInv(l)'
<1>1. k' = k /\ q' = q /\ k.cur = t /\ me[t].pc = "place" BY DEF ScanEventList, At, Running
<1>2. /\ \A u \in Tasks \ {t} : me'[u] = me[u]
      /\ me'[t].pc = "link" /\ me'[t].op = me[t].op
  BY CallFields DEF ScanEventList
<1>3. LockOf(l)' = LockOf(l) /\ Amount(l)' = Amount(l) BY <1>1, NextAmounts DEF LockOf, Amount
<1>4. Placed(l)'
  <2>1. ASSUME NEW u \in Tasks, me'[u].pc \in {"place", "link"}, WaitList(u)' = l
        PROVE  AllOwed(l) \/ Amount(l) <= LockOf(l)
    <3>1. me[u].pc \in {"place", "link"} BY <1>1, <1>2, <2>1
    <3>2. WaitList(u) = l BY <1>2, <2>1 DEF WaitList
    <3> QED BY <3>1, <3>2 DEF WakeInv, Placed
  <2> QED BY <1>3, <2>1 DEF Placed, AllOwed
<1>5. ~Wanting(t, l) BY <1>1 DEF Wanting, Eager
<1>6. Freed({}, l) BY <1>1, <1>2, <1>5, OwnFreed
<1> QED BY <1>1, <1>3, <1>4, <1>6, QuietWake

\* vTaskPlaceOnEventList: who waits from now on has found no more than the lock has counted.
LEMMA PlaceWake ==
  ASSUME QueueInv, SchedInv, QueueInv', SchedInv', UNCHANGED use, AtOnce, NEW t \in Tasks, PlaceOnEventList(t),
         NEW l \in {"rx", "tx"}, WakeInv(l)
  PROVE  WakeInv(l)'
<1>1. q' = q /\ At(t, "link") /\ k' = vTaskPlaceOnEventList(k, WaitList(t), me[t].left) /\ "link" \in Within
  BY DEF PlaceOnEventList, Within
<1>2. /\ Waits(t) /\ me[t].pc = "link" /\ KernelOK(k) /\ k.cur = t /\ k.susp = 1
  BY <1>1, SuspendedOrNot DEF SchedInv
<1>3. me[t].left \in TickType \ {0} /\ k.st[t] = "ready" /\ me[t].plan = "block"
  BY <1>2 DEF Waits, Within, Unplaced
<1>4. WaitList(t) \in Lists BY QueueLists DEF WaitList
<1>5. k'.ev[WaitList(t)] = Inserted(k, k.ev[WaitList(t)], t) /\ \A m \in Lists \ {WaitList(t)} : k'.ev[m] = k.ev[m]
  BY <1>1, <1>2, <1>3, <1>4, PlaceBlocks
<1>6. ToSet(k'.ev[WaitList(t)]) = ToSet(k.ev[WaitList(t)]) \cup {t}
  <2>1. List(k.ev[WaitList(t)]) /\ t \notin ToSet(k.ev[WaitList(t)]) BY <1>2, <1>3, <1>4 DEF KernelOK, ListsOK
  <2> QED BY <1>5, <2>1, InsertedList
<1>7. /\ \A u \in Tasks \ {t} : me'[u] = me[u]
      /\ me'[t].pc = "unlockTx" /\ me'[t].plan = "block" /\ me'[t].op = me[t].op
  BY <1>3, CallFields DEF PlaceOnEventList
<1>8. LockOf(l)' = LockOf(l) /\ Amount(l)' = Amount(l) BY <1>1, NextAmounts DEF LockOf, Amount
<1>9. Placed(l)' BY <1>2, <1>7, OwnPlaced
<1>10. ASSUME NEW u \in Tasks, Wanting(u, l) PROVE u # t /\ Wanting(u, l)'
  <2>1. u # t BY <1>2, <1>10 DEF Wanting, Eager
  <2> QED BY <1>7, <1>10, <2>1, SameWanting
<1>11. ToSet(k.ev[l]) \subseteq Tasks
  <2>1. k.ev \in [Lists -> Seq(Tasks)] BY <1>2, KernelFields DEF KernelOK
  <2> QED BY <2>1, QueueLists, InList
<1>12. CASE WaitList(t) = l
  <2>1. Wanting(t, l)' BY <1>2, <1>7, <1>12 DEF AtOnce, Wanting, WaitList, Eager
  <2>2. Waiting(l)' BY <1>6, <1>10, <1>11, <1>12, <2>1 DEF WakeInv, Waiting
  <2>3. AllOwed(l) \/ Amount(l) <= LockOf(l) BY <1>2, <1>12 DEF WakeInv, Placed
  <2>4. Balanced(l)'
    <3>1. PICK p \in Nat, s \in Nat : p = Positive(LockOf(l)) /\ s = Cardinality(Seekers(l)')
      BY Amounts, NextAmounts DEF Positive
    <3>2. LockOf(l) <= p /\ LockOf(l) \in Int /\ Amount(l) \in Nat BY <3>1, Amounts DEF Positive
    <3>3. Amount(l) <= LockOf(l) => Amount(l) <= s + p BY <3>1, <3>2
    <3> QED BY <1>8, <2>3, <3>1, <3>3 DEF Balanced, AllOwed
  <2> QED BY <1>9, <2>2, <2>4 DEF WakeInv
<1>13. CASE WaitList(t) # l
  <2>1. k'.ev[l] = k.ev[l] BY <1>5, <1>13, QueueLists
  <2>2. Waiting(l)' BY <1>10, <1>11, <2>1 DEF WakeInv, Waiting
  <2>3. ASSUME NEW u \in Seekers(l) PROVE u \in Seekers(l)'
    <3>1. u \in Tasks /\ Wanting(u, l) /\ \A m \in Lists : u \notin ToSet(k.ev[m]) BY DEF Seekers
    <3>2. u # t /\ Wanting(u, l)' BY <1>10, <3>1
    <3>3. \A m \in Lists : u \notin ToSet(k'.ev[m]) BY <1>5, <1>6, <3>1, <3>2
    <3> QED BY <3>1, <3>2, <3>3 DEF Seekers
  <2>4. Cardinality(Seekers(l)) <= Cardinality(Seekers(l)')
    <3>1. Seekers(l) \subseteq Seekers(l)' BY <2>3
    <3> QED BY <3>1, NextAmounts, FS_Subset
  <2>5. Balanced(l)'
    <3>1. PICK p, s1, s2, a \in Nat : /\ p = Positive(LockOf(l)) /\ s1 = Cardinality(Seekers(l))
                                      /\ s2 = Cardinality(Seekers(l)') /\ a = Amount(l)
      BY Amounts, NextAmounts DEF Positive
    <3>2. a <= s1 + p => a <= s2 + p BY <2>4, <3>1
    <3> QED BY <1>8, <2>1, <3>1, <3>2 DEF WakeInv, Balanced, AllOwed
  <2> QED BY <1>9, <2>2, <2>5 DEF WakeInv
<1> QED BY <1>12, <1>13

\* Half of prvUnlockQueue: as many leave the list as the lock has counted, or all.
LEMMA UnlockWake ==
  ASSUME QueueInv, SchedInv, QueueInv', SchedInv', UNCHANGED use, NEW t \in Tasks, NEW m \in {"rx", "tx"},
         k' = Unlocked(k, LockOf(m), m), LockOf(m)' = -1, \A j \in {"rx", "tx"} \ {m} : LockOf(j)' = LockOf(j),
         q'.n = q.n, NEW pc \in {"unlockTx", "unlockRx"}, At(t, pc), NEW pc2 \in {"unlockRx", "resume"}, Goto(t, pc2),
         NEW l \in {"rx", "tx"}, WakeInv(l)
  PROVE  WakeInv(l)'
<1>1. pc \in Within BY DEF Within
<1>2. me[t].pc = pc /\ KernelOK(k) /\ k.cur = t /\ k.susp = 1 BY <1>1, SuspendedOrNot
<1>3. /\ ToSet(k'.ev[m]) \subseteq ToSet(k.ev[m])
      /\ \A j \in Lists \ {m} : k'.ev[j] = k.ev[j]
      /\ k'.ev[m] # <<>> => Cardinality(Left(k, k', m)) = Positive(LockOf(m))
  <2>1. PICK lock : lock = LockOf(m) OBVIOUS
  <2>2. PICK x, y : x = k /\ y = k' OBVIOUS
  <2>3. KernelOK(x) /\ x.susp # 0 /\ lock \in Int /\ m \in Lists BY <1>2, <2>1, <2>2, Amounts, QueueLists
  <2>4. y = Unlocked(x, lock, m) BY <2>1, <2>2
  <2>5. /\ ToSet(y.ev[m]) \subseteq ToSet(x.ev[m])
        /\ \A j \in Lists \ {m} : y.ev[j] = x.ev[j]
        /\ y.ev[m] # <<>> => Cardinality(Left(x, y, m)) = Positive(lock)
    <3>1. ToSet(y.ev[m]) \subseteq ToSet(x.ev[m]) BY <2>3, <2>4, UnlockPends
    <3>2. \A j \in Lists \ {m} : y.ev[j] = x.ev[j] BY <2>3, <2>4, UnlockPends
    <3>3. y.ev[m] # <<>> => Cardinality(Left(x, y, m)) = Positive(lock) BY <2>3, <2>4, UnlockPends
    <3> QED BY <3>1, <3>2, <3>3
  <2> QED BY <2>1, <2>2, <2>5
<1>4. \A j \in Lists : ToSet(k'.ev[j]) \subseteq ToSet(k.ev[j]) BY <1>3
<1>5. /\ \A u \in Tasks \ {t} : me'[u] = me[u]
      /\ me'[t].pc = pc2 /\ me'[t].plan = me[t].plan /\ me'[t].op = me[t].op
  BY CallFields DEF Goto
<1>6. Wanting(t, l) => Wanting(t, l)' BY <1>2, <1>5 DEF Wanting, WaitList, Eager
<1>7. CASE l # m BY <1>2, <1>3, <1>4, <1>5, <1>6, <1>7, QueueLists, OwnQuiet
<1>8. CASE l = m
  <2>1. Placed(l)' BY <1>2, <1>5, OwnPlaced
  <2>2. Freed({}, l) BY <1>4, <1>5, <1>6, QueueLists, OwnFreed
  <2>3. Amount(l)' = Amount(l) BY NextAmounts DEF Amount
  <2>4. PICK p, a \in Nat : p = Positive(LockOf(l)) /\ a = Amount(l) BY Amounts DEF Positive
  <2>5. Positive(LockOf(l)') = 0 BY <1>8 DEF Positive
  <2>6. ASSUME k'.ev[l] # <<>> PROVE ~AllOwed(l)
    <3>1. PICK C : C = Left(k, k', l) OBVIOUS
    <3>2. PICK w : w \in ToSet(k'.ev[l])
      <4>1. k'.ev \in [Lists -> Seq(Tasks)] BY KernelFields DEF SchedInv, Scheduled, KernelOK
      <4> QED BY <2>6, <4>1, QueueLists, EmptyList
    <3>3. C \subseteq Tasks BY <2>2, <3>1, QueueLists, FreedSeek DEF WakeInv
    <3>4. w \notin C /\ w \in Tasks
      <4>1. k.ev \in [Lists -> Seq(Tasks)] BY <1>2, KernelFields DEF KernelOK
      <4>2. ToSet(k.ev[l]) \subseteq Tasks BY <4>1, QueueLists, InList
      <4> QED BY <1>3, <1>8, <3>1, <3>2, <4>2 DEF Left
    <3>5. Cardinality(C) < Cardinality(Tasks)
      <4>1. Cardinality(C) <= Cardinality(Tasks) /\ Cardinality(C) # Cardinality(Tasks) /\ IsFiniteSet(C)
        BY <3>3, <3>4, Amounts, FS_Subset
      <4> QED BY <4>1, Amounts, FS_CardinalityType
    <3>6. Cardinality(C) = p /\ LockOf(l) <= p BY <1>3, <1>8, <2>4, <2>6, <3>1, Amounts DEF Positive
    <3> QED BY <2>4, <3>5, <3>6, Amounts DEF AllOwed
  <2>7. Enough(l, {})
    <3>1. a + 0 + p <= a + p + 0 OBVIOUS
    <3> QED BY <1>3, <1>8, <2>3, <2>4, <2>5, <2>6, <3>1, FS_EmptySet DEF Enough
  <2> QED BY <2>1, <2>2, <2>7, QueueLists, FS_EmptySet, WakeKept
<1> QED BY <1>7, <1>8

\* The two halves of prvUnlockQueue.
LEMMA UnlockBothWake ==
  ASSUME QueueInv, SchedInv, QueueInv', SchedInv', UNCHANGED use, NEW t \in Tasks,
         prvUnlockQueueTx(t) \/ prvUnlockQueueRx(t), NEW l \in {"rx", "tx"}, WakeInv(l)
  PROVE  WakeInv(l)'
<1>1. CASE prvUnlockQueueTx(t)
  <2>1. q'.tx = -1 /\ q'.rx = q.rx /\ q'.n = q.n BY <1>1, Locks DEF prvUnlockQueueTx, Rings, queueUNLOCKED
  <2>2. At(t, "unlockTx") /\ k' = Unlocked(k, LockOf("rx"), "rx") /\ Goto(t, "unlockRx")
    BY <1>1 DEF prvUnlockQueueTx, LockOf
  <2>3. LockOf("rx")' = -1 /\ \A j \in {"rx", "tx"} \ {"rx"} : LockOf(j)' = LockOf(j) BY <2>1 DEF LockOf
  <2> QED BY <2>1, <2>2, <2>3, UnlockWake
<1>2. CASE prvUnlockQueueRx(t)
  <2>1. q'.rx = -1 /\ q'.tx = q.tx /\ q'.n = q.n BY <1>2, Locks DEF prvUnlockQueueRx, Rings, queueUNLOCKED
  <2>2. At(t, "unlockRx") /\ k' = Unlocked(k, LockOf("tx"), "tx") /\ Goto(t, "resume")
    BY <1>2, QueueLists DEF prvUnlockQueueRx, LockOf
  <2>3. LockOf("tx")' = -1 /\ \A j \in {"rx", "tx"} \ {"tx"} : LockOf(j)' = LockOf(j) BY <2>1, QueueLists DEF LockOf
  <2> QED BY <2>1, <2>2, <2>3, UnlockWake
<1> QED BY <1>1, <1>2

\* xTaskResumeAll: who waits too long leaves the list and will look again.
LEMMA ResumeWake ==
  ASSUME QueueInv, SchedInv, QueueInv', SchedInv', UNCHANGED use, NEW t \in Tasks, Resume(t),
         NEW l \in Lists, WakeInv(l)
  PROVE  WakeInv(l)'
<1>1. At(t, "resume") /\ q' = q /\ "resume" \in Within /\ k' = xTaskResumeAll(k) BY DEF Resume, Within
<1>2. me[t].pc = "resume" /\ KernelOK(k) /\ k.cur = t /\ k.susp = 1 BY <1>1, SuspendedOrNot
<1>3. Shrinks(k, k')
  <2>1. PICK x : x = k' OBVIOUS
  <2>2. Shrinks(k, x) BY <1>1, <1>2, <2>1, KernelWoken, ResumeServes
  <2> QED BY <2>1, <2>2
<1>4. /\ \A u \in Tasks \ {t} : me'[u] = me[u]
      /\ me'[t].pc \notin {"place", "link"}
      /\ me[t].plan \in {"block", "retry"} => me'[t].pc \in {"try", "yield"} /\ me'[t].op = me[t].op
  <2>1. CASE me[t].plan = "expire" /\ me[t].op = "send"
    <3>1. Return(t) BY <2>1 DEF Resume, Fail
    <3>2. me'[t].pc = "idle" BY <3>1, CallFields DEF Return, NoCall
    <3> QED BY <2>1, <3>1, <3>2, ReturnWaits
  <2>2. CASE ~(me[t].plan = "expire" /\ me[t].op = "send")
    <3>1. PICK pc : /\ me' = [me EXCEPT ![t].plan = "none", ![t].pc = pc]
                    /\ pc \in {"try", "yield", "last"}
                    /\ me[t].plan \in {"block", "retry"} => pc \in {"try", "yield"}
      BY <2>2 DEF Resume
    <3> QED BY <3>1, CallFields
  <2> QED BY <2>1, <2>2
<1>5. LockOf(l)' = LockOf(l) BY <1>1 DEF LockOf
<1>6. Wanting(t, l) => Wanting(t, l)' BY <1>2, <1>4 DEF Wanting, WaitList, Eager
<1>7. \A m \in Lists : ToSet(k'.ev[m]) \subseteq ToSet(k.ev[m]) BY <1>3 DEF Shrinks
<1> QED BY <1>1, <1>2, <1>4, <1>5, <1>6, <1>7, OwnQuiet

\* taskYIELD_WITHIN_API.
LEMMA YieldWake ==
  ASSUME QueueInv, SchedInv, QueueInv', SchedInv', UNCHANGED use, NEW t \in Tasks, YieldWithinApi(t),
         NEW l \in Lists, WakeInv(l)
  PROVE  WakeInv(l)'
<1>1. q' = q /\ k.cur = t BY DEF YieldWithinApi, At, Running
<1>2. k'.ev = k.ev
  <2>1. KernelOK(k) BY DEF SchedInv, Scheduled
  <2>2. OnlySwi(k, k') BY <2>1, YieldKeeps DEF YieldWithinApi
  <2> QED BY <2>2 DEF OnlySwi
<1>3. me'[t].pc = "try" /\ me'[t].op = me[t].op /\ \A u \in Tasks \ {t} : me'[u] = me[u]
  BY CallFields DEF YieldWithinApi, Goto
<1>4. LockOf(l)' = LockOf(l) BY <1>1 DEF LockOf
<1>5. Wanting(t, l) => Wanting(t, l)' BY <1>3 DEF Wanting, WaitList, Eager
<1> QED BY <1>1, <1>2, <1>3, <1>4, <1>5, OwnQuiet

\* A read that has expired looks once more.
LEMMA LastLookWake ==
  ASSUME QueueInv, SchedInv, QueueInv', SchedInv', UNCHANGED use, NEW t \in Tasks, LastLook(t),
         NEW l \in Lists, WakeInv(l)
  PROVE  WakeInv(l)'
<1>1. q' = q /\ k' = k /\ k.cur = t /\ me[t].pc = "last" BY DEF LastLook, At, Running
<1>2. /\ \A u \in Tasks \ {t} : me'[u] = me[u]
      /\ me'[t].pc \in {"idle", "try"}
  <2>1. CASE Return(t) BY <2>1, ReturnWaits, CallFields DEF Return, NoCall
  <2>2. CASE Goto(t, "try") BY <2>2, CallFields DEF Goto
  <2> QED BY <2>1, <2>2 DEF LastLook, Fail
<1>3. LockOf(l)' = LockOf(l) BY <1>1 DEF LockOf
<1>4. ~Wanting(t, l) BY <1>1 DEF Wanting, Eager
<1> QED BY <1>1, <1>2, <1>3, <1>4, OwnQuiet


\* An interrupt that puts an item into the queue or takes one out: it wakes a waiter, or
\* the lock counts it.
LEMMA InterruptWake ==
  ASSUME QueueInv, SchedInv, QueueInv', SchedInv', UNCHANGED <<use, me>>, NEW m \in {"rx", "tx"},
         \/ LockOf(m) = -1 /\ LockOf(m)' = -1 /\ k' = WakeFirst(k, m)
         \/ LockOf(m) # -1 /\ LockOf(m)' = Incremented(LockOf(m)) /\ k' = k,
         \A j \in {"rx", "tx"} \ {m} : LockOf(j)' = LockOf(j) /\ Amount(j)' <= Amount(j),
         Amount(m)' <= Amount(m) + 1, NEW l \in {"rx", "tx"}, WakeInv(l)
  PROVE  WakeInv(l)'
<1>1. m \in Lists /\ l \in Lists BY QueueLists
<1>2. \A n \in Lists : ToSet(k'.ev[n]) \subseteq ToSet(k.ev[n]) BY <1>1, FirstLeaves
<1>3. Freed({}, l)
  <2>1. \A u \in Tasks \ {} : Wanting(u, l) => Wanting(u, l)' BY SameWanting
  <2> QED BY <1>2, <2>1 DEF Freed
<1>4. PICK a1, a2, n \in Nat : a1 = Amount(l) /\ a2 = Amount(l)' /\ n = Cardinality(Tasks) BY Amounts, NextAmounts
<1>5. PICK i1, i2, p1, p2 \in Int : /\ i1 = LockOf(l) /\ i2 = LockOf(l)'
                                    /\ p1 = Positive(LockOf(l)) /\ p2 = Positive(LockOf(l)')
  BY Amounts, NextAmounts DEF Positive
<1>6. i1 >= -1 /\ (p1 = IF i1 >= 0 THEN i1 ELSE 0) /\ (p2 = IF i2 >= 0 THEN i2 ELSE 0)
  BY <1>5, Amounts DEF Positive
<1>7. /\ AllOwed(l) <=> i1 >= n
      /\ AllOwed(l)' <=> i2 >= n
  BY <1>4, <1>5 DEF AllOwed
<1>8. \A u \in Tasks : me[u].pc \in {"place", "link"} => LockOf(l) # -1 /\ LockOf(m) # -1
  BY DEF SchedInv, Waits, QueueHeld, LockOf, queueUNLOCKED
<1>9. l = m /\ i1 # -1 => i2 = IF i1 < n + 1 THEN i1 + 1 ELSE i1 BY <1>4, <1>5 DEF Incremented
<1>10. l # m => i2 = i1 /\ a2 <= a1 BY <1>4, <1>5
<1>11. l = m => a2 <= a1 + 1 BY <1>4
<1>12. l = m /\ i1 = -1 => i2 = -1 BY <1>5
<1>13. Placed(l)'
  <2>1. ASSUME NEW u \in Tasks, me[u].pc \in {"place", "link"}, WaitList(u) = l PROVE i2 >= n \/ a2 <= i2
    <3>1. i1 # -1 BY <1>5, <1>8, <2>1
    <3>2. i1 >= n \/ a1 <= i1 BY <1>4, <1>5, <1>7, <2>1 DEF WakeInv, Placed
    <3>3. CASE l = m BY <1>9, <1>11, <3>1, <3>2, <3>3
    <3>4. CASE l # m BY <1>10, <3>2, <3>4
    <3> QED BY <3>3, <3>4
  <2>2. \A u \in Tasks : WaitList(u)' = WaitList(u) BY DEF WaitList
  <2> QED BY <1>4, <1>5, <1>7, <2>1, <2>2 DEF Placed
<1>14. Enough(l, {})
  <2>1. IsFiniteSet({}) /\ Cardinality({}) = 0 BY FS_EmptySet
  <2>2. CASE l = m /\ i1 = -1
    <3>1. k' = WakeFirst(k, l) BY <1>5, <2>2
    <3>2. k'.ev[l] # <<>> => Cardinality(Left(k, k', l)) = 1 BY <1>1, <3>1, FirstLeaves
    <3>3. ~AllOwed(l) /\ a2 + 0 + p1 <= a1 + 1 + p2 BY <1>6, <1>7, <1>11, <1>12, <2>2
    <3> QED BY <1>4, <1>5, <2>1, <3>2, <3>3 DEF Enough
  <2>3. CASE ~(l = m /\ i1 = -1)
    <3>1. k'.ev[l] = k.ev[l] BY <1>1, <1>5, <2>3, FirstLeaves
    <3>2. Left(k, k', l) = {} BY <3>1 DEF Left
    <3>3. CASE i2 >= n BY <1>7, <3>3 DEF Enough
    <3>4. CASE ~(i2 >= n)
      <4>1. ~(i1 >= n) BY <1>9, <1>10, <2>3, <3>4
      <4>2. a2 + 0 + p1 <= a1 + 0 + p2 BY <1>6, <1>9, <1>10, <1>11, <2>3, <3>4
      <4> QED BY <1>4, <1>5, <1>7, <2>1, <3>2, <4>1, <4>2 DEF Enough
    <3> QED BY <3>3, <3>4
  <2> QED BY <2>2, <2>3
<1> QED BY <1>1, <1>3, <1>13, <1>14, FS_EmptySet, WakeKept

\* xQueueGenericSendFromISR.
LEMMA SendFromISRWake ==
  ASSUME QueueInv, SchedInv, QueueInv', SchedInv', UNCHANGED use, NEW v \in use.items,
         NEW pos \in use.isr \ {"receive"}, SendFromISR(v, pos), NEW l \in {"rx", "tx"}, WakeInv(l)
  PROVE  WakeInv(l)'
<1>1. pos = "overwrite" => Length = 1 BY QueueAssumption DEF Length, QueueInv
<1>2. PICK c : c = prvCopyDataToQueue(v, pos) OBVIOUS
<1>3. /\ c.tx = q.tx /\ c.rx = q.rx /\ {"tx", "rx", "n"} \subseteq DOMAIN c
      /\ (c.n = q.n + 1 /\ q.n < Length) \/ (c.n = q.n /\ q.n = Length)
  BY <1>1, <1>2, CopyCounts DEF SendFromISR
<1>4. q' = [c EXCEPT !.tx = IF c.tx = queueUNLOCKED THEN c.tx ELSE Incremented(c.tx)] BY <1>2 DEF SendFromISR
<1>5. q'.rx = q.rx /\ q'.n = c.n /\ q'.tx = IF q.tx = queueUNLOCKED THEN q.tx ELSE Incremented(q.tx)
  BY <1>3, <1>4
<1>6. \/ LockOf("rx") = -1 /\ LockOf("rx")' = -1 /\ k' = WakeFirst(k, "rx")
      \/ LockOf("rx") # -1 /\ LockOf("rx")' = Incremented(LockOf("rx")) /\ k' = k
  BY <1>5 DEF LockOf, SendFromISR, queueUNLOCKED
<1>7. Length' = Length /\ Length \in Nat /\ q.n \in Nat /\ UNCHANGED me BY Amounts, NextAmounts DEF SendFromISR
<1>8. LockOf("tx")' = LockOf("tx") /\ Amount("tx")' <= Amount("tx") /\ Amount("rx")' <= Amount("rx") + 1
  BY <1>3, <1>5, <1>7, QueueLists DEF LockOf, Amount
<1> QED BY <1>6, <1>7, <1>8, InterruptWake

\* xQueueReceiveFromISR.
LEMMA ReceiveFromISRWake ==
  ASSUME QueueInv, SchedInv, QueueInv', SchedInv', UNCHANGED use, ReceiveFromISR,
         NEW l \in {"rx", "tx"}, WakeInv(l)
  PROVE  WakeInv(l)'
<1>1. PICK c : c = prvCopyDataFromQueue OBVIOUS
<1>2. c.tx = q.tx /\ c.rx = q.rx /\ {"tx", "rx", "n"} \subseteq DOMAIN c /\ c.n = q.n - 1 BY <1>1, TakeCounts
<1>3. q' = [c EXCEPT !.rx = IF c.rx = queueUNLOCKED THEN c.rx ELSE Incremented(c.rx)] BY <1>1 DEF ReceiveFromISR
<1>4. q'.tx = q.tx /\ q'.n = c.n /\ q'.rx = IF q.rx = queueUNLOCKED THEN q.rx ELSE Incremented(q.rx)
  BY <1>2, <1>3
<1>5. \/ LockOf("tx") = -1 /\ LockOf("tx")' = -1 /\ k' = WakeFirst(k, "tx")
      \/ LockOf("tx") # -1 /\ LockOf("tx")' = Incremented(LockOf("tx")) /\ k' = k
  BY <1>4, QueueLists DEF LockOf, ReceiveFromISR, queueUNLOCKED
<1>6. Length' = Length /\ Length \in Nat /\ q.n \in Nat /\ UNCHANGED me BY Amounts, NextAmounts DEF ReceiveFromISR
<1>7. LockOf("rx")' = LockOf("rx") /\ Amount("rx")' <= Amount("rx") /\ Amount("tx")' <= Amount("tx") + 1
  BY <1>2, <1>4, <1>6, QueueLists DEF LockOf, Amount
<1> QED BY <1>5, <1>6, <1>7, InterruptWake

\* An interrupt of the kernel alone, or a context switch.
LEMMA KernelWake ==
  ASSUME QueueInv, SchedInv, QueueInv', SchedInv', UNCHANGED use, q' = q, NEW l \in Lists, WakeInv(l),
         \A u \in Tasks : me'[u].pc = me[u].pc /\ me'[u].op = me[u].op /\ me'[u].plan = me[u].plan,
         \A m \in Lists : ToSet(k'.ev[m]) \subseteq ToSet(k.ev[m])
  PROVE  WakeInv(l)'
<1>1. Freed({}, l)
  <2>1. \A u \in Tasks \ {} : Wanting(u, l) => Wanting(u, l)' BY SameWanting
  <2> QED BY <2>1 DEF Freed
<1>2. LockOf(l)' = LockOf(l) /\ Amount(l)' = Amount(l) /\ (AllOwed(l) => AllOwed(l)')
  BY NextAmounts DEF LockOf, Amount, AllOwed
<1>3. Placed(l)'
  <2>1. \A u \in Tasks : WaitList(u)' = WaitList(u) BY DEF WaitList
  <2>2. Placed(l) BY DEF WakeInv
  <2> QED BY <1>2, <2>1, <2>2 DEF Placed
<1> QED BY <1>1, <1>2, <1>3, QuietWake

\* xPortSysTickHandler: who waited long enough leaves its list and will look again.
LEMMA TickWake ==
  ASSUME QueueInv, SchedInv, QueueInv', SchedInv', UNCHANGED use, Tick, NEW l \in Lists, WakeInv(l)
  PROVE  WakeInv(l)'
<1>1. KernelOK(k) BY DEF SchedInv, Scheduled
<1>2. Shrinks(k, k') BY <1>1, TickServes DEF Tick
<1>3. q' = q /\ \A m \in Lists : ToSet(k'.ev[m]) \subseteq ToSet(k.ev[m]) BY <1>2 DEF Shrinks, Tick
<1>4. ASSUME NEW u \in Tasks PROVE me'[u].pc = me[u].pc /\ me'[u].op = me[u].op /\ me'[u].plan = me[u].plan
  BY CallFields DEF Tick
<1> QED BY <1>3, <1>4, KernelWake

\* vTaskSwitchContext leaves the event lists alone.
LEMMA SwitchWake ==
  ASSUME QueueInv, SchedInv, QueueInv', SchedInv', UNCHANGED use, NEW t \in Tasks \cup {Idle}, Switch(t),
         NEW l \in Lists, WakeInv(l)
  PROVE  WakeInv(l)'
<1>1. k \in Kernels BY DEF SchedInv, Scheduled, KernelOK
<1>2. k'.ev = k.ev BY <1>1 DEF Switch, vTaskSwitchContext, Kernels
<1> QED BY <1>2, KernelWake DEF Switch


\* A step of the running task keeps the invariant.
LEMMA TaskWake ==
  ASSUME QueueInv, SchedInv, QueueInv', SchedInv', UNCHANGED use, AtOnce, NEW t \in Tasks, TaskStep(t),
         NEW l \in {"rx", "tx"}, l = "tx" => ResetWakesEnough, WakeInv(l)
  PROVE  WakeInv(l)'
<1>0. l \in Lists BY QueueLists
<1>1. CASE \E c \in use.calls[t], v \in use.items : Begin(t, c, v) BY <1>0, <1>1, BeginWake
<1>2. CASE Retire(t) BY <1>0, <1>2, RetireWake
<1>3. CASE SendNow(t) BY <1>3, SendNowWake
<1>4. CASE ReceiveNow(t) BY <1>4, ReceiveNowWake
<1>5. CASE PeekNow(t) BY <1>5, PeekNowWake
<1>6. CASE ResetNow(t) BY <1>6, ResetNowWake
<1>7. CASE GiveUp(t) \/ Prepare(t) BY <1>0, <1>7, GiveUpWake
<1>8. CASE SuspendAll(t) BY <1>0, <1>8, SuspendAllWake
<1>9. CASE prvLockQueue(t) BY <1>0, <1>9, LockWake
<1>10. CASE CheckForTimeOut(t) BY <1>0, <1>10, CheckForTimeOutWake
<1>11. CASE CheckQueue(t) BY <1>11, CheckQueueWake
<1>12. CASE ScanEventList(t) BY <1>0, <1>12, ScanWake
<1>13. CASE PlaceOnEventList(t) BY <1>13, PlaceWake
<1>14. CASE prvUnlockQueueTx(t) \/ prvUnlockQueueRx(t) BY <1>14, UnlockBothWake
<1>15. CASE Resume(t) BY <1>0, <1>15, ResumeWake
<1>16. CASE YieldWithinApi(t) BY <1>0, <1>16, YieldWake
<1>17. CASE LastLook(t) BY <1>0, <1>17, LastLookWake
<1> QED BY <1>1, <1>2, <1>3, <1>4, <1>5, <1>6, <1>7, <1>8, <1>9, <1>10, <1>11, <1>12, <1>13, <1>14, <1>15,
           <1>16, <1>17 DEF TaskStep

\* Every step keeps the invariant of one list.
LEMMA NextWake ==
  ASSUME QueueInv, SchedInv, QueueInv', SchedInv', QueueNext, AtOnce,
         NEW l \in {"rx", "tx"}, l = "tx" => ResetWakesEnough, WakeInv(l)
  PROVE  WakeInv(l)'
<1>1. l \in Lists /\ UNCHANGED use BY QueueLists DEF QueueNext
<1>2. CASE \E t \in Tasks : TaskStep(t) BY <1>1, <1>2, TaskWake
<1>3. CASE \E t \in Tasks \cup {Idle} : Switch(t) BY <1>1, <1>3, SwitchWake
<1>4. CASE ReceiveFromISR BY <1>1, <1>4, ReceiveFromISRWake
<1>5. CASE \E v \in use.items, pos \in use.isr \ {"receive"} : SendFromISR(v, pos) BY <1>1, <1>5, SendFromISRWake
<1>6. CASE Tick BY <1>1, <1>6, TickWake
<1> QED BY <1>2, <1>3, <1>4, <1>5, <1>6 DEF QueueNext

\* A call goes on from its first critical section only if it does not reset.
LEMMA StaysAtOnce ==
  ASSUME AtOnce, NEW t \in Tasks, \A u \in Tasks \ {t} : me'[u] = me[u],
         \/ me'[t].pc \in {"idle", "try"}
         \/ me'[t].op = me[t].op /\ (me[t].pc \notin {"idle", "try"} \/ me[t].op # "reset")
  PROVE  AtOnce'
  BY DEF AtOnce

\* A step of a task that only moves its call.
LEMMA GotoAtOnce ==
  ASSUME QueueInv, SchedInv, AtOnce, NEW t \in Tasks, NEW pc, Goto(t, pc), me[t].pc \notin {"idle", "try"}
  PROVE  AtOnce'
<1>1. me'[t].op = me[t].op /\ \A u \in Tasks \ {t} : me'[u] = me[u] BY CallFields DEF Goto
<1> QED BY <1>1, StaysAtOnce

\* The end of a call.
LEMMA ReturnAtOnce ==
  ASSUME QueueInv, SchedInv, AtOnce, NEW t \in Tasks, Return(t) PROVE AtOnce'
<1>1. me'[t].pc = "idle" /\ \A u \in Tasks \ {t} : me'[u] = me[u] BY CallFields DEF Return, NoCall
<1> QED BY <1>1, StaysAtOnce

\* Only the first critical section resets.
LEMMA TaskAtOnce ==
  ASSUME QueueInv, SchedInv, AtOnce, NEW t \in Tasks, TaskStep(t) PROVE AtOnce'
<1>1. CASE \E c \in use.calls[t], v \in use.items : Begin(t, c, v)
  <2>1. PICK c \in use.calls[t], v \in use.items : Begin(t, c, v) BY <1>1
  <2>2. me'[t].pc = "try" /\ \A u \in Tasks \ {t} : me'[u] = me[u] BY <2>1, CallFields DEF Begin, NoCall
  <2> QED BY <2>2, StaysAtOnce
<1>2. CASE Retire(t) BY <1>2 DEF Retire, AtOnce
<1>3. CASE SendNow(t) \/ ReceiveNow(t) \/ PeekNow(t) \/ ResetNow(t) \/ GiveUp(t)
  BY <1>3, ReturnAtOnce DEF SendNow, ReceiveNow, PeekNow, ResetNow, GiveUp, Fail
<1>4. CASE Prepare(t)
  <2>1. me[t].op # "reset" BY <1>4 DEF Prepare, Stuck
  <2>2. me'[t].op = me[t].op /\ \A u \in Tasks \ {t} : me'[u] = me[u] BY <1>4, CallFields DEF Prepare
  <2> QED BY <2>1, <2>2, StaysAtOnce
<1>5. CASE SuspendAll(t) BY <1>5, GotoAtOnce DEF SuspendAll, At
<1>6. CASE prvLockQueue(t) BY <1>6, GotoAtOnce DEF prvLockQueue, At
<1>7. CASE CheckForTimeOut(t)
  <2>1. PICK e : \/ me' = [me EXCEPT ![t] = [@ EXCEPT !.pc = "check"]]
                 \/ me' = [me EXCEPT ![t] = [@ EXCEPT !.pc = "check", !.left = e, !.over = k.over, !.tick = k.tick]]
                 \/ me' = [me EXCEPT ![t] = [@ EXCEPT !.pc = "unlockTx", !.left = 0, !.plan = "expire"]]
    BY <1>7, Zenon DEF CheckForTimeOut
  <2>2. me'[t].op = me[t].op /\ \A u \in Tasks \ {t} : me'[u] = me[u] BY <2>1, CallFields
  <2> QED BY <1>7, <2>2, StaysAtOnce DEF CheckForTimeOut, At
<1>8. CASE CheckQueue(t)
  <2>1. PICK pc, plan : me' = [me EXCEPT ![t].pc = pc, ![t].plan = plan] BY <1>8 DEF CheckQueue
  <2>2. me'[t].op = me[t].op /\ \A u \in Tasks \ {t} : me'[u] = me[u] BY <2>1, CallFields
  <2> QED BY <1>8, <2>2, StaysAtOnce DEF CheckQueue, At
<1>9. CASE ScanEventList(t) \/ PlaceOnEventList(t)
  <2>1. me'[t].op = me[t].op /\ \A u \in Tasks \ {t} : me'[u] = me[u]
    BY <1>9, CallFields DEF ScanEventList, PlaceOnEventList
  <2> QED BY <1>9, <2>1, StaysAtOnce DEF ScanEventList, PlaceOnEventList, At
<1>10. CASE prvUnlockQueueTx(t) \/ prvUnlockQueueRx(t)
  BY <1>10, GotoAtOnce DEF prvUnlockQueueTx, prvUnlockQueueRx, At
<1>11. CASE Resume(t)
  <2>1. CASE Fail(t) BY <2>1, ReturnAtOnce DEF Fail
  <2>2. CASE ~Fail(t)
    <3>1. PICK pc : me' = [me EXCEPT ![t].plan = "none", ![t].pc = pc] BY <1>11, <2>2 DEF Resume
    <3>2. me'[t].op = me[t].op /\ \A u \in Tasks \ {t} : me'[u] = me[u] BY <3>1, CallFields
    <3> QED BY <1>11, <3>2, StaysAtOnce DEF Resume, At
  <2> QED BY <2>1, <2>2
<1>12. CASE YieldWithinApi(t) BY <1>12, GotoAtOnce DEF YieldWithinApi, At
<1>13. CASE LastLook(t) BY <1>13, GotoAtOnce, ReturnAtOnce DEF LastLook, At, Fail
<1> QED BY <1>1, <1>2, <1>3, <1>4, <1>5, <1>6, <1>7, <1>8, <1>9, <1>10, <1>11, <1>12, <1>13 DEF TaskStep

\* No step takes a call that resets beyond its first critical section.
LEMMA NextAtOnce == ASSUME QueueInv, SchedInv, AtOnce, QueueNext PROVE AtOnce'
<1>1. CASE \E t \in Tasks : TaskStep(t) BY <1>1, TaskAtOnce
<1>2. CASE Tick
  <2>1. \A u \in Tasks : me'[u].pc = me[u].pc /\ me'[u].op = me[u].op BY <1>2, CallFields DEF Tick
  <2> QED BY <2>1 DEF AtOnce
<1>3. CASE UNCHANGED me BY <1>3 DEF AtOnce
<1> QED BY <1>1, <1>2, <1>3 DEF QueueNext, Switch, ReceiveFromISR, SendFromISR

\* The invariant of the wake-ups: for the readers always, for the senders if a reset
\* wakes enough of them.
WakeAll == AtOnce /\ WakeInv("rx") /\ (ResetWakesEnough => WakeInv("tx"))

\* The invariant of the wake-ups holds at the start.
LEMMA WakeInit == QueueInit => WakeAll
<1> SUFFICES ASSUME QueueInit PROVE WakeAll OBVIOUS
<1>1. \A u \in Tasks : me[u].pc = "idle" BY DEF QueueInit, NoCall
<1>2. \A l \in Lists : k.ev[l] = <<>>
  <2>1. PICK s : s = [t \in Tasks |-> IF use.calls[t] = {} THEN "suspended" ELSE "ready"] OBVIOUS
  <2>2. PICK e : e = [l \in Lists |-> <<>>] OBVIOUS
  <2>3. k = [KernelInit EXCEPT !.st = s] BY <2>1 DEF QueueInit
  <2>4. k.ev = e BY <2>2, <2>3 DEF KernelInit
  <2> QED BY <2>2, <2>4
<1>3. ToSet(<<>>) = {} BY DEF ToSet
<1>4. ASSUME NEW l \in {"rx", "tx"} PROVE WakeInv(l)
  <2>1. k.ev[l] = <<>> BY <1>2, QueueLists
  <2>2. Balanced(l) BY <2>1 DEF Balanced
  <2>3. Placed(l) BY <1>1 DEF Placed
  <2>4. Waiting(l) BY <1>3, <2>1 DEF Waiting
  <2> QED BY <2>2, <2>3, <2>4 DEF WakeInv
<1> QED BY <1>1, <1>4 DEF WakeAll, AtOnce

\* Every step keeps the invariant of the wake-ups.
LEMMA WakeStep ==
  QueueInv /\ SchedInv /\ WakeAll /\ QueueInv' /\ SchedInv' /\ [QueueNext]_queueVars => WakeAll'
<1> SUFFICES ASSUME QueueInv, SchedInv, WakeAll, QueueInv', SchedInv', [QueueNext]_queueVars PROVE WakeAll'
  OBVIOUS
<1>1. CASE UNCHANGED queueVars
  BY <1>1 DEF queueVars, WakeAll, AtOnce, WakeInv, Balanced, Placed, Waiting, Wanting, WaitList, Eager, Amount, LockOf,
              Seekers, AllOwed, Length, ResetWakesEnough
<1>2. CASE QueueNext
  <2>1. ResetWakesEnough' <=> ResetWakesEnough BY <1>2 DEF QueueNext, ResetWakesEnough, Length
  <2>2. AtOnce' BY <1>2, NextAtOnce DEF WakeAll
  <2>3. WakeInv("rx")' BY <1>2, QueueLists, NextWake DEF WakeAll
  <2>4. ResetWakesEnough => WakeInv("tx")' BY <1>2, NextWake DEF WakeAll
  <2> QED BY <2>1, <2>2, <2>3, <2>4 DEF WakeAll
<1> QED BY <1>1, <1>2

\* Someone is on the way to what a list is for, if there is any, while others wait for it.
LEMMA SomeoneSeeks ==
  ASSUME QueueInv, SchedInv, NEW l \in Lists, WakeInv(l), LockOf(l) = -1, k.ev[l] # <<>>, Amount(l) > 0
  PROVE  \E u \in Tasks : Wanting(u, l) /\ \A m \in Lists : u \notin ToSet(k.ev[m])
<1>1. ~AllOwed(l) /\ Positive(LockOf(l)) = 0 BY Amounts DEF AllOwed, Positive
<1>2. PICK s \in Nat : s = Cardinality(Seekers(l)) BY Amounts
<1>3. Amount(l) <= s + 0 /\ Amount(l) \in Nat BY <1>1, <1>2, Amounts DEF WakeInv, Balanced
<1>4. s # 0 BY <1>3
<1>5. Seekers(l) # {} BY <1>2, <1>4, FS_EmptySet
<1> QED BY <1>5 DEF Seekers

\* That one's call is a read, or a send.
LEMMA SeeksActively ==
  ASSUME QueueInv, SchedInv, NEW l \in Lists, NEW u \in Tasks, Wanting(u, l),
         \A m \in Lists : u \notin ToSet(k.ev[m])
  PROVE  Active(u, IF l = "tx" THEN {"send"} ELSE {"receive", "peek"})
<1>1. me[u].pc # "idle" /\ me[u].op # "reset" /\ WaitList(u) = l BY DEF Wanting, Eager
<1>2. me[u].op \in {"send", "receive", "peek", "reset"}
  <2>1. PICK c \in use.calls[u] : c.op = me[u].op BY <1>1 DEF QueueInv, CallsOK, CallOK
  <2> QED BY <2>1, QueueAssumption DEF QueueInv
<1> QED BY <1>1, <1>2 DEF Active, WaitList

\* With the invariant no wake-up is lost.
LEMMA InvNoLost ==
  ASSUME QueueInv, SchedInv, WakeAll PROVE NoLostItem /\ (ResetWakesEnough => NoLostRoom)
<1>1. Length \in Nat /\ q.n \in Nat BY Amounts
<1>2. NoLostItem
  <2> SUFFICES ASSUME q.tx = queueUNLOCKED, k.ev["rx"] # <<>>, q.n > 0
               PROVE  \E t \in Tasks : Active(t, {"receive", "peek"})
    BY DEF NoLostItem
  <2>1. LockOf("rx") = -1 /\ Amount("rx") > 0 BY DEF LockOf, Amount, queueUNLOCKED
  <2>2. PICK u \in Tasks : Wanting(u, "rx") /\ \A m \in Lists : u \notin ToSet(k.ev[m])
    BY <2>1, QueueLists, SomeoneSeeks DEF WakeAll
  <2> QED BY <2>2, QueueLists, SeeksActively
<1>3. ASSUME ResetWakesEnough PROVE NoLostRoom
  <2> SUFFICES ASSUME q.rx = queueUNLOCKED, k.ev["tx"] # <<>>, q.n < Length
               PROVE  \E t \in Tasks : Active(t, {"send"})
    BY DEF NoLostRoom
  <2>1. LockOf("tx") = -1 /\ Amount("tx") > 0 BY <1>1, QueueLists DEF LockOf, Amount, queueUNLOCKED
  <2>2. PICK u \in Tasks : Wanting(u, "tx") /\ \A m \in Lists : u \notin ToSet(k.ev[m])
    BY <1>3, <2>1, QueueLists, SomeoneSeeks DEF WakeAll
  <2> QED BY <2>2, QueueLists, SeeksActively
<1> QED BY <1>2, <1>3

\* queue.c never leaves a reader waiting for an item nobody comes for, however tasks and
\* interrupts interleave, and never a sender waiting for room nobody comes for, where
\* xQueueReset's one wake-up is enough.
THEOREM WakeUpsReach == QueueSpec => [](NoLostItem /\ (ResetWakesEnough => NoLostWakeup))
<1>1. QueueSpec => []QueueInv
  BY QueueInvInit, QueueStep, PTL DEF QueueSpec
<1>2. QueueSpec => []SchedInv
  BY <1>1, SchedInit, SchedStep, PTL DEF QueueSpec
<1>3. QueueSpec => []WakeAll
  BY <1>1, <1>2, WakeInit, WakeStep, PTL DEF QueueSpec
<1>4. QueueInv /\ SchedInv /\ WakeAll => NoLostItem /\ (ResetWakesEnough => NoLostWakeup)
  BY InvNoLost DEF NoLostWakeup
<1> QED BY <1>1, <1>2, <1>3, <1>4, PTL
===============================================================================
