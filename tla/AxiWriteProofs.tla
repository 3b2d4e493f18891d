---------------------------- MODULE AxiWriteProofs ----------------------------
(***************************************************************************)
(* The write half of the splitter, for any number of slaves, any burst       *)
(* lengths, any depth of its queues and slaves of either kind.  All data goes   *)
(* out in the order of the addresses, so the writes that the slaves hold are     *)
(* first those that are complete, then those the master still has data for, in  *)
(* the master's order; the two queues list the slaves of all of them and of the  *)
(* latter.  Agree says so, AwInv adds the handshake signals.                     *)
(***************************************************************************)
EXTENDS AxiSpltAw, SequenceTheorems, WellFoundedInduction, TLAPS

Write == [port : Ports, len : Nat \ {0}, left : Nat \ {0}]
Resp == [port : Ports, left : Nat, tag : Tags]

\* Queues q (awid_fifo) and d (aw_w_id_fifo), the master's writes t of which the last
\* has its address to go when u, and the writes r of the slaves.
Agree(q, d, t, u, r) ==
  /\ q \in Seq(Ports) /\ d \in Seq(Ports) /\ t \in Seq(Write) /\ u \in BOOLEAN /\ r \in Seq(Resp)
  /\ Len(q) = Len(r) /\ \A k \in 1 .. Len(r) : q[k] = r[k].port
  /\ Len(t) = Len(d) + (IF u THEN 1 ELSE 0)
  /\ \A k \in 1 .. Len(d) : d[k] = t[k].port
  /\ Len(d) <= Len(r)
  /\ \A k \in 1 .. Len(r) - Len(d) : r[k].left = 0
  /\ \A k \in 1 .. Len(d) : LET s == r[Len(r) - Len(d) + k]
                            IN s.port = t[k].port /\ s.left = t[k].left
  /\ u => t[Len(t)].left = t[Len(t)].len

\* A slave that drives BVALID has a complete write.
Answers(d, r, v) ==
  /\ v \in [Ports -> BOOLEAN]
  /\ \A p \in Ports : v[p] => \E k \in 1 .. Len(r) - Len(d) : r[k].port = p

\* What holds between the channels, the queues, the master and the slaves.
AwInv ==
  /\ sys \in Systems /\ tag \in Tags
  /\ Agree(awid_fifo, aw_w_id_fifo, todo, unsent, resp)
  /\ Answers(aw_w_id_fifo, resp, bv)
  /\ \A k \in 1 .. Len(todo) : todo[k].len \in sys.lens
  /\ awv \in BOOLEAN /\ wv \in BOOLEAN
  /\ awv => unsent
  /\ wv => todo # <<>>

\* The queues of the splitter hold no more than FIFO_OUTS_NUM entries.
QueuesFit == Len(awid_fifo) <= sys.outs /\ Len(aw_w_id_fifo) <= sys.outs

\* Slaves that take an address without the data offered with it are sent no single-beat
\* writes: a single beat that stays behind would have no entry in aw_w_id_fifo.
SlavesFit == \A y \in Systems : y.joint \/ 1 \notin y.lens

\* A set of numbers has a least one.
LEMMA SmallestNat ==
  ASSUME NEW S, S \subseteq Nat, S # {}
  PROVE  \E n \in S : \A j \in S : n <= j
<1> DEFINE R == OpToRel(<, Nat)
<1>1. PICK n \in S : \A j \in S : <<j, n>> \notin R
  <2>1. IsWellFoundedOn(R, Nat) BY NatLessThanWellFounded
  <2> HIDE DEF R
  <2> QED BY <2>1, WFMin
<1>2. \A j \in S : ~(j < n) BY <1>1 DEF OpToRel
<1>3. \A j \in S : n <= j BY <1>2
<1> QED BY <1>1, <1>3

(* --------------------------- steps of the lists --------------------------- *)

\* The oldest write leaves with its response.
LEMMA PopAgrees ==
  ASSUME NEW q, NEW d, NEW t, NEW u, NEW r, Agree(q, d, t, u, r),
         Len(r) # Len(d)
  PROVE  /\ q # <<>> /\ r # <<>> /\ r[1].left = 0 /\ r[1].port = Head(q)
         /\ Agree(Tail(q), d, t, u, Tail(r))
<1>1. /\ q \in Seq(Ports) /\ r \in Seq(Resp) /\ Len(d) \in Nat /\ Len(r) \in Nat
      /\ Len(q) = Len(r) /\ Len(d) < Len(r)
  BY DEF Agree
<1>2. /\ q # <<>> /\ r # <<>> /\ r[1].left = 0 /\ r[1].port = Head(q)
  BY <1>1 DEF Agree
<1>3. /\ Tail(q) \in Seq(Ports) /\ Len(Tail(q)) = Len(q) - 1
      /\ \A k \in 1 .. Len(q) - 1 : Tail(q)[k] = q[k + 1]
      /\ Tail(r) \in Seq(Resp) /\ Len(Tail(r)) = Len(r) - 1
      /\ \A k \in 1 .. Len(r) - 1 : Tail(r)[k] = r[k + 1]
  BY <1>1, <1>2
<1>4. \A k \in 1 .. Len(Tail(r)) : Tail(q)[k] = Tail(r)[k].port
  BY <1>1, <1>3 DEF Agree
<1>5. \A k \in 1 .. Len(Tail(r)) - Len(d) : Tail(r)[k].left = 0
  BY <1>1, <1>3 DEF Agree
<1>6. \A k \in 1 .. Len(d) : Tail(r)[Len(Tail(r)) - Len(d) + k] = r[Len(r) - Len(d) + k]
  BY <1>1, <1>3
<1> QED BY <1>1, <1>2, <1>3, <1>4, <1>5, <1>6 DEF Agree

\* The address of the last write is accepted.
LEMMA AddressAgrees ==
  ASSUME NEW q, NEW d, NEW t, NEW r, Agree(q, d, t, TRUE, r), NEW g \in Tags
  PROVE  LET a == t[Len(t)]
         IN Agree(Append(q, a.port), Append(d, a.port), t, FALSE,
                  Append(r, [port |-> a.port, left |-> a.len, tag |-> g]))
<1> DEFINE a == t[Len(t)]
           e == [port |-> a.port, left |-> a.len, tag |-> g]
           q2 == Append(q, a.port)
           d2 == Append(d, a.port)
           r2 == Append(r, e)
<1>1. /\ q \in Seq(Ports) /\ d \in Seq(Ports) /\ t \in Seq(Write) /\ r \in Seq(Resp)
      /\ Len(q) = Len(r) /\ Len(t) = Len(d) + 1 /\ Len(d) \in Nat /\ Len(r) \in Nat
      /\ Len(d) <= Len(r)
  BY DEF Agree
<1>2. a \in Write BY <1>1
<1>3. a.port \in Ports /\ e \in Resp /\ a.left = a.len /\ e.port = a.port /\ e.left = a.left
  BY <1>2 DEF Write, Resp, Agree
<1>4. /\ q2 \in Seq(Ports) /\ Len(q2) = Len(q) + 1 /\ q2[Len(q) + 1] = a.port
      /\ \A k \in 1 .. Len(q) : q2[k] = q[k]
      /\ d2 \in Seq(Ports) /\ Len(d2) = Len(d) + 1 /\ d2[Len(d) + 1] = a.port
      /\ \A k \in 1 .. Len(d) : d2[k] = d[k]
      /\ r2 \in Seq(Resp) /\ Len(r2) = Len(r) + 1 /\ r2[Len(r) + 1] = e
      /\ \A k \in 1 .. Len(r) : r2[k] = r[k]
  BY <1>1, <1>3, AppendProperties
<1> HIDE DEF q2, d2, r2, e
<1>5. \A k \in 1 .. Len(r2) : q2[k] = r2[k].port
  BY <1>1, <1>3, <1>4 DEF Agree
<1>6. ASSUME NEW k \in 1 .. Len(d2) PROVE d2[k] = t[k].port
  <2>1. CASE k = Len(d) + 1 BY <1>1, <1>4, <2>1
  <2>2. CASE k \in 1 .. Len(d) BY <1>4, <2>2 DEF Agree
  <2> QED BY <1>1, <1>4, <2>1, <2>2
<1>7. ASSUME NEW k \in 1 .. Len(r2) - Len(d2) PROVE r2[k].left = 0
  <2>1. k \in 1 .. Len(r) - Len(d) /\ k \in 1 .. Len(r) BY <1>1, <1>4
  <2> QED BY <1>4, <2>1 DEF Agree
<1>8. \A k \in 1 .. Len(d2) : /\ r2[Len(r2) - Len(d2) + k].port = t[k].port
                              /\ r2[Len(r2) - Len(d2) + k].left = t[k].left
  <2> SUFFICES ASSUME NEW k \in 1 .. Len(d2)
               PROVE  /\ r2[Len(r2) - Len(d2) + k].port = t[k].port
                      /\ r2[Len(r2) - Len(d2) + k].left = t[k].left
    OBVIOUS
  <2>1. Len(r2) - Len(d2) = Len(r) - Len(d) BY <1>1, <1>4
  <2>2. CASE k = Len(d) + 1 BY <1>1, <1>3, <1>4, <2>1, <2>2
  <2>3. CASE k \in 1 .. Len(d)
    <3>1. Len(r) - Len(d) + k \in 1 .. Len(r) BY <1>1, <2>3
    <3> QED BY <1>4, <2>1, <2>3, <3>1 DEF Agree
  <2> QED BY <1>1, <1>4, <2>2, <2>3
<1>9. Agree(q2, d2, t, FALSE, r2)
  BY <1>1, <1>4, <1>5, <1>6, <1>7, <1>8 DEF Agree
<1> QED BY <1>9 DEF q2, d2, r2, e

\* The least element of a set of numbers is the one CHOOSE finds.
LEMMA LeastOf ==
  ASSUME NEW m, m \subseteq Int, NEW f \in m, \A i \in m : f <= i
  PROVE  (CHOOSE j \in m : \A i \in m : j <= i) = f
<1> DEFINE c == CHOOSE j \in m : \A i \in m : j <= i
<1>1. c \in m /\ \A i \in m : c <= i OBVIOUS
<1> HIDE DEF c
<1>2. c <= f /\ f <= c /\ c \in Int /\ f \in Int BY <1>1
<1>3. c = f BY <1>2
<1> QED BY <1>3 DEF c

\* The slave of the master's next beat is waiting for just that beat.
LEMMA FirstMissing ==
  ASSUME NEW q, NEW d, NEW t, NEW u, NEW r, Agree(q, d, t, u, r), d # <<>>
  PROVE  WithBeat(r, t[1].port) = [r EXCEPT ![Len(r) - Len(d) + 1].left = @ - 1]
<1> DEFINE m == {j \in 1 .. Len(r) : r[j].port = t[1].port /\ r[j].left > 0}
           f == Len(r) - Len(d) + 1
<1>1. /\ Len(d) \in Nat \ {0} /\ Len(r) \in Nat /\ Len(d) <= Len(r) /\ t \in Seq(Write)
      /\ Len(t) >= 1 /\ Len(t) \in Nat
  BY DEF Agree
<1>2. t[1].left > 0
  <2>1. t[1] \in Write BY <1>1
  <2> QED BY <2>1 DEF Write
<1>3. f \in m BY <1>1, <1>2 DEF Agree
<1>4. ASSUME NEW i \in m PROVE f <= i
  <2>1. i \in Int /\ (i < f => i \in 1 .. Len(r) - Len(d)) BY <1>1
  <2>2. i < f => r[i].left = 0 BY <2>1 DEF Agree
  <2> QED BY <1>1, <2>1, <2>2
<1>5. m \subseteq Int BY <1>1
<1> HIDE DEF m, f
<1>6. (CHOOSE j \in m : \A i \in m : j <= i) = f BY <1>3, <1>4, <1>5, LeastOf
<1>7. WithBeat(r, t[1].port) = [r EXCEPT ![f].left = @ - 1] BY <1>6 DEF WithBeat, m
<1> QED BY <1>7 DEF f

\* A beat of the master's oldest write goes to the slave.
LEMMA BeatAgrees ==
  ASSUME NEW q, NEW d, NEW t, NEW u, NEW r, Agree(q, d, t, u, r), d # <<>>,
         u => Len(t) > 1
  PROVE  LET r2 == [r EXCEPT ![Len(r) - Len(d) + 1].left = @ - 1]
         IN /\ t[1].left = 1 => Agree(q, Tail(d), Tail(t), u, r2)
            /\ t[1].left # 1 => Agree(q, d, [t EXCEPT ![1].left = @ - 1], u, r2)
<1> DEFINE f == Len(r) - Len(d) + 1
           e == [port |-> r[f].port, left |-> r[f].left - 1, tag |-> r[f].tag]
           r2 == [r EXCEPT ![f].left = @ - 1]
<1>1. /\ q \in Seq(Ports) /\ d \in Seq(Ports) /\ t \in Seq(Write) /\ r \in Seq(Resp)
      /\ Len(d) \in Nat \ {0} /\ Len(r) \in Nat /\ Len(t) \in Nat /\ Len(d) <= Len(r)
      /\ Len(q) = Len(r) /\ Len(t) = Len(d) + (IF u THEN 1 ELSE 0) /\ u \in BOOLEAN
      /\ f \in 1 .. Len(r) /\ 1 \in 1 .. Len(t) /\ 1 \in 1 .. Len(d)
  BY DEF Agree
<1>2. r[f] \in Resp /\ t[1] \in Write BY <1>1
<1>3. /\ r[f].port = t[1].port /\ r[f].left = t[1].left /\ t[1].left \in Nat \ {0}
      /\ t[1].port \in Ports /\ r[f].tag \in Tags /\ t[1].len \in Nat \ {0}
  BY <1>1, <1>2 DEF Agree, Write, Resp
<1>4. e \in Resp /\ e.port = t[1].port /\ e.left = t[1].left - 1 BY <1>3 DEF Resp
<1>5. r2 = [r EXCEPT ![f] = e]
  <2>1. [r[f] EXCEPT !.left = @ - 1] = e BY <1>2 DEF Resp
  <2> QED BY <2>1
<1> HIDE DEF f, e, r2
<1>6. /\ r2 \in Seq(Resp) /\ Len(r2) = Len(r)
      /\ \A k \in 1 .. Len(r) : r2[k] = IF k = f THEN e ELSE r[k]
  BY <1>1, <1>4, <1>5
<1>7. \A k \in 1 .. Len(r2) : q[k] = r2[k].port
  BY <1>1, <1>3, <1>4, <1>6 DEF Agree
<1>8. ASSUME NEW k \in 1 .. Len(r) - Len(d) PROVE r2[k].left = 0
  <2>1. k \in 1 .. Len(r) /\ k # f BY <1>1 DEF f
  <2> QED BY <1>6, <2>1 DEF Agree
<1>9. CASE t[1].left = 1
  <2> DEFINE d2 == Tail(d)
             t2 == Tail(t)
  <2>1. /\ d2 \in Seq(Ports) /\ Len(d2) = Len(d) - 1 /\ \A k \in 1 .. Len(d2) : d2[k] = d[k + 1]
        /\ t2 \in Seq(Write) /\ Len(t2) = Len(t) - 1 /\ \A k \in 1 .. Len(t2) : t2[k] = t[k + 1]
    BY <1>1
  <2> HIDE DEF d2, t2
  <2>2. ASSUME NEW k \in 1 .. Len(d2) PROVE d2[k] = t2[k].port
    <3>1. k + 1 \in 1 .. Len(d) BY <1>1, <2>1
    <3>2. d[k + 1] = t[k + 1].port BY <3>1 DEF Agree
    <3>3. k \in 1 .. Len(t2) BY <1>1, <2>1 DEF Agree
    <3> QED BY <2>1, <3>2, <3>3
  <2>3. \A k \in 1 .. Len(r2) - Len(d2) : r2[k].left = 0
    <3>1. Len(r2) - Len(d2) = f BY <1>1, <1>6, <2>1 DEF f
    <3>2. r2[f].left = 0 BY <1>1, <1>3, <1>4, <1>6, <1>9
    <3> QED BY <1>1, <1>8, <3>1, <3>2 DEF f
  <2>4. ASSUME NEW k \in 1 .. Len(d2)
        PROVE  /\ r2[Len(r2) - Len(d2) + k].port = t2[k].port
               /\ r2[Len(r2) - Len(d2) + k].left = t2[k].left
    <3>1. /\ Len(r2) - Len(d2) + k = Len(r) - Len(d) + (k + 1) /\ k + 1 \in 1 .. Len(d)
          /\ Len(r) - Len(d) + (k + 1) \in 1 .. Len(r) /\ Len(r) - Len(d) + (k + 1) # f
      BY <1>1, <1>6, <2>1 DEF f
    <3>2. r2[Len(r2) - Len(d2) + k] = r[Len(r) - Len(d) + (k + 1)] BY <1>6, <3>1
    <3>3. t2[k] = t[k + 1]
      <4>1. k \in 1 .. Len(t2) BY <1>1, <2>1
      <4> QED BY <2>1, <4>1
    <3> QED BY <3>1, <3>2, <3>3 DEF Agree
  <2>5. u => t2[Len(t2)].left = t2[Len(t2)].len BY <1>1, <2>1 DEF Agree
  <2>6. /\ Len(t2) = Len(d2) + (IF u THEN 1 ELSE 0) /\ Len(d2) <= Len(r2) /\ Len(q) = Len(r2)
    BY <1>1, <1>6, <2>1
  <2>7. Agree(q, d2, t2, u, r2)
    BY <1>1, <1>6, <1>7, <2>1, <2>2, <2>3, <2>4, <2>5, <2>6 DEF Agree
  <2> QED BY <1>9, <2>7 DEF d2, t2, r2, f
<1>10. CASE t[1].left # 1
  <2> DEFINE w2 == [port |-> t[1].port, len |-> t[1].len, left |-> t[1].left - 1]
             t2 == [t EXCEPT ![1].left = @ - 1]
  <2>1. w2 \in Write /\ w2.port = t[1].port /\ w2.left = t[1].left - 1 BY <1>3, <1>10 DEF Write
  <2>2. t2 = [t EXCEPT ![1] = w2]
    <3>1. [t[1] EXCEPT !.left = @ - 1] = w2 BY <1>2 DEF Write
    <3> QED BY <3>1
  <2> HIDE DEF w2, t2
  <2>3. /\ t2 \in Seq(Write) /\ Len(t2) = Len(t)
        /\ \A k \in 1 .. Len(t) : t2[k] = IF k = 1 THEN w2 ELSE t[k]
    BY <1>1, <2>1, <2>2
  <2>4. \A k \in 1 .. Len(d) : d[k] = t2[k].port BY <1>1, <2>1, <2>3 DEF Agree
  <2>5. ASSUME NEW k \in 1 .. Len(d)
        PROVE  /\ r2[Len(r2) - Len(d) + k].port = t2[k].port
               /\ r2[Len(r2) - Len(d) + k].left = t2[k].left
    <3>1. /\ Len(r2) - Len(d) + k \in 1 .. Len(r) /\ k \in 1 .. Len(t)
          /\ (Len(r2) - Len(d) + k = f <=> k = 1)
      BY <1>1, <1>6 DEF f
    <3>2. CASE k = 1 BY <1>4, <1>6, <2>1, <2>3, <3>1, <3>2
    <3>3. CASE k # 1
      <4>1. t2[k] = t[k] BY <2>3, <3>1, <3>3
      <4>2. r2[Len(r2) - Len(d) + k] = r[Len(r) - Len(d) + k] BY <1>6, <3>1, <3>3
      <4> QED BY <4>1, <4>2 DEF Agree
    <3> QED BY <3>2, <3>3
  <2>6. u => t2[Len(t2)].left = t2[Len(t2)].len BY <1>1, <2>3 DEF Agree
  <2>7. Agree(q, d, t2, u, r2)
    BY <1>1, <1>6, <1>7, <1>8, <2>3, <2>4, <2>5, <2>6 DEF Agree
  <2> QED BY <1>10, <2>7 DEF t2, r2, f
<1> QED BY <1>9, <1>10

\* The slaves that answer still have their complete write after each of these steps.
LEMMA PopAnswers ==
  ASSUME NEW q, NEW d, NEW t, NEW u, NEW r, NEW v, Agree(q, d, t, u, r), Answers(d, r, v),
         Len(r) # Len(d)
  PROVE  Answers(d, Tail(r), [v EXCEPT ![r[1].port] = FALSE])
<1> DEFINE v2 == [v EXCEPT ![r[1].port] = FALSE]
<1>1. /\ r \in Seq(Resp) /\ Len(d) \in Nat /\ Len(r) \in Nat /\ Len(d) < Len(r)
  BY DEF Agree
<1>2. /\ Len(Tail(r)) = Len(r) - 1 /\ \A k \in 1 .. Len(r) - 1 : Tail(r)[k] = r[k + 1]
  BY <1>1
<1>3. v2 \in [Ports -> BOOLEAN] BY DEF Answers
<1>4. ASSUME NEW p \in Ports, v2[p] PROVE \E k \in 1 .. Len(Tail(r)) - Len(d) : Tail(r)[k].port = p
  <2>1. v[p] /\ p # r[1].port BY <1>4 DEF Answers
  <2>2. PICK k \in 1 .. Len(r) - Len(d) : r[k].port = p BY <2>1 DEF Answers
  <2>3. k # 1 BY <2>1, <2>2
  <2>4. k - 1 \in 1 .. Len(Tail(r)) - Len(d) /\ Tail(r)[k - 1] = r[k] BY <1>1, <1>2, <2>3
  <2> QED BY <2>2, <2>4
<1> QED BY <1>3, <1>4 DEF Answers

\* An address that is taken adds its write at the end of the answers that are due.
LEMMA AddressAnswers ==
  ASSUME NEW q, NEW d, NEW t, NEW u, NEW r, NEW v, Agree(q, d, t, u, r), Answers(d, r, v),
         NEW x \in Ports, NEW e \in Resp
  PROVE  Answers(Append(d, x), Append(r, e), v)
<1>1. /\ r \in Seq(Resp) /\ d \in Seq(Ports) /\ Len(d) \in Nat /\ Len(r) \in Nat /\ Len(d) <= Len(r)
  BY DEF Agree
<1>2. /\ Len(Append(r, e)) - Len(Append(d, x)) = Len(r) - Len(d)
      /\ \A k \in 1 .. Len(r) : Append(r, e)[k] = r[k]
  BY <1>1, AppendProperties
<1>3. 1 .. Len(r) - Len(d) \subseteq 1 .. Len(r) BY <1>1
<1> QED BY <1>2, <1>3 DEF Answers

\* A beat only shortens the data that is still to go out.
LEMMA BeatAnswers ==
  ASSUME NEW q, NEW d, NEW t, NEW u, NEW r, NEW v, Agree(q, d, t, u, r), Answers(d, r, v),
         NEW d2, NEW t2, NEW r2, Agree(q, d2, t2, u, r2), Len(d2) <= Len(d)
  PROVE  Answers(d2, r2, v)
<1>1. /\ Len(d) \in Nat /\ Len(r) \in Nat /\ Len(q) = Len(r)
      /\ \A k \in 1 .. Len(r) : q[k] = r[k].port
  BY DEF Agree
<1>2. /\ Len(d2) \in Nat /\ Len(r2) = Len(r)
      /\ \A k \in 1 .. Len(r2) : q[k] = r2[k].port
  BY <1>1 DEF Agree
<1>3. ASSUME NEW p \in Ports, v[p] PROVE \E k \in 1 .. Len(r2) - Len(d2) : r2[k].port = p
  <2>1. PICK k \in 1 .. Len(r) - Len(d) : r[k].port = p BY <1>3 DEF Answers
  <2>2. k \in 1 .. Len(r2) - Len(d2) /\ k \in 1 .. Len(r) BY <1>1, <1>2
  <2> QED BY <1>1, <1>2, <2>1, <2>2
<1> QED BY <1>3 DEF Answers

(* ------------------------------- the clock edge ---------------------------- *)

\* A response that reaches the master comes from the slave of its oldest write.
LEMMA HeadAnswers ==
  ASSUME AwInv, NEW stale \in Ports, i_axi_bvalid(stale)
  PROVE  /\ awid_fifo # <<>> /\ Len(resp) # Len(aw_w_id_fifo)
         /\ o_axi_awrsp_port_id(stale) = resp[1].port
         /\ resp # <<>> /\ resp[1].left = 0
         /\ Oldest(o_axi_awrsp_port_id(stale)) = 1
<1> DEFINE p == o_axi_awrsp_port_id(stale)
<1>1. /\ awid_fifo \in Seq(Ports) /\ resp \in Seq(Resp) /\ Len(aw_w_id_fifo) \in Nat
      /\ Len(awid_fifo) = Len(resp) /\ Len(resp) \in Nat
  BY DEF AwInv, Agree
<1>2. p \in Ports BY <1>1 DEF o_axi_awrsp_port_id
<1>3. PICK k \in 1 .. Len(resp) - Len(aw_w_id_fifo) : resp[k].port = p
  BY <1>2 DEF AwInv, Answers, i_axi_bvalid
<1>4. Len(resp) # Len(aw_w_id_fifo) /\ 1 \in 1 .. Len(resp) BY <1>1, <1>3
<1>5. /\ awid_fifo # <<>> /\ resp # <<>> /\ resp[1].left = 0 /\ resp[1].port = Head(awid_fifo)
  <2>1. /\ \A j \in 1 .. Len(resp) : awid_fifo[j] = resp[j].port
        /\ \A j \in 1 .. Len(resp) - Len(aw_w_id_fifo) : resp[j].left = 0
    BY DEF AwInv, Agree
  <2>2. 1 \in 1 .. Len(resp) - Len(aw_w_id_fifo) BY <1>1, <1>3
  <2> QED BY <1>1, <1>4, <2>1, <2>2
<1>6. p = resp[1].port BY <1>5 DEF o_axi_awrsp_port_id
<1>7. Oldest(p) = 1
  <2>1. resp[1].port = p /\ \A j \in 1 .. 1 - 1 : resp[j].port # p BY <1>6
  <2>2. \A n \in 1 .. Len(resp) :
          resp[n].port = p /\ (\A j \in 1 .. n - 1 : resp[j].port # p) => n = 1
    BY <1>6
  <2> QED BY <1>4, <2>1, <2>2 DEF Oldest
<1> QED BY <1>4, <1>5, <1>6, <1>7

\* When aw_w_id_fifo is empty no slave waits for data, and a write on both channels is
\* the master's only one.
LEMMA NothingQueued ==
  ASSUME AwInv, aw_w_id_fifo = <<>>
  PROVE  /\ \A p \in Ports : Missing(p) = {}
         /\ awv => unsent /\ Len(todo) = 1 /\ aw = todo[1]
<1>1. resp \in Seq(Resp) /\ Len(resp) \in Nat /\ Len(aw_w_id_fifo) = 0 BY DEF AwInv, Agree
<1>2. \A k \in 1 .. Len(resp) : resp[k].left = 0 BY <1>1 DEF AwInv, Agree
<1>3. \A p \in Ports : Missing(p) = {} BY <1>2 DEF Missing
<1>4. awv => unsent /\ Len(todo) = 1 BY <1>1 DEF AwInv, Agree
<1> QED BY <1>3, <1>4 DEF aw

\* A write whose address is not out yet is the last one begun, with all of its data to come.
LEMMA LastWrite ==
  ASSUME AwInv, unsent
  PROVE  /\ aw \in Write /\ aw.port \in Ports /\ aw.len \in Nat \ {0} /\ aw.left = aw.len
         /\ aw.len \in sys.lens
<1>1. todo \in Seq(Write) /\ Len(todo) \in Nat /\ Len(todo) >= 1 BY DEF AwInv, Agree
<1>2. aw \in Write BY <1>1 DEF aw
<1> QED BY <1>1, <1>2 DEF AwInv, Agree, aw, Write

\* The wires of a clock edge, as Tick names them.
bHsk(stale, bready) == i_axi_bvalid(stale) /\ bready
lastGoes(wready) == /\ o_axi_wvalid /\ wready /\ i_axi_wlast /\ ~aw_w_fifo_bypass
                    /\ Missing(i_axi_w_indic) # {}
awHsk(stale, awready, wready, bready) ==
  /\ awv /\ FifoReady(awid_fifo, sys.outs, sys.cut, bHsk(stale, bready))
  /\ FifoReady(aw_w_id_fifo, sys.outs, sys.cut, lastGoes(wready))
  /\ SlaveTakesAw(awready, wready)
wHsk(stale, awready, wready, bready) ==
  /\ o_axi_wvalid /\ wready
  /\ \/ Missing(i_axi_w_indic) # {}
     \/ awHsk(stale, awready, wready, bready) /\ aw.port = i_axi_w_indic

\* What a beat that is taken is: the master's next one, on its way to its slave, which
\* holds the write once the address of this edge has been added.
LEMMA BeatFacts ==
  ASSUME AwInv, o_axi_wvalid
  PROVE  /\ todo # <<>>
         /\ i_axi_w_indic = todo[1].port
         /\ aw_w_id_fifo = <<>> => awv /\ unsent /\ aw = todo[1] /\ Len(todo) = 1
<1>1. todo # <<>> /\ todo \in Seq(Write) /\ aw_w_id_fifo \in Seq(Ports)
  BY DEF AwInv, Agree, o_axi_wvalid
<1>2. CASE aw_w_id_fifo = <<>>
  <2>1. aw_w_same_cycle BY <1>2 DEF o_axi_wvalid, aw_w_block
  <2>2. awv /\ i_axi_w_indic = aw.port BY <2>1 DEF aw_w_same_cycle, i_axi_w_indic
  <2> QED BY <1>1, <1>2, <2>2, NothingQueued
<1>3. CASE aw_w_id_fifo # <<>>
  <2>1. i_axi_w_indic = Head(aw_w_id_fifo) BY <1>3 DEF i_axi_w_indic, aw_w_same_cycle
  <2>2. 1 \in 1 .. Len(aw_w_id_fifo) /\ Head(aw_w_id_fifo) = aw_w_id_fifo[1] BY <1>1, <1>3
  <2>3. aw_w_id_fifo[1] = todo[1].port BY <2>2 DEF AwInv, Agree
  <2> QED BY <1>1, <1>3, <2>1, <2>2, <2>3
<1> QED BY <1>2, <1>3

\* With slaves as SlavesFit asks for, a write that bypasses aw_w_id_fifo leaves nothing
\* behind: its only beat is taken with its address.
LEMMA BypassTakesBeat ==
  ASSUME AwInv, SlavesFit, NEW stale \in Ports, NEW awready, NEW wready \in BOOLEAN, NEW bready,
         awHsk(stale, awready, wready, bready), aw_w_fifo_bypass
  PROVE  wHsk(stale, awready, wready, bready)
<1>1. aw_w_id_fifo = <<>> /\ awv /\ wv /\ aw.len = 1 /\ aw_w_same_cycle
  BY DEF aw_w_fifo_bypass, aw_w_same_cycle
<1>2. o_axi_wvalid /\ i_axi_w_indic = aw.port
  BY <1>1 DEF o_axi_wvalid, aw_w_block, i_axi_w_indic
<1>3. unsent /\ aw.port \in Ports /\ 1 \in sys.lens BY <1>1, LastWrite DEF AwInv
<1>4. Missing(aw.port) = {} BY <1>1, <1>3, NothingQueued
<1>5. sys.joint BY <1>3 DEF SlavesFit, AwInv
<1>6. wready BY <1>2, <1>4, <1>5 DEF awHsk, SlaveTakesAw
<1> QED BY <1>2, <1>6 DEF wHsk

\* A clock edge in terms of these wires.
LEMMA TickWires ==
  ASSUME AwInv, NEW awready, NEW wready, NEW bready, Tick(awready, wready, bready)
  PROVE  \E stale \in Ports :
    LET b == bHsk(stale, bready)
        a == awHsk(stale, awready, wready, bready)
        h == wHsk(stale, awready, wready, bready)
    IN /\ awid_fifo' = FifoNext(awid_fifo, a, aw.port, b)
       /\ aw_w_id_fifo' = FifoNext(aw_w_id_fifo, a /\ ~aw_w_fifo_bypass, aw.port,
                                   h /\ i_axi_wlast /\ ~aw_w_fifo_bypass)
       /\ resp' = SlavesAfter(o_axi_awrsp_port_id(stale), b, a, h)
       /\ bv' = IF b THEN [bv EXCEPT ![o_axi_awrsp_port_id(stale)] = FALSE] ELSE bv
       /\ awv' = (awv /\ ~a) /\ unsent' = (unsent /\ ~a) /\ wv' = (wv /\ ~h)
       /\ todo' = IF ~h THEN todo ELSE IF i_axi_wlast THEN Tail(todo)
                  ELSE [todo EXCEPT ![1].left = @ - 1]
       /\ tag' = IF a THEN (tag + 1) % 2 ELSE tag
<1>1. PICK stale \in Ports :
        LET b == bHsk(stale, bready)
            a == awHsk(stale, awready, wready, bready)
            h == wHsk(stale, awready, wready, bready)
            byp == awid_fifo = <<>> /\ a /\ b
        IN /\ awid_fifo' = FifoNext(awid_fifo, a /\ ~byp, aw.port, b /\ ~byp)
           /\ aw_w_id_fifo' = FifoNext(aw_w_id_fifo, a /\ ~aw_w_fifo_bypass, aw.port,
                                       h /\ i_axi_wlast /\ ~aw_w_fifo_bypass)
           /\ resp' = SlavesAfter(o_axi_awrsp_port_id(stale), b, a, h)
           /\ bv' = IF b THEN [bv EXCEPT ![o_axi_awrsp_port_id(stale)] = FALSE] ELSE bv
           /\ awv' = (awv /\ ~a) /\ unsent' = (unsent /\ ~a) /\ wv' = (wv /\ ~h)
           /\ todo' = IF ~h THEN todo ELSE IF i_axi_wlast THEN Tail(todo)
                      ELSE [todo EXCEPT ![1].left = @ - 1]
           /\ tag' = IF a THEN (tag + 1) % 2 ELSE tag
  BY Zenon DEF Tick, bHsk, awHsk, wHsk, lastGoes
<1>2. ~(awid_fifo = <<>> /\ awHsk(stale, awready, wready, bready) /\ bHsk(stale, bready))
  BY HeadAnswers DEF bHsk
<1>3. WITNESS stale \in Ports
<1> QED BY <1>1, <1>2 DEF FifoNext

\* The slaves after a clock edge: the oldest write has left with its response, the new
\* address has come, and a beat has come to the first write with beats missing.
LEMMA SlavesStep ==
  ASSUME AwInv, NEW stale \in Ports, NEW b \in BOOLEAN, NEW a \in BOOLEAN, NEW h \in BOOLEAN,
         b => i_axi_bvalid(stale)
  PROVE  LET left == IF b THEN Tail(resp) ELSE resp
             came == IF a THEN Append(left, [port |-> aw.port, left |-> aw.len, tag |-> tag])
                          ELSE left
         IN SlavesAfter(o_axi_awrsp_port_id(stale), b, a, h)
              = IF h THEN WithBeat(came, i_axi_w_indic) ELSE came
<1>1. resp \in Seq(Resp) BY DEF AwInv, Agree
<1>2. CASE b
  <2>1. Oldest(o_axi_awrsp_port_id(stale)) = 1 /\ resp # <<>> BY <1>2, HeadAnswers
  <2>2. Without(resp, 1) = Tail(resp)
    <3> DEFINE x == Without(resp, 1)
    <3>1. x \in Seq(Resp) /\ Len(x) = Len(resp) - 1 /\ \A j \in 1 .. Len(x) : x[j] = resp[j + 1]
      BY <1>1, <2>1 DEF Without
    <3>2. /\ Tail(resp) \in Seq(Resp) /\ Len(Tail(resp)) = Len(resp) - 1
          /\ \A j \in 1 .. Len(x) : Tail(resp)[j] = resp[j + 1]
      BY <1>1, <2>1, <3>1
    <3> HIDE DEF x
    <3>3. x = Tail(resp) BY <3>1, <3>2, SeqEqual
    <3> QED BY <3>3 DEF x
  <2> QED BY <1>2, <2>1, <2>2 DEF SlavesAfter
<1>3. CASE ~b BY <1>3 DEF SlavesAfter
<1> QED BY <1>2, <1>3

\* A clock edge of the splitter keeps the invariant.
LEMMA TickKeepsInv ==
  ASSUME AwInv, SlavesFit, UNCHANGED sys,
         NEW awready \in BOOLEAN, NEW wready \in BOOLEAN, NEW bready \in BOOLEAN,
         Tick(awready, wready, bready)
  PROVE  AwInv'
<1>1. PICK stale \in Ports :
        LET b == bHsk(stale, bready)
            a == awHsk(stale, awready, wready, bready)
            h == wHsk(stale, awready, wready, bready)
        IN /\ awid_fifo' = FifoNext(awid_fifo, a, aw.port, b)
           /\ aw_w_id_fifo' = FifoNext(aw_w_id_fifo, a /\ ~aw_w_fifo_bypass, aw.port,
                                       h /\ i_axi_wlast /\ ~aw_w_fifo_bypass)
           /\ resp' = SlavesAfter(o_axi_awrsp_port_id(stale), b, a, h)
           /\ bv' = IF b THEN [bv EXCEPT ![o_axi_awrsp_port_id(stale)] = FALSE] ELSE bv
           /\ awv' = (awv /\ ~a) /\ unsent' = (unsent /\ ~a) /\ wv' = (wv /\ ~h)
           /\ todo' = IF ~h THEN todo ELSE IF i_axi_wlast THEN Tail(todo)
                      ELSE [todo EXCEPT ![1].left = @ - 1]
           /\ tag' = IF a THEN (tag + 1) % 2 ELSE tag
  BY TickWires
<1> DEFINE b == bHsk(stale, bready)
           a == awHsk(stale, awready, wready, bready)
           h == wHsk(stale, awready, wready, bready)
           e == [port |-> aw.port, left |-> aw.len, tag |-> tag]
           q1 == IF b THEN Tail(awid_fifo) ELSE awid_fifo
           r1 == IF b THEN Tail(resp) ELSE resp
           q2 == IF a THEN Append(q1, aw.port) ELSE q1
           d2 == IF a THEN Append(aw_w_id_fifo, aw.port) ELSE aw_w_id_fifo
           r2 == IF a THEN Append(r1, e) ELSE r1
           f == Len(r2) - Len(d2) + 1
<1>2. /\ Agree(awid_fifo, aw_w_id_fifo, todo, unsent, resp) /\ Answers(aw_w_id_fifo, resp, bv)
      /\ awid_fifo \in Seq(Ports) /\ aw_w_id_fifo \in Seq(Ports) /\ todo \in Seq(Write)
      /\ tag \in Tags /\ (a => unsent) /\ b \in BOOLEAN /\ a \in BOOLEAN /\ h \in BOOLEAN
      /\ (b => i_axi_bvalid(stale)) /\ unsent \in BOOLEAN
  BY DEF AwInv, Agree, bHsk, awHsk, wHsk
<1>3. a => /\ aw = todo[Len(todo)] /\ aw.port \in Ports /\ e \in Resp /\ aw.left = aw.len
           /\ aw.len \in sys.lens
  BY <1>2, LastWrite DEF aw, Resp
<1>4. Agree(q1, aw_w_id_fifo, todo, unsent, r1) /\ Answers(aw_w_id_fifo, r1, bv')
  <2>1. CASE b
    <3>1. Len(resp) # Len(aw_w_id_fifo) /\ o_axi_awrsp_port_id(stale) = resp[1].port
      BY <1>2, <2>1, HeadAnswers
    <3>2. Agree(q1, aw_w_id_fifo, todo, unsent, r1) BY <1>2, <2>1, <3>1, PopAgrees
    <3>3. bv' = [bv EXCEPT ![resp[1].port] = FALSE] BY <1>1, <2>1, <3>1
    <3>4. Answers(aw_w_id_fifo, r1, bv') BY <1>2, <2>1, <3>1, <3>3, PopAnswers
    <3> QED BY <3>2, <3>4
  <2>2. CASE ~b BY <1>1, <1>2, <2>2
  <2> QED BY <2>1, <2>2
<1>5. awid_fifo' = q2
  <2>1. b => awid_fifo # <<>> BY <1>2, HeadAnswers
  <2> QED BY <1>1, <2>1 DEF FifoNext
<1> HIDE DEF q1, r1, e, b, a, h
<1>6. Agree(q2, d2, todo, unsent', r2) /\ Answers(d2, r2, bv')
  <2>1. CASE a
    <3>1. Agree(q1, aw_w_id_fifo, todo, TRUE, r1) /\ unsent' = FALSE
      BY <1>1, <1>2, <1>4, <2>1 DEF a
    <3>2. Agree(q2, d2, todo, FALSE, r2) BY <1>2, <1>3, <2>1, <3>1, AddressAgrees DEF e
    <3>3. Answers(d2, r2, bv') BY <1>3, <1>4, <2>1, AddressAnswers
    <3> QED BY <3>1, <3>2, <3>3
  <2>2. CASE ~a
    <3>1. unsent' = unsent BY <1>1, <1>2, <2>2 DEF a
    <3> QED BY <1>4, <2>2, <3>1
  <2> QED BY <1>2, <2>1, <2>2
<1>7. h => /\ d2 # <<>> /\ i_axi_w_indic = todo[1].port /\ todo # <<>>
           /\ (unsent' => Len(todo) > 1) /\ (i_axi_wlast <=> todo[1].left = 1)
           /\ (aw_w_id_fifo = <<>> => a /\ aw = todo[1])
  <2> SUFFICES ASSUME h PROVE /\ d2 # <<>> /\ i_axi_w_indic = todo[1].port /\ todo # <<>>
                             /\ (unsent' => Len(todo) > 1)
                             /\ (i_axi_wlast <=> todo[1].left = 1)
                             /\ (aw_w_id_fifo = <<>> => a /\ aw = todo[1])
    OBVIOUS
  <2>1. o_axi_wvalid BY DEF h, wHsk
  <2>2. /\ todo # <<>> /\ i_axi_w_indic = todo[1].port
        /\ (aw_w_id_fifo = <<>> => awv /\ unsent /\ aw = todo[1] /\ Len(todo) = 1)
    BY <2>1, BeatFacts
  <2>3. aw_w_id_fifo = <<>> => a
    <3> SUFFICES ASSUME aw_w_id_fifo = <<>> PROVE a
      OBVIOUS
    <3>1. todo[1].port \in Ports BY <2>2, LastWrite
    <3> QED BY <2>2, <3>1, NothingQueued DEF h, wHsk, a
  <2>4. d2 # <<>> BY <1>2, <1>3, <2>3
  <2>5. unsent' => Len(todo) > 1 BY <1>6, <2>4 DEF Agree
  <2> QED BY <2>2, <2>3, <2>4, <2>5 DEF i_axi_wlast, w
<1>8. resp' = IF h THEN [r2 EXCEPT ![f].left = @ - 1] ELSE r2
  <2>1. resp' = SlavesAfter(o_axi_awrsp_port_id(stale), b, a, h) BY <1>1 DEF b, a, h
  <2>2. resp' = IF h THEN WithBeat(r2, i_axi_w_indic) ELSE r2
    BY <1>2, <2>1, SlavesStep DEF r1, e
  <2>3. ASSUME h PROVE WithBeat(r2, i_axi_w_indic) = [r2 EXCEPT ![f].left = @ - 1]
    <3>1. Agree(q2, d2, todo, unsent', r2) /\ d2 # <<>> BY <1>6, <1>7, <2>3
    <3>2. i_axi_w_indic = todo[1].port BY <1>7, <2>3
    <3> HIDE DEF q2, r2, d2
    <3>3. WithBeat(r2, todo[1].port) = [r2 EXCEPT ![Len(r2) - Len(d2) + 1].left = @ - 1]
      BY <3>1, FirstMissing
    <3> QED BY <3>2, <3>3
  <2> QED BY <2>2, <2>3
<1>9. aw_w_id_fifo' = IF h /\ todo[1].left = 1 THEN Tail(d2) ELSE d2
  <2>1. aw_w_id_fifo' = FifoNext(aw_w_id_fifo, a /\ ~aw_w_fifo_bypass, aw.port,
                                h /\ i_axi_wlast /\ ~aw_w_fifo_bypass)
    BY <1>1 DEF a, h
  <2>2. a /\ aw_w_fifo_bypass => h BY <1>2, BypassTakesBeat DEF a, h
  <2>3. aw_w_fifo_bypass => aw_w_id_fifo = <<>> /\ aw.len = 1
    BY DEF aw_w_fifo_bypass, aw_w_same_cycle
  <2>4. CASE ~h BY <2>1, <2>2, <2>4 DEF FifoNext
  <2>5. CASE h /\ aw_w_id_fifo = <<>>
    <3>1. a /\ aw.left = aw.len /\ aw = todo[1] /\ aw.port \in Ports BY <1>3, <1>7, <2>5
    <3>2. aw_w_fifo_bypass <=> todo[1].left = 1
      BY <2>5, <3>1 DEF aw_w_fifo_bypass, aw_w_same_cycle, h, wHsk, o_axi_wvalid, aw_w_block
    <3>3. d2 = <<aw.port>> /\ Tail(d2) = <<>> BY <1>2, <2>5, <3>1
    <3> QED BY <1>7, <2>1, <2>5, <3>1, <3>2, <3>3 DEF FifoNext
  <2>6. CASE h /\ aw_w_id_fifo # <<>>
    <3>1. ~aw_w_fifo_bypass BY <2>3, <2>6
    <3>2. a => Tail(Append(aw_w_id_fifo, aw.port)) = Append(Tail(aw_w_id_fifo), aw.port)
      BY <1>2, <1>3, <2>6
    <3> QED BY <1>7, <2>1, <2>6, <3>1, <3>2 DEF FifoNext
  <2> QED BY <2>4, <2>5, <2>6
<1>10. /\ Agree(awid_fifo', aw_w_id_fifo', todo', unsent', resp')
       /\ Answers(aw_w_id_fifo', resp', bv')
  <2> HIDE DEF q2, d2, r2, f
  <2>1. CASE ~h
    <3>1. todo' = todo /\ resp' = r2 /\ aw_w_id_fifo' = d2 BY <1>1, <1>8, <1>9, <2>1 DEF h
    <3> QED BY <1>5, <1>6, <3>1
  <2>2. CASE h
    <3>1. /\ todo' = IF todo[1].left = 1 THEN Tail(todo) ELSE [todo EXCEPT ![1].left = @ - 1]
          /\ resp' = [r2 EXCEPT ![f].left = @ - 1]
          /\ aw_w_id_fifo' = IF todo[1].left = 1 THEN Tail(d2) ELSE d2
      BY <1>1, <1>7, <1>8, <1>9, <2>2 DEF h
    <3>2. Agree(q2, aw_w_id_fifo', todo', unsent', resp')
      BY <1>6, <1>7, <2>2, <3>1, BeatAgrees DEF f
    <3>3. Len(aw_w_id_fifo') <= Len(d2)
      <4>1. d2 \in Seq(Ports) BY <1>6 DEF Agree
      <4> QED BY <1>7, <2>2, <3>1, <4>1
    <3>4. Answers(aw_w_id_fifo', resp', bv') BY <1>6, <3>2, <3>3, BeatAnswers
    <3> QED BY <1>5, <3>2, <3>4
  <2> QED BY <2>1, <2>2
<1>11. \A k \in 1 .. Len(todo') : todo'[k].len \in sys'.lens
  <2>1. /\ \A k \in 1 .. Len(todo) : todo[k].len \in sys.lens
        /\ sys' = sys /\ todo \in Seq(Write)
    BY <1>2 DEF AwInv
  <2>2. CASE ~h BY <1>1, <2>1, <2>2 DEF h
  <2>3. CASE h /\ i_axi_wlast
    <3>1. todo' = Tail(todo) /\ todo # <<>> BY <1>1, <1>7, <2>3 DEF h
    <3>2. Len(todo') = Len(todo) - 1 /\ \A k \in 1 .. Len(todo') : todo'[k] = todo[k + 1]
      BY <2>1, <3>1
    <3> QED BY <2>1, <3>2
  <2>4. CASE h /\ ~i_axi_wlast
    <3> DEFINE x == [todo[1] EXCEPT !.left = @ - 1]
    <3>1. todo' = [todo EXCEPT ![1] = x] BY <1>1, <2>4 DEF h
    <3>2. todo[1] \in Write /\ 1 \in 1 .. Len(todo) BY <1>7, <2>1, <2>4
    <3>3. x.len = todo[1].len BY <3>2 DEF Write
    <3> HIDE DEF x
    <3>4. DOMAIN todo' = 1 .. Len(todo) /\ \A k \in 1 .. Len(todo) : todo'[k] = IF k = 1 THEN x ELSE todo[k]
      BY <2>1, <3>1
    <3>5. todo' \in Seq(Write) BY <1>10 DEF Agree
    <3> QED BY <2>1, <3>2, <3>3, <3>4, <3>5
  <2> QED BY <1>2, <2>2, <2>3, <2>4
<1>12. /\ sys' \in Systems /\ tag' \in Tags /\ awv' \in BOOLEAN /\ wv' \in BOOLEAN
  BY <1>1, <1>2 DEF AwInv, Tags
<1>13. awv' => unsent' BY <1>1 DEF AwInv
<1>14. wv' => todo' # <<>> BY <1>1 DEF AwInv
<1> QED BY <1>10, <1>11, <1>12, <1>13, <1>14 DEF AwInv

(* ------------------------------ the other steps ---------------------------- *)

\* The master's next write keeps the invariant.
LEMMA BeginKeepsInv ==
  ASSUME AwInv, UNCHANGED sys, NEW p \in Ports, NEW l \in sys.lens, BeginWrite(p, l)
  PROVE  AwInv'
<1> DEFINE e == [port |-> p, len |-> l, left |-> l]
<1>1. /\ todo' = Append(todo, e) /\ unsent' = TRUE /\ unsent = FALSE
      /\ UNCHANGED <<awid_fifo, aw_w_id_fifo, awv, wv, resp, bv, tag>>
  BY DEF BeginWrite, AwInv, Agree
<1>2. /\ todo \in Seq(Write) /\ Len(todo) = Len(aw_w_id_fifo) /\ Len(todo) \in Nat
      /\ sys \in Systems /\ \A k \in 1 .. Len(todo) : todo[k].len \in sys.lens
  BY <1>1 DEF AwInv, Agree
<1>3. e \in Write /\ e.left = e.len /\ e.len \in sys.lens BY <1>2, AwAssumption DEF Write
<1> HIDE DEF e
<1>4. /\ todo' \in Seq(Write) /\ Len(todo') = Len(todo) + 1 /\ todo'[Len(todo) + 1] = e
      /\ \A k \in 1 .. Len(todo) : todo'[k] = todo[k]
  BY <1>1, <1>2, <1>3, AppendProperties
<1>5. Agree(awid_fifo', aw_w_id_fifo', todo', unsent', resp')
  <2>1. /\ \A k \in 1 .. Len(aw_w_id_fifo) : aw_w_id_fifo[k] = todo'[k].port
        /\ \A k \in 1 .. Len(aw_w_id_fifo) :
             LET s == resp[Len(resp) - Len(aw_w_id_fifo) + k]
             IN s.port = todo'[k].port /\ s.left = todo'[k].left
    BY <1>2, <1>4 DEF AwInv, Agree
  <2>2. todo'[Len(todo')].left = todo'[Len(todo')].len BY <1>3, <1>4
  <2>3. Len(todo') = Len(aw_w_id_fifo) + 1 BY <1>2, <1>4
  <2>4. /\ awid_fifo \in Seq(Ports) /\ aw_w_id_fifo \in Seq(Ports) /\ resp \in Seq(Resp)
        /\ Len(awid_fifo) = Len(resp) /\ \A k \in 1 .. Len(resp) : awid_fifo[k] = resp[k].port
        /\ Len(aw_w_id_fifo) <= Len(resp)
        /\ \A k \in 1 .. Len(resp) - Len(aw_w_id_fifo) : resp[k].left = 0
    BY DEF AwInv, Agree
  <2> QED BY <1>1, <1>4, <2>1, <2>2, <2>3, <2>4 DEF Agree
<1>6. \A k \in 1 .. Len(todo') : todo'[k].len \in sys'.lens
  <2> SUFFICES ASSUME NEW k \in 1 .. Len(todo') PROVE todo'[k].len \in sys.lens
    OBVIOUS
  <2>1. CASE k = Len(todo) + 1 BY <1>3, <1>4, <2>1
  <2>2. CASE k \in 1 .. Len(todo) BY <1>2, <1>4, <2>2
  <2> QED BY <1>2, <1>4, <2>1, <2>2
<1>7. wv' => todo' # <<>> BY <1>2, <1>4
<1> QED BY <1>1, <1>5, <1>6, <1>7 DEF AwInv, Answers

\* Raising a valid keeps the invariant: it moves nothing.
LEMMA RaiseKeepsInv ==
  ASSUME AwInv, UNCHANGED sys, RaiseAw \/ RaiseW \/ \E p \in Ports : RaiseB(p)
  PROVE  AwInv'
<1>1. CASE RaiseAw BY <1>1 DEF RaiseAw, AwInv
<1>2. CASE RaiseW BY <1>2 DEF RaiseW, AwInv
<1>3. ASSUME NEW p \in Ports, RaiseB(p) PROVE AwInv'
  <2> DEFINE k == Oldest(p)
  <2>1. /\ resp \in Seq(Resp) /\ Len(resp) \in Nat /\ Len(aw_w_id_fifo) \in Nat
        /\ Len(aw_w_id_fifo) <= Len(resp) /\ todo \in Seq(Write)
    BY DEF AwInv, Agree
  <2>2. k \in 1 .. Len(resp) /\ resp[k].port = p
    <3>1. PICK n \in 1 .. Len(resp) : resp[n].port = p BY <1>3 DEF RaiseB
    <3>2. \E n2 \in 1 .. Len(resp) : resp[n2].port = p /\ \A j \in 1 .. n2 - 1 : resp[j].port # p
      <4> DEFINE S == {n2 \in 1 .. Len(resp) : resp[n2].port = p}
      <4>1. S \subseteq Nat /\ S # {} BY <2>1, <3>1
      <4>2. PICK n2 \in S : \A j \in S : n2 <= j
        <5> HIDE DEF S
        <5> QED BY <4>1, SmallestNat
      <4>3. \A j \in 1 .. n2 - 1 : j \in 1 .. Len(resp) /\ ~(n2 <= j) BY <2>1, <4>2
      <4> QED BY <4>2, <4>3
    <3> QED BY <3>2 DEF Oldest
  <2>3. resp[k].left = 0 BY <1>3 DEF RaiseB
  <2>4. k \in 1 .. Len(resp) - Len(aw_w_id_fifo)
    <3> SUFFICES ASSUME k > Len(resp) - Len(aw_w_id_fifo) PROVE FALSE
      BY <2>1, <2>2
    <3> DEFINE i == k - (Len(resp) - Len(aw_w_id_fifo))
    <3>1. i \in 1 .. Len(aw_w_id_fifo) /\ k = Len(resp) - Len(aw_w_id_fifo) + i BY <2>1, <2>2
    <3>2. resp[k].left = todo[i].left BY <3>1 DEF AwInv, Agree
    <3>3. i \in 1 .. Len(todo) BY <3>1 DEF AwInv, Agree
    <3>4. todo[i] \in Write BY <2>1, <3>3
    <3> QED BY <2>3, <3>2, <3>4 DEF Write
  <2> HIDE DEF k
  <2>5. Answers(aw_w_id_fifo, resp, bv') BY <1>3, <2>2, <2>4 DEF RaiseB, AwInv, Answers
  <2> QED BY <1>3, <2>5 DEF RaiseB, AwInv
<1> QED BY <1>1, <1>2, <1>3

(* --------------------------------- results --------------------------------- *)

\* For any number of slaves, any lengths and depths, and slaves that fit: the queues of the
\* splitter, the master's writes and the slaves' writes agree in every state.
THEOREM WritesAgree ==
  ASSUME SlavesFit
  PROVE  AwSpec => []AwInv
<1>1. AwInit => AwInv
  <2> SUFFICES ASSUME AwInit PROVE AwInv
    OBVIOUS
  <2>1. unsent \in BOOLEAN /\ ~unsent /\ awv \in BOOLEAN /\ ~awv /\ wv \in BOOLEAN /\ ~wv
    BY Zenon DEF AwInit
  <2>2. /\ awid_fifo = <<>> /\ aw_w_id_fifo = <<>> /\ todo = <<>> /\ resp = <<>>
        /\ Len(awid_fifo) = 0 /\ Len(aw_w_id_fifo) = 0 /\ Len(todo) = 0 /\ Len(resp) = 0
    BY DEF AwInit
  <2>3. Agree(awid_fifo, aw_w_id_fifo, todo, unsent, resp) BY <2>1, <2>2 DEF Agree
  <2>4. Answers(aw_w_id_fifo, resp, bv) BY DEF AwInit, Answers
  <2>5. sys \in Systems /\ tag \in Tags BY DEF AwInit, Tags
  <2> QED BY <2>1, <2>2, <2>3, <2>4, <2>5 DEF AwInv
<1>2. AwInv /\ [AwNext]_awVars => AwInv'
  <2> SUFFICES ASSUME AwInv, [AwNext]_awVars PROVE AwInv'
    OBVIOUS
  <2>1. CASE UNCHANGED awVars BY <2>1 DEF awVars, AwInv
  <2>2. CASE AwNext BY <2>2, BeginKeepsInv, RaiseKeepsInv, TickKeepsInv DEF AwNext
  <2> QED BY <2>1, <2>2
<1> QED BY <1>1, <1>2, PTL DEF AwSpec

\* Every beat is offered to the slave that its own write is addressed to, also when data and
\* address come in the same cycle and when the queue is refilled as it empties.
THEOREM WriteDataRoutedCorrect ==
  ASSUME SlavesFit
  PROVE  AwSpec => []WriteDataRouted
<1>1. ASSUME AwInv PROVE WriteDataRouted
  <2>1. o_axi_wvalid => i_axi_w_indic = todo[1].port BY <1>1, BeatFacts
  <2> QED BY <2>1 DEF WriteDataRouted, w
<1> QED BY <1>1, WritesAgree, PTL

\* A slave that waits for data waits for the beats the master sends next to it.
THEOREM WriteDataCompleteCorrect ==
  ASSUME SlavesFit
  PROVE  AwSpec => []WriteDataComplete
<1>1. ASSUME AwInv PROVE WriteDataComplete
  <2> SUFFICES ASSUME NEW p \in Ports, Missing(p) # {}
               PROVE  \E k \in 1 .. Len(todo) :
                        /\ todo[k].port = p /\ todo[k].left = resp[Filling(p)].left
                        /\ \A j \in 1 .. k - 1 : todo[j].port # p
    BY DEF WriteDataComplete
  <2> DEFINE n == Len(resp) - Len(aw_w_id_fifo)
             f == Filling(p)
             k == f - n
  <2>1. /\ Len(resp) \in Nat /\ Len(aw_w_id_fifo) \in Nat /\ n \in Nat /\ todo \in Seq(Write)
        /\ Len(todo) \in Nat /\ Len(aw_w_id_fifo) <= Len(todo)
        /\ \A i \in 1 .. n : resp[i].left = 0
        /\ \A i \in 1 .. Len(aw_w_id_fifo) :
              resp[n + i].port = todo[i].port /\ resp[n + i].left = todo[i].left
    BY <1>1 DEF AwInv, Agree
  <2>2. Missing(p) \subseteq Nat BY <2>1 DEF Missing
  <2>3. PICK x \in Missing(p) : \A j \in Missing(p) : x <= j BY <2>2, SmallestNat
  <2>4. f = x
    <3>1. Missing(p) \subseteq Int BY <2>2
    <3> QED BY <2>3, <3>1, LeastOf DEF Filling
  <2>5. f \in Missing(p) /\ \A j \in Missing(p) : f <= j BY <2>3, <2>4
  <2>6. f \in 1 .. Len(resp) /\ resp[f].port = p /\ resp[f].left > 0 BY <2>5 DEF Missing
  <2> HIDE DEF f
  <2>7. f \notin 1 .. n BY <2>1, <2>6
  <2>8. k \in 1 .. Len(aw_w_id_fifo) /\ n + k = f BY <2>1, <2>6, <2>7
  <2>9. todo[k].port = p /\ todo[k].left = resp[f].left BY <2>1, <2>6, <2>8
  <2>10. ASSUME NEW j \in 1 .. k - 1 PROVE todo[j].port # p
    <3> SUFFICES ASSUME todo[j].port = p PROVE FALSE
      OBVIOUS
    <3>1. j \in 1 .. Len(aw_w_id_fifo) /\ j \in 1 .. Len(todo) /\ n + j \in 1 .. Len(resp) /\ ~(f <= n + j)
      BY <2>1, <2>6, <2>8
    <3>2. todo[j].left > 0
      <4>1. todo[j] \in Write BY <2>1, <3>1
      <4> QED BY <4>1 DEF Write
    <3>3. resp[n + j].port = todo[j].port /\ resp[n + j].left = todo[j].left
      <4> HIDE DEF n, k
      <4> QED BY <2>1, <3>1
    <3>4. n + j \in Missing(p) BY <3>1, <3>2, <3>3 DEF Missing
    <3> QED BY <2>5, <3>1, <3>4
  <2>11. k \in 1 .. Len(todo) BY <2>1, <2>8
  <2> QED BY <2>9, <2>10, <2>11 DEF f
<1> QED BY <1>1, WritesAgree, PTL

\* A response that reaches the master is that of its oldest write, whose data has all been
\* delivered.
THEOREM ResponsesInOrderCorrect ==
  ASSUME SlavesFit
  PROVE  AwSpec => []ResponsesInOrder
<1>1. AwInv => ResponsesInOrder BY HeadAnswers DEF ResponsesInOrder
<1> QED BY <1>1, WritesAgree, PTL

\* Neither queue is ever written beyond FIFO_OUTS_NUM entries, with the ready of a full
\* one-entry queue passed through (CUT_READY = 0) or not.
THEOREM QueuesFitCorrect ==
  ASSUME SlavesFit
  PROVE  AwSpec => []QueuesFit
<1>1. AwInit => QueuesFit
  <2> SUFFICES ASSUME AwInit PROVE QueuesFit
    OBVIOUS
  <2>1. sys.outs \in Nat \ {0} /\ awid_fifo = <<>> /\ aw_w_id_fifo = <<>>
    BY AwAssumption DEF AwInit
  <2> QED BY <2>1 DEF QueuesFit
<1>2. AwInv /\ QueuesFit /\ [AwNext]_awVars => QueuesFit'
  <2> SUFFICES ASSUME AwInv, QueuesFit, [AwNext]_awVars PROVE QueuesFit'
    OBVIOUS
  <2>1. CASE UNCHANGED <<sys, awid_fifo, aw_w_id_fifo>> BY <2>1 DEF QueuesFit
  <2>2. ASSUME NEW awready \in BOOLEAN, NEW wready \in BOOLEAN, NEW bready \in BOOLEAN,
               Tick(awready, wready, bready), UNCHANGED sys
        PROVE  QueuesFit'
    <3>1. PICK stale \in Ports :
            LET b == bHsk(stale, bready)
                a == awHsk(stale, awready, wready, bready)
                h == wHsk(stale, awready, wready, bready)
            IN /\ awid_fifo' = FifoNext(awid_fifo, a, aw.port, b)
               /\ aw_w_id_fifo' = FifoNext(aw_w_id_fifo, a /\ ~aw_w_fifo_bypass, aw.port,
                                           h /\ i_axi_wlast /\ ~aw_w_fifo_bypass)
      BY <2>2, TickWires
    <3> DEFINE b == bHsk(stale, bready)
               a == awHsk(stale, awready, wready, bready)
               h == wHsk(stale, awready, wready, bready)
               pop == h /\ i_axi_wlast /\ ~aw_w_fifo_bypass
    <3>2. /\ sys.outs \in Nat \ {0} /\ awid_fifo \in Seq(Ports) /\ aw_w_id_fifo \in Seq(Ports)
          /\ Len(awid_fifo) <= sys.outs /\ Len(aw_w_id_fifo) <= sys.outs
          /\ (a => aw.port \in Ports)
      BY AwAssumption, LastWrite DEF AwInv, Agree, QueuesFit, awHsk
    <3>3. /\ a => Len(awid_fifo) < sys.outs \/ b
          /\ a => Len(aw_w_id_fifo) < sys.outs \/ pop
          /\ b => awid_fifo # <<>>
      BY HeadAnswers DEF awHsk, wHsk, bHsk, lastGoes, FifoReady
    <3> HIDE DEF a, b, h, pop
    <3>4. Len(awid_fifo') <= sys.outs
      <4>1. awid_fifo' = LET r == IF b THEN Tail(awid_fifo) ELSE awid_fifo
                         IN IF a THEN Append(r, aw.port) ELSE r
        BY <3>1, <3>3 DEF FifoNext, a, b
      <4> QED BY <3>2, <3>3, <4>1
    <3>5. Len(aw_w_id_fifo') <= sys.outs
      <4>1. aw_w_id_fifo' = FifoNext(aw_w_id_fifo, a /\ ~aw_w_fifo_bypass, aw.port, pop)
        BY <3>1 DEF a, h, pop
      <4>2. CASE pop /\ aw_w_id_fifo # <<>>
        BY <3>2, <3>3, <4>1, <4>2 DEF FifoNext
      <4>3. CASE ~(pop /\ aw_w_id_fifo # <<>>)
        <5>1. a => Len(aw_w_id_fifo) < sys.outs BY <3>2, <3>3, <4>3
        <5> QED BY <3>2, <4>1, <4>3, <5>1 DEF FifoNext
      <4> QED BY <4>2, <4>3
    <3> QED BY <2>2, <3>4, <3>5 DEF QueuesFit
  <2> QED BY <2>1, <2>2 DEF AwNext, awVars, BeginWrite, RaiseAw, RaiseW, RaiseB
<1> QED BY <1>1, <1>2, WritesAgree, PTL DEF AwSpec
===============================================================================
