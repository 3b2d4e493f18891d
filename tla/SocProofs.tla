------------------------------ MODULE SocProofs -------------------------------
(***************************************************************************)
(* The smaller components of the subsystem, each on its own: the read half of*)
(* the AXI splitter (AxiSpltAr), the clock-domain crossing (CdcTxRx), the    *)
(* single-cycle RAM (SramCtrl), and the start-up and interrupt dispatch of the*)
(* SDK (HartBoot).  They share no variable; each part below starts with its  *)
(* argument.                                                                 *)
(***************************************************************************)
EXTENDS AxiSpltAr, CdcTxRx, SramCtrl, HartBoot, SequenceTheorems, TLAPS

(* ---------------------- the AXI splitter, read half ---------------------- *)

(***************************************************************************)
(* The read half of the splitter returns data in the order it was asked for, *)
(* for any number of slaves, any burst lengths and any depth of the queue.   *)
(* The inductive invariant is ArTypeOK /\ RouteMatches: the queue of slave   *)
(* numbers and the list of outstanding reads agree entry by entry, so the    *)
(* slave at the head of the queue owns the oldest read.                      *)
(***************************************************************************)

ArInv == ArTypeOK /\ RouteMatches

\* The state of queue q, reads o and slaves v that RouteMatches describes.
Matched(q, o, v) ==
  /\ q \in Seq(Ports) /\ o \in Seq(Read) /\ Len(q) = Len(o)
  /\ \A k \in 1 .. Len(o) : q[k] = o[k].port
  /\ v \in [Ports -> BOOLEAN]
  /\ \A p \in Ports : v[p] => \E k \in 1 .. Len(o) : o[k].port = p

\* A slave drives the R channel only if it is the slave of the oldest read.
LEMMA HeadOwnsR ==
  ASSUME ArInv, NEW stale \in Ports, i_axi_rvalid(stale)
  PROVE  /\ out # <<>> /\ arid_fifo # <<>>
         /\ o_axi_arrsp_port_id(stale) = out[1].port
         /\ o_axi_arrsp_port_id(stale) \in Ports
         /\ Oldest(o_axi_arrsp_port_id(stale)) = 1
<1> DEFINE p == o_axi_arrsp_port_id(stale)
<1>1. /\ arid_fifo \in Seq(Ports) /\ out \in Seq(Read) /\ Len(arid_fifo) = Len(out)
      /\ \A k \in 1 .. Len(out) : arid_fifo[k] = out[k].port
  BY DEF ArInv, ArTypeOK, RouteMatches
<1>2. p \in Ports
  BY <1>1 DEF o_axi_arrsp_port_id
<1>3. PICK k \in 1 .. Len(out) : out[k].port = p
  BY <1>2 DEF ArInv, RouteMatches, i_axi_rvalid
<1>4. out # <<>> /\ arid_fifo # <<>> /\ 1 \in 1 .. Len(out)
  BY <1>1, <1>3
<1>5. p = out[1].port
  BY <1>1, <1>4 DEF o_axi_arrsp_port_id
<1>6. Oldest(p) = 1
  <2>1. /\ out[1].port = p /\ \A j \in 1 .. 1 - 1 : out[j].port # p
    BY <1>5
  <2>2. \A n \in 1 .. Len(out) :
          out[n].port = p /\ (\A j \in 1 .. n - 1 : out[j].port # p) => n = 1
    BY <1>5
  <2> QED BY <1>4, <2>1, <2>2 DEF Oldest
<1> QED BY <1>2, <1>4, <1>5, <1>6

\* Taking a beat of the oldest read, and popping the queue if it is the last.
LEMMA BeatKeepsMatch ==
  ASSUME ArInv, out # <<>>, arid_fifo # <<>>
  PROVE  LET v == [rv EXCEPT ![out[1].port] = FALSE]
         IN /\ out[1].left = 1 => Matched(Tail(arid_fifo), BeatTaken(1), v)
            /\ out[1].left # 1 => Matched(arid_fifo, BeatTaken(1), v)
<1> DEFINE v == [rv EXCEPT ![out[1].port] = FALSE]
<1>1. /\ arid_fifo \in Seq(Ports) /\ out \in Seq(Read) /\ Len(arid_fifo) = Len(out)
      /\ \A k \in 1 .. Len(out) : arid_fifo[k] = out[k].port
      /\ rv \in [Ports -> BOOLEAN] /\ 1 \in 1 .. Len(out)
      /\ \A p \in Ports : rv[p] => \E k \in 1 .. Len(out) : out[k].port = p
  <2>1. out \in Seq(Read)
    BY DEF ArInv, ArTypeOK
  <2>2. 1 \in 1 .. Len(out)
    BY <2>1
  <2>3. arid_fifo \in Seq(Ports) /\ rv \in [Ports -> BOOLEAN]
    BY DEF ArInv, ArTypeOK
  <2>4. RouteMatches
    BY DEF ArInv
  <2> QED BY <2>1, <2>2, <2>3, <2>4 DEF RouteMatches
<1>2. out[1] \in Read /\ out[1].port \in Ports /\ out[1].left \in Nat \ {0} /\ out[1].tag \in Tags
  <2>1. out \in Seq(Read) /\ 1 \in 1 .. Len(out)
    BY <1>1
  <2>2. out[1] \in Read
    BY <2>1
  <2> QED BY <2>2 DEF Read
<1>3. /\ v \in [Ports -> BOOLEAN]
      /\ \A p \in Ports : v[p] => \E k \in 2 .. Len(out) : out[k].port = p
  <2>1. v \in [Ports -> BOOLEAN]
    BY <1>1
  <2>2. ASSUME NEW p \in Ports, v[p] PROVE \E k \in 2 .. Len(out) : out[k].port = p
    <3>1. p # out[1].port /\ rv[p]
      BY <1>1, <1>2, <2>2
    <3>2. PICK k \in 1 .. Len(out) : out[k].port = p
      BY <1>1, <3>1
    <3>3. k \in 2 .. Len(out)
      BY <3>1, <3>2
    <3> QED BY <3>2, <3>3
  <2> QED BY <2>1, <2>2
<1> HIDE DEF v
<1>4. CASE out[1].left = 1
  <2> DEFINE q == Tail(arid_fifo)
             o == BeatTaken(1)
  <2>1. o = [j \in 1 .. Len(out) - 1 |-> out[j + 1]]
    BY <1>1, <1>4 DEF BeatTaken
  <2>2. o \in Seq(Read) /\ Len(o) = Len(out) - 1 /\ \A j \in 1 .. Len(o) : o[j] = out[j + 1]
    BY <1>1, <2>1
  <2>3. q \in Seq(Ports) /\ Len(q) = Len(out) - 1 /\ \A j \in 1 .. Len(q) : q[j] = arid_fifo[j + 1]
    BY <1>1
  <2> HIDE DEF o, q
  <2>4. \A k \in 1 .. Len(o) : q[k] = o[k].port
    BY <1>1, <2>2, <2>3
  <2>5. ASSUME NEW p \in Ports, v[p] PROVE \E k \in 1 .. Len(o) : o[k].port = p
    <3>1. PICK k \in 2 .. Len(out) : out[k].port = p
      BY <1>3, <2>5
    <3>2. k - 1 \in 1 .. Len(o) /\ o[k - 1].port = p
      BY <1>1, <2>2, <3>1
    <3> QED BY <3>2
  <2>6. Matched(q, o, v)
    BY <1>3, <2>2, <2>3, <2>4, <2>5 DEF Matched
  <2> QED BY <1>4, <2>6 DEF q, o, v
<1>5. CASE out[1].left # 1
  <2> DEFINE r == [port |-> out[1].port, left |-> out[1].left - 1, tag |-> out[1].tag]
             o == BeatTaken(1)
  <2>1. r \in Read /\ r.port = out[1].port
    BY <1>2, <1>5 DEF Read
  <2>2. o = [out EXCEPT ![1] = r]
    BY <1>5 DEF BeatTaken
  <2>3. /\ o \in Seq(Read) /\ Len(o) = Len(out)
        /\ \A k \in 1 .. Len(out) : o[k].port = out[k].port
    <3> HIDE DEF o, r
    <3>1. o \in Seq(Read) /\ Len(o) = Len(out)
      BY <1>1, <2>1, <2>2
    <3>2. \A k \in 1 .. Len(out) : o[k] = IF k = 1 THEN r ELSE out[k]
      BY <1>1, <2>2
    <3> QED BY <2>1, <3>1, <3>2
  <2> HIDE DEF o, r
  <2>4. Matched(arid_fifo, o, v)
    <3>1. ASSUME NEW p \in Ports, v[p] PROVE \E k \in 1 .. Len(o) : o[k].port = p
      <4>1. PICK k \in 2 .. Len(out) : out[k].port = p
        BY <1>3, <3>1
      <4> QED BY <1>1, <2>3, <4>1
    <3> QED BY <1>1, <1>3, <2>3, <3>1 DEF Matched
  <2> QED BY <1>5, <2>4 DEF o, v
<1> QED BY <1>4, <1>5

\* Accepting an address adds its slave to the queue and its read to the list.
LEMMA AddressKeepsMatch ==
  ASSUME NEW q, NEW o, NEW v, Matched(q, o, v), NEW r \in Read
  PROVE  Matched(Append(q, r.port), Append(o, r), v)
<1>1. /\ q \in Seq(Ports) /\ o \in Seq(Read) /\ Len(q) = Len(o) /\ r.port \in Ports
      /\ \A k \in 1 .. Len(o) : q[k] = o[k].port
  BY DEF Matched, Read
<1> DEFINE q2 == Append(q, r.port)
           o2 == Append(o, r)
<1>2. /\ q2 \in Seq(Ports) /\ Len(q2) = Len(q) + 1
      /\ \A k \in 1 .. Len(q) : q2[k] = q[k]
      /\ q2[Len(q) + 1] = r.port
  BY <1>1, AppendProperties
<1>3. /\ o2 \in Seq(Read) /\ Len(o2) = Len(o) + 1
      /\ \A k \in 1 .. Len(o) : o2[k] = o[k]
      /\ o2[Len(o) + 1] = r
  BY <1>1, AppendProperties
<1>4. Len(o) \in Nat
  BY <1>1, LenProperties
<1> HIDE DEF q2, o2
<1>5. \A k \in 1 .. Len(o2) : q2[k] = o2[k].port
  <2> SUFFICES ASSUME NEW k \in 1 .. Len(o2) PROVE q2[k] = o2[k].port
    OBVIOUS
  <2>1. CASE k \in 1 .. Len(o)
    BY <1>1, <1>2, <1>3, <2>1
  <2>2. CASE k = Len(o) + 1
    BY <1>1, <1>2, <1>3, <2>2
  <2> QED BY <1>3, <1>4, <2>1, <2>2
<1>6. ASSUME NEW p \in Ports, v[p] PROVE \E k \in 1 .. Len(o2) : o2[k].port = p
  <2>1. PICK k \in 1 .. Len(o) : o[k].port = p
    BY <1>6 DEF Matched
  <2>2. k \in 1 .. Len(o2) /\ o2[k].port = p
    BY <1>3, <1>4, <2>1
  <2> QED BY <2>2
<1>7. Matched(q2, o2, v)
  BY <1>1, <1>2, <1>3, <1>5, <1>6 DEF Matched
<1> QED BY <1>7 DEF q2, o2

\* A clock edge of the splitter keeps the invariant.
LEMMA TickKeepsInv ==
  ASSUME ArInv, NEW arready \in BOOLEAN, NEW rready \in BOOLEAN, Tick(arready, rready)
  PROVE  ArInv'
<1>1. PICK stale \in Ports :
        LET ren == arid_fifo_ren(stale, rready)
            wen == arid_fifo_wen(arready, ren)
            port == o_axi_arrsp_port_id(stale)
            taken == i_axi_rvalid(stale) /\ rready
            rest == IF taken THEN BeatTaken(Oldest(port)) ELSE out
        IN /\ arid_fifo' = FifoNext(arid_fifo, wen, ar[1].port, ren)
           /\ out' = IF wen
                     THEN Append(rest, [port |-> ar[1].port, left |-> ar[1].len, tag |-> tag])
                     ELSE rest
           /\ ar' = IF wen THEN <<>> ELSE ar
           /\ tag' = IF wen THEN (tag + 1) % 2 ELSE tag
           /\ rv' = IF taken THEN [rv EXCEPT ![port] = FALSE] ELSE rv
  BY DEF Tick
<1> DEFINE ren == arid_fifo_ren(stale, rready)
           wen == arid_fifo_wen(arready, ren)
           port == o_axi_arrsp_port_id(stale)
           taken == i_axi_rvalid(stale) /\ rready
           rest == IF taken THEN BeatTaken(Oldest(port)) ELSE out
           q == IF ren /\ arid_fifo # <<>> THEN Tail(arid_fifo) ELSE arid_fifo
           r == [port |-> ar[1].port, left |-> ar[1].len, tag |-> tag]
<1>2. Matched(q, rest, rv')
  <2>1. CASE taken
    <3>1. /\ out # <<>> /\ arid_fifo # <<>> /\ port = out[1].port /\ Oldest(port) = 1
      BY <2>1, HeadOwnsR
    <3>2. ren <=> out[1].left = 1
      BY <2>1, <3>1 DEF arid_fifo_ren, i_axi_rlast
    <3>3. rest = BeatTaken(1) /\ rv' = [rv EXCEPT ![out[1].port] = FALSE]
      BY <1>1, <2>1, <3>1
    <3> QED BY <3>1, <3>2, <3>3, BeatKeepsMatch
  <2>2. CASE ~taken
    <3>1. ~ren /\ rest = out /\ rv' = rv
      BY <1>1, <2>2 DEF arid_fifo_ren
    <3> QED BY <3>1 DEF ArInv, ArTypeOK, RouteMatches, Matched
  <2> QED BY <2>1, <2>2
<1>3. /\ arid_fifo' = IF wen THEN Append(q, ar[1].port) ELSE q
      /\ out' = IF wen THEN Append(rest, r) ELSE rest
      /\ ar' = IF wen THEN <<>> ELSE ar
      /\ tag' = IF wen THEN (tag + 1) % 2 ELSE tag
  BY <1>1 DEF FifoNext
<1>4. wen => r \in Read /\ r.port = ar[1].port
  <2>1. wen => \E p \in Ports, l \in Lens : ar = <<[port |-> p, len |-> l]>>
    BY DEF arid_fifo_wen, ArInv, ArTypeOK
  <2>2. tag \in Tags /\ \A l \in Lens : l \in Nat \ {0}
    BY ArAssumption DEF ArInv, ArTypeOK
  <2>3. ASSUME wen PROVE r \in Read
    <3>1. PICK p \in Ports, l \in Lens : ar = <<[port |-> p, len |-> l]>>
      BY <2>1, <2>3
    <3>2. ar[1].port = p /\ ar[1].len = l
      BY <3>1
    <3> QED BY <2>2, <3>2 DEF Read
  <2> QED BY <2>3
<1>5. Len(q) <= OutsNum /\ (wen => Len(q) < OutsNum)
  <2>1. arid_fifo \in Seq(Ports) /\ Len(arid_fifo) \in Nat /\ Len(arid_fifo) <= OutsNum
    BY DEF ArInv, ArTypeOK
  <2>2. arid_fifo # <<>> => Len(Tail(arid_fifo)) = Len(arid_fifo) - 1
    BY <2>1
  <2>3. wen => Len(arid_fifo) < OutsNum \/ (OutsNum = 1 /\ ren)
    BY DEF arid_fifo_wen, arid_fifo_i_ready, FifoReady
  <2>4. CASE ren /\ arid_fifo # <<>>
    <3>1. Len(q) = Len(arid_fifo) - 1
      BY <2>2, <2>4
    <3> HIDE DEF q, wen, ren
    <3> QED BY <2>1, <2>3, <3>1, ArAssumption
  <2>5. CASE ~(ren /\ arid_fifo # <<>>)
    <3>1. q = arid_fifo
      BY <2>5
    <3>2. ren => Len(arid_fifo) = 0
      BY <2>5
    <3> HIDE DEF q, wen, ren
    <3> QED BY <2>1, <2>3, <3>1, <3>2, ArAssumption
  <2> QED BY <2>4, <2>5
<1> HIDE DEF ren, wen, port, taken, rest, q, r
<1>6. Matched(arid_fifo', out', rv') /\ Len(arid_fifo') <= OutsNum
  <2>1. CASE wen
    <3>1. arid_fifo' = Append(q, r.port) /\ out' = Append(rest, r)
      BY <1>3, <1>4, <2>1
    <3>2. Matched(Append(q, r.port), Append(rest, r), rv')
      BY <1>2, <1>4, <2>1, AddressKeepsMatch
    <3>3. Len(Append(q, r.port)) = Len(q) + 1 /\ Len(q) \in Nat
      BY <1>2, <1>4, <2>1, AppendProperties, LenProperties DEF Matched, Read
    <3> QED BY <1>5, <2>1, <3>1, <3>2, <3>3, ArAssumption
  <2>2. CASE ~wen
    BY <1>2, <1>3, <1>5, <2>2
  <2> QED BY <2>1, <2>2
<1>7. /\ ar' = <<>> \/ \E p \in Ports, l \in Lens : ar' = <<[port |-> p, len |-> l]>>
      /\ tag' \in Tags
  BY <1>3 DEF ArInv, ArTypeOK, Tags
<1> QED BY <1>6, <1>7 DEF ArInv, ArTypeOK, RouteMatches, Matched

\* The queue of slave numbers and the outstanding reads agree, in every state.
THEOREM RoutesCorrect == ArSpec => [](ArTypeOK /\ RouteMatches)
<1>1. ArInit => ArInv
  BY ArAssumption DEF ArInit, ArInv, ArTypeOK, RouteMatches, Tags
<1>2. ArInv /\ [ArNext]_arVars => ArInv'
  <2> SUFFICES ASSUME ArInv, [ArNext]_arVars PROVE ArInv'
    OBVIOUS
  <2>1. ASSUME NEW p \in Ports, NEW l \in Lens, BeginRead(p, l) PROVE ArInv'
    BY <2>1 DEF BeginRead, ArInv, ArTypeOK, RouteMatches
  <2>2. ASSUME NEW p \in Ports, RaiseR(p) PROVE ArInv'
    BY <2>2 DEF RaiseR, ArInv, ArTypeOK, RouteMatches
  <2>3. ASSUME NEW arready \in BOOLEAN, NEW rready \in BOOLEAN, Tick(arready, rready)
        PROVE  ArInv'
    BY <2>3, TickKeepsInv
  <2>4. CASE UNCHANGED arVars
    BY <2>4 DEF arVars, ArInv, ArTypeOK, RouteMatches
  <2> QED BY <2>1, <2>2, <2>3, <2>4 DEF ArNext
<1>3. ArInv <=> ArTypeOK /\ RouteMatches
  BY DEF ArInv
<1> QED BY <1>1, <1>2, <1>3, PTL DEF ArSpec

\* Every beat that reaches the master belongs to its oldest outstanding read,
\* for any number of slaves, any burst lengths and any FIFO_OUTS_NUM.
THEOREM ReadsInOrderCorrect == ArSpec => []ReadsInOrder
<1>1. ArTypeOK /\ RouteMatches => ReadsInOrder
  BY HeadOwnsR DEF ArInv, ReadsInOrder
<1> QED BY <1>1, RoutesCorrect, PTL

(* ----------------------- the clock-domain crossing ----------------------- *)

(***************************************************************************)
(* The clock-domain crossing implements the abstract channel, for every      *)
(* depth of the synchronisers and every set of words.                        *)
(***************************************************************************)

\* What one more clock edge makes of a synchroniser.
LEMMA ShiftType ==
  ASSUME NEW s \in [Stages -> BOOLEAN], NEW b \in BOOLEAN
  PROVE  Shifted(s, b) \in [Stages -> BOOLEAN]
<1>1. \A k \in Stages : k # 1 => k - 1 \in Stages
  BY CdcAssumption DEF Stages
<1>2. QED
  BY <1>1 DEF Shifted

\* What a flop of the synchroniser has after a clock edge.
LEMMA ShiftAt ==
  ASSUME NEW s \in [Stages -> BOOLEAN], NEW b \in BOOLEAN, NEW k \in Stages
  PROVE  Shifted(s, b)[k] = IF k = 1 THEN b ELSE s[k - 1]
BY DEF Shifted

\* Feeding a synchroniser the value all its flops have changes nothing.
LEMMA ShiftKeeps ==
  ASSUME NEW s \in [Stages -> BOOLEAN], NEW b \in BOOLEAN, AllFlops(s, b)
  PROVE  AllFlops(Shifted(s, b), b)
<1>1. \A k \in Stages : k # 1 => k - 1 \in Stages
  BY CdcAssumption DEF Stages
<1>2. QED
  BY <1>1, ShiftAt DEF AllFlops

\* A synchroniser that is filling with ones keeps filling; one that is filling
\* with zeros too.
LEMMA ShiftRises ==
  ASSUME NEW s \in [Stages -> BOOLEAN], Rising(s)
  PROVE  Rising(Shifted(s, TRUE))
<1> SUFFICES ASSUME NEW j \in Stages, NEW k \in Stages, j <= k, Shifted(s, TRUE)[k]
             PROVE  Shifted(s, TRUE)[j]
  BY DEF Rising
<1>1. CASE j = 1
  BY <1>1, ShiftAt
<1>2. CASE j # 1
  <2>1. k # 1 /\ j - 1 \in Stages /\ k - 1 \in Stages /\ j - 1 <= k - 1
    BY <1>2, CdcAssumption DEF Stages
  <2>2. s[k - 1]
    BY <2>1, ShiftAt
  <2>3. s[j - 1]
    BY <2>1, <2>2 DEF Rising
  <2>4. QED
    BY <2>3, <1>2, ShiftAt
<1>3. QED
  BY <1>1, <1>2

\* A low value that comes in leaves a falling synchroniser falling.
LEMMA ShiftFalls ==
  ASSUME NEW s \in [Stages -> BOOLEAN], Falling(s)
  PROVE  Falling(Shifted(s, FALSE))
<1> SUFFICES ASSUME NEW j \in Stages, NEW k \in Stages, j <= k, Shifted(s, FALSE)[j]
             PROVE  Shifted(s, FALSE)[k]
  BY DEF Falling
<1>1. j # 1
  BY ShiftAt
<1>2. k # 1 /\ j - 1 \in Stages /\ k - 1 \in Stages /\ j - 1 <= k - 1
  BY <1>1, CdcAssumption DEF Stages
<1>3. s[j - 1]
  BY <1>1, ShiftAt
<1>4. s[k - 1]
  BY <1>2, <1>3 DEF Falling
<1>5. QED
  BY <1>2, <1>4, ShiftAt

\* All flops agree: the synchroniser may start to change either way; its last flop
\* changed: the change is complete.
LEMMA FlopsMonotone ==
  ASSUME NEW s \in [Stages -> BOOLEAN]
  PROVE  /\ AllFlops(s, FALSE) => Rising(s)
         /\ AllFlops(s, TRUE) => Falling(s)
         /\ Rising(s) /\ s[SYNC_DP] => AllFlops(s, TRUE)
         /\ Falling(s) /\ ~s[SYNC_DP] => AllFlops(s, FALSE)
<1>1. SYNC_DP \in Stages /\ \A k \in Stages : k <= SYNC_DP
  BY CdcAssumption DEF Stages
<1>2. AllFlops(s, FALSE) => Rising(s)
  BY DEF AllFlops, Rising
<1>3. AllFlops(s, TRUE) => Falling(s)
  BY DEF AllFlops, Falling
<1>4. Rising(s) /\ s[SYNC_DP] => AllFlops(s, TRUE)
  BY <1>1 DEF AllFlops, Rising
<1>5. Falling(s) /\ ~s[SYNC_DP] => AllFlops(s, FALSE)
  BY <1>1 DEF AllFlops, Falling
<1>6. QED
  BY <1>2, <1>3, <1>4, <1>5

\* At most two words are under way.
LEMMA TwoWords ==
  ASSUME NEW S, NEW a \in S, NEW b \in S
  PROVE  /\ Append(<<>>, a) = <<a>> /\ Append(<<a>>, b) = <<a, b>>
         /\ Tail(<<a>>) = <<>> /\ Tail(<<a, b>>) = <<b>>
         /\ Head(<<a>>) = a /\ Head(<<a, b>>) = a
<1>1. <<>> \in Seq(S) /\ <<a>> \in Seq(S) /\ <<a, b>> \in Seq(S)
  OBVIOUS
<1>2. Append(<<>>, a) = <<a>>
  OBVIOUS
<1>3. Append(<<a>>, b) = <<a, b>>
  <2> DEFINE s == Append(<<a>>, b)
             t == <<a, b>>
  <2>1. s \in Seq(S) /\ t \in Seq(S) /\ Len(s) = 2 /\ Len(t) = 2
    BY <1>1
  <2>2. s[1] = a /\ s[2] = b /\ t[1] = a /\ t[2] = b
    BY <1>1
  <2>3. \A k \in 1 .. Len(s) : s[k] = t[k]
    BY <2>1, <2>2
  <2> HIDE DEF s, t
  <2>4. s = t
    BY <2>1, <2>3, SeqEqual
  <2>5. QED
    BY <2>4 DEF s, t
<1>4. Tail(<<a>>) = <<>>
  OBVIOUS
<1>5. Tail(<<a, b>>) = <<b>>
  OBVIOUS
<1>6. Head(<<a>>) = a /\ Head(<<a, b>>) = a
  OBVIOUS
<1>7. QED
  BY <1>2, <1>3, <1>4, <1>5, <1>6

\* The reset state.
LEMMA CdcInitInv == CdcInit => CdcInv
<1> SUFFICES ASSUME CdcInit PROVE CdcInv
  OBVIOUS
<1>1. CdcTypeOK
  <2>1. [k \in Stages |-> FALSE] \in [Stages -> BOOLEAN]
    OBVIOUS
  <2>2. <<>> \in Seq(Words)
    OBVIOUS
  <2>3. /\ vld_r \in BOOLEAN /\ nrdy_r \in BOOLEAN /\ i_rdy_r \in BOOLEAN
        /\ o_rdy_sync_r \in BOOLEAN /\ i_vld_sync_r \in BOOLEAN
        /\ buf_vld_r \in BOOLEAN
    BY Zenon DEF CdcInit
  <2>4. /\ dat_r \in Words \cup {NoWord} /\ buf_dat_r \in Words \cup {NoWord}
        /\ o_rdy_s \in [Stages -> BOOLEAN] /\ i_vld_s \in [Stages -> BOOLEAN]
        /\ inflight \in Seq(Words)
    BY <2>1, <2>2 DEF CdcInit
  <2>5. QED
    BY <2>3, <2>4 DEF CdcTypeOK
<1>2. WordsAccounted
  BY DEF CdcInit, WordsAccounted, Waiting
<1>3. Idle
  <2>1. AllFlops(o_rdy_s, FALSE) /\ AllFlops(i_vld_s, FALSE)
    BY Zenon DEF CdcInit, AllFlops
  <2>2. QED
    BY <2>1 DEF CdcInit, Idle
<1>4. QED
  BY <1>1, <1>2, <1>3 DEF CdcInit, CdcInv

\* An accepted word waits in the sender, behind the one in the receiver's buffer.
LEMMA AcceptAccounted ==
  ASSUME WordsAccounted, CdcTypeOK, ~vld_r, NEW w \in Words,
         buf_vld_r => buf_dat_r \in Words,
         inflight' = Append(inflight, w), vld_r', dat_r' = w,
         ~i_rdy_r', buf_vld_r' = buf_vld_r, buf_dat_r' = buf_dat_r
  PROVE  WordsAccounted'
<1>1. inflight = IF buf_vld_r THEN <<buf_dat_r>> ELSE <<>>
  BY DEF WordsAccounted, Waiting
<1>2. inflight' = IF buf_vld_r THEN <<buf_dat_r, w>> ELSE <<w>>
  BY <1>1, TwoWords
<1>3. QED
  BY <1>2 DEF WordsAccounted, Waiting

\* A tick of the sender's clock.
LEMMA IClkInv ==
  ASSUME CdcInv, NEW w \in Words \cup {NoWord}, IClk(w)
  PROVE  CdcInv'
<1> DEFINE vld_set == w # NoWord /\ i_rdy
<1>1. CdcTypeOK /\ SYNC_DP \in Stages
  BY CdcAssumption DEF CdcInv, Stages
<1>2. /\ vld_r' = (vld_set \/ (vld_r /\ ~vld_clr))
      /\ nrdy_r' = (vld_set \/ (nrdy_r /\ ~o_rdy_nedge))
      /\ dat_r' = IF vld_set THEN w ELSE dat_r
      /\ o_rdy_s' = Shifted(o_rdy_s, i_rdy_r)
      /\ o_rdy_sync_r' = o_rdy_s[SYNC_DP]
      /\ inflight' = IF vld_set THEN Append(inflight, w) ELSE inflight
      /\ i_vld_s' = i_vld_s /\ i_vld_sync_r' = i_vld_sync_r /\ i_rdy_r' = i_rdy_r
      /\ buf_vld_r' = buf_vld_r /\ buf_dat_r' = buf_dat_r
  BY DEF IClk, rxVars
<1>3. o_rdy_s \in [Stages -> BOOLEAN] /\ i_vld_s \in [Stages -> BOOLEAN]
      /\ i_rdy_r \in BOOLEAN /\ o_rdy_s[SYNC_DP] \in BOOLEAN
  BY <1>1 DEF CdcTypeOK
<1>4. vld_set => w \in Words
  OBVIOUS
<1>5. CdcTypeOK'
  <2>1. o_rdy_s' \in [Stages -> BOOLEAN]
    BY <1>2, <1>3, ShiftType
  <2>2. inflight' \in Seq(Words)
    BY <1>1, <1>2, <1>4 DEF CdcTypeOK
  <2>3. dat_r' \in Words \cup {NoWord}
    BY <1>1, <1>2, <1>4 DEF CdcTypeOK
  <2>4. vld_r' \in BOOLEAN /\ nrdy_r' \in BOOLEAN /\ o_rdy_sync_r' \in BOOLEAN
    BY <1>2, <1>3
  <2>5. QED
    BY <1>1, <1>2, <2>1, <2>2, <2>3, <2>4 DEF CdcTypeOK
<1>6. CASE Idle
  <2>1. ~o_rdy_s[SYNC_DP] /\ i_rdy
    BY <1>1, <1>6 DEF Idle, AllFlops, i_rdy
  <2>2. AllFlops(o_rdy_s', FALSE)
    BY <1>2, <1>3, <1>6, ShiftKeeps DEF Idle
  <2>3. CASE vld_set
    <3>1. Asking'
      BY <1>2, <1>3, <1>6, <2>1, <2>2, <2>3, FlopsMonotone DEF Idle, Asking
    <3>2. WordsAccounted'
      BY <1>1, <1>2, <1>4, <1>6, <2>3, AcceptAccounted DEF CdcInv, Idle
    <3>3. QED
      BY <1>2, <1>4, <1>5, <2>3, <3>1, <3>2 DEF CdcInv
  <2>4. CASE ~vld_set
    <3>1. Idle'
      BY <1>2, <1>6, <2>1, <2>2, <2>4 DEF Idle
    <3>2. WordsAccounted'
      BY <1>2, <1>6, <2>4 DEF CdcInv, Idle, WordsAccounted, Waiting
    <3>3. QED
      BY <1>2, <1>5, <1>6, <2>4, <3>1, <3>2 DEF CdcInv, Idle
  <2>5. QED
    BY <2>3, <2>4
<1>7. CASE Asking
  <2>1. ~o_rdy_s[SYNC_DP] /\ ~i_rdy /\ ~vld_clr /\ ~o_rdy_nedge
    BY <1>1, <1>7 DEF Asking, AllFlops, i_rdy, vld_clr, o_rdy_nedge
  <2>2. AllFlops(o_rdy_s', FALSE)
    BY <1>2, <1>3, <1>7, ShiftKeeps DEF Asking
  <2>3. Asking'
    BY <1>2, <1>7, <2>1, <2>2 DEF Asking, Rising
  <2>4. WordsAccounted'
    BY <1>2, <1>7, <2>1 DEF CdcInv, Asking, WordsAccounted, Waiting
  <2>5. QED
    BY <1>2, <1>5, <2>1, <2>3, <2>4 DEF CdcInv
<1>8. CASE Acknowledged
  <2>1. ~o_rdy_nedge /\ ~i_rdy
    BY <1>8 DEF Acknowledged, o_rdy_nedge, i_rdy
  <2>2. Rising(o_rdy_s')
    BY <1>2, <1>3, <1>8, ShiftRises DEF Acknowledged
  <2>3. WordsAccounted'
    BY <1>2, <1>8, <2>1 DEF CdcInv, Acknowledged, WordsAccounted, Waiting
  <2>4. CASE o_rdy_s[SYNC_DP]
    <3>1. AllFlops(o_rdy_s', TRUE)
      BY <1>2, <1>3, <1>8, <2>4, FlopsMonotone, ShiftKeeps DEF Acknowledged
    <3>2. Withdrawn'
      BY <1>2, <1>3, <1>8, <2>1, <2>4, <3>1, FlopsMonotone
        DEF Acknowledged, Withdrawn, vld_clr
    <3>3. QED
      BY <1>2, <1>5, <2>1, <2>3, <3>2 DEF CdcInv, Withdrawn
  <2>5. CASE ~o_rdy_s[SYNC_DP]
    <3>1. Acknowledged'
      BY <1>2, <1>8, <2>1, <2>2, <2>5 DEF Acknowledged, vld_clr, AllFlops
    <3>2. QED
      BY <1>2, <1>5, <2>1, <2>3, <3>1 DEF CdcInv
  <2>6. QED
    BY <2>4, <2>5
<1>9. CASE Withdrawn
  <2>1. o_rdy_s[SYNC_DP] /\ ~o_rdy_nedge /\ ~i_rdy
    BY <1>1, <1>9 DEF Withdrawn, AllFlops, o_rdy_nedge, i_rdy
  <2>2. AllFlops(o_rdy_s', TRUE)
    BY <1>2, <1>3, <1>9, ShiftKeeps DEF Withdrawn
  <2>3. Withdrawn'
    BY <1>2, <1>9, <2>1, <2>2 DEF Withdrawn, Falling
  <2>4. WordsAccounted'
    BY <1>2, <1>9, <2>1 DEF CdcInv, Withdrawn, WordsAccounted, Waiting
  <2>5. QED
    BY <1>2, <1>5, <2>1, <2>3, <2>4 DEF CdcInv, Withdrawn
<1>10. CASE Draining
  <2>1. Falling(o_rdy_s')
    BY <1>2, <1>3, <1>10, ShiftFalls DEF Draining
  <2>2. CASE o_rdy_s[SYNC_DP]
    <3>1. ~o_rdy_nedge /\ ~i_rdy
      BY <1>10, <2>2 DEF Draining, o_rdy_nedge, i_rdy
    <3>2. Draining'
      BY <1>2, <1>10, <2>1, <2>2, <3>1 DEF Draining, AllFlops
    <3>3. WordsAccounted'
      BY <1>2, <1>10, <3>1 DEF CdcInv, Draining, WordsAccounted, Waiting
    <3>4. QED
      BY <1>2, <1>5, <3>1, <3>2, <3>3 DEF CdcInv, Draining
  <2>3. CASE ~o_rdy_s[SYNC_DP]
    <3>1. o_rdy_nedge /\ i_rdy
      BY <1>10, <2>3 DEF Draining, o_rdy_nedge, i_rdy
    <3>2. AllFlops(o_rdy_s', FALSE)
      BY <1>2, <1>3, <1>10, <2>3, FlopsMonotone, ShiftKeeps DEF Draining
    <3>3. CASE vld_set
      <4>1. Asking'
        BY <1>2, <1>3, <1>10, <2>3, <3>2, <3>3, FlopsMonotone DEF Draining, Asking
      <4>2. WordsAccounted'
        BY <1>1, <1>2, <1>4, <1>10, <3>3, AcceptAccounted DEF CdcInv, Draining
      <4>3. QED
        BY <1>2, <1>4, <1>5, <3>3, <4>1, <4>2 DEF CdcInv
    <3>4. CASE ~vld_set
      <4>1. Idle'
        BY <1>2, <1>10, <2>3, <3>1, <3>2, <3>4 DEF Draining, Idle, AllFlops
      <4>2. WordsAccounted'
        BY <1>2, <1>10, <3>4 DEF CdcInv, Draining, WordsAccounted, Waiting
      <4>3. QED
        BY <1>2, <1>5, <3>4, <4>1, <4>2 DEF CdcInv, Idle
    <3>5. QED
      BY <3>3, <3>4
  <2>4. QED
    BY <2>2, <2>3
<1>11. QED
  BY <1>6, <1>7, <1>8, <1>9, <1>10 DEF CdcInv

\* A tick of the receiver's clock.
LEMMA OClkInv ==
  ASSUME CdcInv, NEW o_rdy \in BOOLEAN, OClk(o_rdy)
  PROVE  CdcInv'
<1> DEFINE buf_vld_clr == buf_vld_r /\ o_rdy
<1>1. CdcTypeOK /\ SYNC_DP \in Stages
  BY CdcAssumption DEF CdcInv, Stages
<1>2. /\ i_vld_s' = Shifted(i_vld_s, vld_r)
      /\ i_vld_sync_r' = i_vld_s[SYNC_DP]
      /\ i_rdy_r' = (i_rdy_set \/ (i_rdy_r /\ ~i_vld_sync_nedge))
      /\ buf_dat_r' = IF i_rdy_set THEN dat_r ELSE buf_dat_r
      /\ buf_vld_r' = (i_rdy_set \/ (buf_vld_r /\ ~buf_vld_clr))
      /\ inflight' = IF buf_vld_clr THEN Tail(inflight) ELSE inflight
      /\ vld_r' = vld_r /\ dat_r' = dat_r /\ nrdy_r' = nrdy_r
      /\ o_rdy_s' = o_rdy_s /\ o_rdy_sync_r' = o_rdy_sync_r
  BY DEF OClk, txVars
<1>3. o_rdy_s \in [Stages -> BOOLEAN] /\ i_vld_s \in [Stages -> BOOLEAN]
      /\ vld_r \in BOOLEAN /\ i_vld_s[SYNC_DP] \in BOOLEAN
  BY <1>1 DEF CdcTypeOK
<1>4. i_rdy_set => ~buf_vld_r /\ ~buf_vld_clr /\ Asking
  <2>1. i_rdy_set => ~i_rdy_r /\ i_vld_s[SYNC_DP] /\ ~buf_vld_r
    BY DEF i_rdy_set
  <2>2. i_rdy_set => ~Idle /\ ~Draining
    BY <1>1, <2>1 DEF Idle, Draining, AllFlops
  <2>3. QED
    BY <2>1, <2>2 DEF CdcInv, Acknowledged, Withdrawn
<1>5. buf_vld_r' => buf_dat_r' \in Words
  <2>1. CASE i_rdy_set
    BY <1>2, <1>4, <2>1 DEF CdcInv, Asking
  <2>2. CASE ~i_rdy_set
    BY <1>2, <2>2 DEF CdcInv
  <2>3. QED
    BY <2>1, <2>2
<1>6. buf_vld_clr => inflight # <<>>
  BY DEF CdcInv, WordsAccounted
<1>7. inflight' \in Seq(Words)
  BY <1>1, <1>2, <1>6 DEF CdcTypeOK
<1>8. CdcTypeOK'
  <2>1. i_vld_s' \in [Stages -> BOOLEAN]
    BY <1>2, <1>3, ShiftType
  <2>2. buf_dat_r' \in Words \cup {NoWord}
    BY <1>1, <1>2 DEF CdcTypeOK
  <2>3. i_rdy_r' \in BOOLEAN /\ buf_vld_r' \in BOOLEAN /\ i_vld_sync_r' \in BOOLEAN
    BY <1>2, <1>3
  <2>4. QED
    BY <1>1, <1>2, <1>7, <2>1, <2>2, <2>3 DEF CdcTypeOK
<1>9. WordsAccounted'
  <2>1. CASE i_rdy_set
    <3>1. inflight = <<dat_r>> /\ vld_r
      BY <1>4, <2>1 DEF CdcInv, Asking, WordsAccounted, Waiting
    <3>2. inflight' = <<dat_r>> /\ i_rdy_r' /\ buf_vld_r' /\ buf_dat_r' = dat_r
      BY <1>2, <1>4, <2>1, <3>1
    <3>3. QED
      BY <3>2 DEF WordsAccounted, Waiting
  <2>2. CASE ~i_rdy_set
    <3>1. vld_r /\ ~i_rdy_r <=> vld_r' /\ ~i_rdy_r'
      <4>1. vld_r /\ i_rdy_r => ~i_vld_sync_nedge
        BY <1>1 DEF CdcInv, Idle, Asking, Acknowledged, Withdrawn, Draining, AllFlops,
                    i_vld_sync_nedge
      <4>2. QED
        BY <1>2, <2>2, <4>1
    <3>2. CASE ~buf_vld_clr
      BY <1>2, <2>2, <3>1, <3>2 DEF CdcInv, WordsAccounted, Waiting
    <3>3. CASE buf_vld_clr
      <4>1. ~buf_vld_r' /\ buf_vld_r /\ inflight' = Tail(inflight) /\ dat_r' = dat_r
        BY <1>2, <2>2, <3>3
      <4>2. inflight = IF Waiting THEN <<buf_dat_r, dat_r>> ELSE <<buf_dat_r>>
        BY <4>1 DEF CdcInv, WordsAccounted
      <4>3. buf_dat_r \in Words /\ (Waiting => dat_r \in Words)
        BY <4>1 DEF CdcInv, Waiting
      <4>4. inflight' = IF Waiting THEN <<dat_r>> ELSE <<>>
        BY <4>1, <4>2, <4>3, TwoWords
      <4>5. QED
        BY <3>1, <4>1, <4>4 DEF WordsAccounted, Waiting
    <3>4. QED
      BY <3>2, <3>3
  <2>3. QED
    BY <2>1, <2>2
<1>10. vld_r' => dat_r' \in Words
  BY <1>2 DEF CdcInv
<1>11. SUFFICES (Idle \/ Asking \/ Acknowledged \/ Withdrawn \/ Draining)'
  BY <1>5, <1>8, <1>9, <1>10 DEF CdcInv
<1>12. CASE Idle
  <2>1. ~i_vld_s[SYNC_DP] /\ AllFlops(i_vld_s', FALSE)
    BY <1>1, <1>2, <1>3, <1>12, ShiftKeeps DEF Idle, AllFlops
  <2>2. ~i_rdy_set
    BY <2>1 DEF i_rdy_set
  <2>3. Idle'
    BY <1>2, <1>12, <2>1, <2>2 DEF Idle, AllFlops
  <2>4. QED
    BY <2>3
<1>13. CASE Asking
  <2>1. Rising(i_vld_s')
    BY <1>2, <1>3, <1>13, ShiftRises DEF Asking
  <2>2. i_vld_s[SYNC_DP] => AllFlops(i_vld_s', TRUE)
    BY <1>2, <1>3, <1>13, FlopsMonotone, ShiftKeeps DEF Asking
  <2>3. CASE i_rdy_set
    <3>1. i_vld_s[SYNC_DP] /\ i_rdy_r'
      BY <1>2, <2>3 DEF i_rdy_set
    <3>2. Acknowledged'
      BY <1>2, <1>3, <1>13, <2>2, <3>1, FlopsMonotone DEF Asking, Acknowledged
    <3>3. QED
      BY <3>2
  <2>4. CASE ~i_rdy_set
    <3>1. i_vld_sync_r' => i_vld_s'[SYNC_DP]
      BY <1>1, <1>2, <2>2 DEF AllFlops
    <3>2. Asking'
      BY <1>2, <1>13, <2>1, <2>4, <3>1 DEF Asking, AllFlops
    <3>3. QED
      BY <3>2
  <2>5. QED
    BY <2>3, <2>4
<1>14. CASE Acknowledged
  <2>1. i_vld_s[SYNC_DP] /\ AllFlops(i_vld_s', TRUE)
    BY <1>1, <1>2, <1>3, <1>14, ShiftKeeps DEF Acknowledged, AllFlops
  <2>2. Acknowledged'
    BY <1>2, <1>14, <2>1 DEF Acknowledged, Rising, i_vld_sync_nedge
  <2>3. QED
    BY <2>2
<1>15. CASE Withdrawn
  <2>1. ~i_rdy_set /\ Falling(i_vld_s')
    BY <1>2, <1>3, <1>15, ShiftFalls DEF Withdrawn, i_rdy_set
  <2>2. CASE i_vld_s[SYNC_DP]
    <3>1. Withdrawn'
      BY <1>2, <1>15, <2>1, <2>2 DEF Withdrawn, i_vld_sync_nedge, AllFlops
    <3>2. QED
      BY <3>1
  <2>3. CASE ~i_vld_s[SYNC_DP]
    <3>1. AllFlops(i_vld_s', FALSE)
      BY <1>2, <1>3, <1>15, <2>3, FlopsMonotone, ShiftKeeps DEF Withdrawn
    <3>2. Draining'
      BY <1>2, <1>3, <1>15, <2>1, <2>3, <3>1, FlopsMonotone
        DEF Withdrawn, Draining, i_vld_sync_nedge
    <3>3. QED
      BY <3>2
  <2>4. QED
    BY <2>2, <2>3
<1>16. CASE Draining
  <2>1. ~i_vld_s[SYNC_DP] /\ AllFlops(i_vld_s', FALSE)
    BY <1>1, <1>2, <1>3, <1>16, ShiftKeeps DEF Draining, AllFlops
  <2>2. ~i_rdy_set
    BY <2>1 DEF i_rdy_set
  <2>3. Draining'
    BY <1>2, <1>16, <2>1, <2>2 DEF Draining, Falling
  <2>4. QED
    BY <2>3
<1>17. QED
  BY <1>12, <1>13, <1>14, <1>15, <1>16 DEF CdcInv

\* The registers of the two domains are always in one of the five phases and hold
\* the words under way, whatever the two clocks do.
THEOREM CdcCorrect == CdcSpec => []CdcInv
<1>1. CdcInv /\ [CdcNext]_cdcVars => CdcInv'
  <2> SUFFICES ASSUME CdcInv, [CdcNext]_cdcVars PROVE CdcInv'
    OBVIOUS
  <2>1. CASE UNCHANGED cdcVars
    BY <2>1 DEF CdcInv, CdcTypeOK, WordsAccounted, Waiting, Idle, Asking, Acknowledged, Withdrawn,
                Draining, AllFlops, Rising, Falling, cdcVars, txVars, rxVars
  <2>2. CASE \E w \in Words \cup {NoWord} : IClk(w)
    BY <2>2, IClkInv
  <2>3. CASE \E o_rdy \in BOOLEAN : OClk(o_rdy)
    BY <2>3, OClkInv
  <2>4. QED
    BY <2>1, <2>2, <2>3 DEF CdcNext
<1>2. QED
  BY <1>1, CdcInitInv, PTL DEF CdcSpec

\* The word register is never written while the receiver may copy it.
THEOREM DataStableCorrect == CdcSpec => []DataStable
<1>1. CdcInv => DataStable
  <2> SUFFICES ASSUME CdcInv, i_rdy_set PROVE nrdy_r /\ ~o_rdy_nedge
    BY DEF DataStable
  <2>1. SYNC_DP \in Stages /\ i_vld_s[SYNC_DP] /\ ~i_rdy_r
    BY CdcAssumption DEF Stages, i_rdy_set
  <2>2. Asking
    BY <2>1 DEF CdcInv, Idle, Acknowledged, Withdrawn, Draining, AllFlops
  <2>3. QED
    BY <2>2 DEF Asking, o_rdy_nedge
<1>2. QED
  BY <1>1, CdcCorrect, PTL

\* A tick of the sender's clock accepts a word or changes nothing for the channel.
LEMMA IClkRefines ==
  ASSUME CdcInv, NEW w \in Words \cup {NoWord}, IClk(w)
  PROVE  [Channel!ChanNext]_(Channel!chanVars)
<1> DEFINE vld_set == w # NoWord /\ i_rdy
           view == IF buf_vld_r THEN buf_dat_r ELSE NoWord
<1>1. view' = view
  BY DEF IClk, rxVars
<1>2. CASE vld_set
  <2>1. w \in Words /\ i_rdy /\ inflight' = Append(inflight, w)
    BY <1>2 DEF IClk
  <2>2. ~vld_r
    BY <2>1 DEF CdcInv, Idle, Asking, Acknowledged, Withdrawn, Draining, i_rdy, o_rdy_nedge
  <2>3. inflight = IF buf_vld_r THEN <<buf_dat_r>> ELSE <<>>
    BY <2>2 DEF CdcInv, WordsAccounted, Waiting
  <2>4. Len(inflight) < 2
    BY <2>3
  <2>5. Channel!Accept(w)
    BY <1>1, <2>1, <2>4 DEF Channel!Accept
  <2>6. QED
    BY <2>1, <2>5 DEF Channel!ChanNext
<1>3. CASE ~vld_set
  <2>1. inflight' = inflight
    BY <1>3 DEF IClk
  <2>2. QED
    BY <1>1, <2>1 DEF Channel!chanVars
<1>4. QED
  BY <1>2, <1>3

\* A tick of the receiver's clock shows a word, hands one over, or does neither.
LEMMA OClkRefines ==
  ASSUME CdcInv, NEW o_rdy \in BOOLEAN, OClk(o_rdy)
  PROVE  [Channel!ChanNext]_(Channel!chanVars)
<1>1. CASE i_rdy_set
  <2>1. SYNC_DP \in Stages /\ i_vld_s[SYNC_DP] /\ ~i_rdy_r /\ ~buf_vld_r
    BY <1>1, CdcAssumption DEF Stages, i_rdy_set
  <2>2. Asking
    BY <2>1 DEF CdcInv, Idle, Acknowledged, Withdrawn, Draining, AllFlops
  <2>3. inflight = <<dat_r>> /\ dat_r \in Words
    BY <2>1, <2>2 DEF CdcInv, Asking, WordsAccounted, Waiting
  <2>4. inflight' = inflight /\ buf_vld_r' /\ buf_dat_r' = dat_r
    BY <1>1, <2>1 DEF OClk
  <2>5. Head(inflight) = dat_r /\ inflight # <<>>
    BY <2>3
  <2>6. Channel!Show
    BY <2>1, <2>4, <2>5 DEF Channel!Show
  <2>7. QED
    BY <2>6 DEF Channel!ChanNext
<1>2. CASE ~i_rdy_set /\ buf_vld_r /\ o_rdy
  <2>1. buf_dat_r # NoWord
    BY <1>2, CdcAssumption DEF CdcInv
  <2>2. inflight' = Tail(inflight) /\ ~buf_vld_r'
    BY <1>2 DEF OClk
  <2>3. Channel!Take
    BY <1>2, <2>1, <2>2 DEF Channel!Take
  <2>4. QED
    BY <2>3 DEF Channel!ChanNext
<1>3. CASE ~i_rdy_set /\ ~(buf_vld_r /\ o_rdy)
  <2>1. inflight' = inflight /\ buf_dat_r' = buf_dat_r /\ (buf_vld_r' <=> buf_vld_r)
    BY <1>3 DEF OClk
  <2>2. QED
    BY <2>1 DEF Channel!chanVars
<1>4. QED
  BY <1>1, <1>2, <1>3

\* The crossing implements the abstract channel: nothing is lost, duplicated,
\* reordered or withdrawn between two clocks that have nothing in common.
THEOREM CdcRefinesChannel == CdcSpec => Channel!ChanSafety
<1>1. CdcInit => Channel!ChanInit
  BY DEF CdcInit, Channel!ChanInit
<1>2. CdcInv /\ [CdcNext]_cdcVars => [Channel!ChanNext]_(Channel!chanVars)
  <2> SUFFICES ASSUME CdcInv, [CdcNext]_cdcVars
               PROVE  [Channel!ChanNext]_(Channel!chanVars)
    OBVIOUS
  <2>1. CASE UNCHANGED cdcVars
    BY <2>1 DEF cdcVars, rxVars, Channel!chanVars
  <2>2. CASE CdcNext
    BY <2>2, IClkRefines, OClkRefines DEF CdcNext
  <2>3. QED
    BY <2>1, <2>2
<1>3. QED
  BY <1>1, <1>2, CdcCorrect, PTL DEF CdcSpec, Channel!ChanSafety

(* ------------------------- the single-cycle RAM -------------------------- *)

(***************************************************************************)
(* Read data of the single-cycle RAM survives a response that waits, for any *)
(* number of banks, any depth and any data.  ReadDataHeld is inductive beside*)
(* the types: a bank's address register and contents move only with its      *)
(* chip select, the chip select needs the command to be accepted, and an     *)
(* accepted command replaces the response.                                   *)
(***************************************************************************)

\* The registers of the controller and of the RAMs hold what their widths allow.
SramTypeOK ==
  /\ mem_r \in [Banks -> [Addrs -> Values]]
  /\ addr_r \in [Banks -> Addrs]
  /\ rsp = <<>> \/ \E c \in Cmds : rsp = <<c>>
  /\ want \in [Banks -> Values]
  /\ cmd \in Cmds \cup {NoCmd}

SramInv == SramTypeOK /\ ReadDataHeld

\* The address register never leaves the memory, where Span is not a multiple
\* of it either: the folded address is one of a word.
LEMMA MirrorInside == ASSUME NEW a \in Addrs PROVE Mirror(a) \in Addrs
  BY SramAssumption DEF Addrs, Mirror

\* A clock edge of the controller keeps the invariant.
LEMMA ClockEdgeKeepsInv ==
  ASSUME SramInv, NEW stall \in BOOLEAN, NEW rsp_ready \in BOOLEAN, ClockEdge(stall, rsp_ready)
  PROVE  SramInv'
<1> DEFINE taken == cmd # NoCmd /\ cmd_ready(stall, rsp_ready)
           cs(b) == ram_cs(b, stall, rsp_ready)
<1>1. CASE ~taken
  <2>1. \A b \in Banks : ~cs(b)
    BY <1>1 DEF ram_cs
  <2>2. mem_r' = mem_r /\ addr_r' = addr_r
    BY <2>1 DEF ClockEdge, SramInv, SramTypeOK
  <2>3. want' = want /\ cmd' = cmd /\ rsp' = IF rsp_ready THEN <<>> ELSE rsp
    BY <1>1 DEF ClockEdge
  <2> QED BY <2>2, <2>3 DEF SramInv, SramTypeOK, ReadDataHeld, rdata
<1>2. CASE taken
  <2>1. /\ cmd \in Cmds /\ rsp' = <<cmd>> /\ cmd' = NoCmd
        /\ \A b \in Banks : cs(b) <=> b \in cmd.sel
    BY <1>2 DEF ClockEdge, ram_cs, SramInv, SramTypeOK
  <2>2. cmd.addr \in Addrs /\ cmd.sel \subseteq Banks /\ cmd.wdata \in [Banks -> Values]
    BY <2>1 DEF Cmds
  <2>3. /\ mem_r' = [b \in Banks |-> IF b \in cmd.sel /\ ~cmd.read
                       THEN [mem_r[b] EXCEPT ![cmd.addr] = cmd.wdata[b]] ELSE mem_r[b]]
        /\ addr_r' = [b \in Banks |-> IF b \notin cmd.sel THEN addr_r[b]
                       ELSE IF cmd.read THEN cmd.addr ELSE Mirror(cmd.addr)]
        /\ want' = IF cmd.read THEN [b \in Banks |-> mem_r[b][cmd.addr]] ELSE want
    BY <1>2, <2>1 DEF ClockEdge
  <2>4. /\ mem_r \in [Banks -> [Addrs -> Values]] /\ addr_r \in [Banks -> Addrs]
        /\ want \in [Banks -> Values]
    BY DEF SramInv, SramTypeOK
  <2>5. mem_r' \in [Banks -> [Addrs -> Values]]
    BY <2>2, <2>3, <2>4
  <2>6. addr_r' \in [Banks -> Addrs]
    BY <2>2, <2>3, <2>4, MirrorInside
  <2>7. want' \in [Banks -> Values]
    BY <2>2, <2>3, <2>4
  <2>8. cmd.read => \A b \in cmd.sel : mem_r'[b][addr_r'[b]] = want'[b]
    BY <2>2, <2>3
  <2>9. rsp'[1] = cmd
    BY <2>1
  <2> QED BY <2>1, <2>5, <2>6, <2>7, <2>8, <2>9 DEF SramInv, SramTypeOK, ReadDataHeld, rdata
<1> QED BY <1>1, <1>2

\* The registers stay within their widths, and the data of a read that waits is still
\* on the outputs of the banks it selected.
LEMMA SramInductive == SramSpec => []SramInv
<1>1. SramInit => SramInv
  BY SramAssumption DEF SramInit, SramInv, SramTypeOK, ReadDataHeld, Addrs
<1>2. SramInv /\ [SramNext]_sramVars => SramInv'
  <2> SUFFICES ASSUME SramInv, [SramNext]_sramVars PROVE SramInv'
    OBVIOUS
  <2>1. CASE Issue
    BY <2>1 DEF Issue, SramInv, SramTypeOK, ReadDataHeld, rdata
  <2>2. ASSUME NEW stall \in BOOLEAN, NEW rsp_ready \in BOOLEAN, ClockEdge(stall, rsp_ready)
        PROVE  SramInv'
    BY <2>2, ClockEdgeKeepsInv
  <2>3. CASE UNCHANGED sramVars
    BY <2>3 DEF sramVars, SramInv, SramTypeOK, ReadDataHeld, rdata
  <2> QED BY <2>1, <2>2, <2>3 DEF SramNext
<1> QED BY <1>1, <1>2, PTL DEF SramSpec

\* The controllers never address a word beyond the RAM, and their registers keep
\* their types (e603_sim_ram's folding of the address included).
THEOREM SramTypeCorrect == SramSpec => []SramTypeOK
<1>1. SramInv => SramTypeOK BY DEF SramInv
<1> QED BY <1>1, SramInductive, PTL

\* The response of a read shows what the selected banks held when the read was
\* accepted, however long the master lets it wait and whatever stands on the
\* command channel meanwhile.
THEOREM ReadDataHeldCorrect == SramSpec => []ReadDataHeld
<1>1. SramInv => ReadDataHeld BY DEF SramInv
<1> QED BY <1>1, SramInductive, PTL

(* ------------------------- start-up and dispatch ------------------------- *)

(***************************************************************************)
(* Start-up and interrupt dispatch for any number of harts and interrupts.   *)
(*                                                                           *)
(* SectionsReady rests on the order of __sync_harts (SyncOrder): as long as the*)
(* boot hart has not loaded the sections, every other hart is before its own *)
(* request or waits with its MSIP bit set.  ServedByRegistered rests on the  *)
(* tables being final once the boot hart is in main (TablesFinal), which needs*)
(* that no other hart runs PLIC_Interrupt_Init.                              *)
(***************************************************************************)

Labels == {"start", "load", "libc", "clear", "ask", "wait", "base", "tables", "clint",
           "core", "ext", "extirq", "main", "enable", "run"}

\* Program counters, MSIP bits and the shared variables hold values of the program.
BootTypeOK ==
  /\ build \in Builds
  /\ pc \in [Harts -> Labels]
  /\ msip \in [Harts -> 0 .. 1]
  /\ base \in {"junk", "unset", "set"}
  /\ entry \in {"junk", "null", "default"}
  /\ core \in {"junk", "null", "default", "extirq"}
  /\ table \in [Sources -> {"junk", "null", "default", "user"}]
  /\ enabled \subseteq Sources /\ pending \subseteq Sources

\* Until the boot hart has loaded the sections nobody passes __sync_harts, and a hart
\* that waits there has its bit set; afterwards nothing is uninitialised, and a hart
\* past the wait for the region's base has seen it.
SyncOrder ==
  /\ pc[Boot] \notin {"ask", "wait"}
  /\ pc[Boot] \in {"start", "load", "libc"} =>
       \A h \in Harts \ {Boot} : pc[h] \in {"start", "ask"} \/ (pc[h] = "wait" /\ msip[h] = 1)
  /\ pc[Boot] \notin {"start", "load"} => base # "junk" /\ entry # "junk"
  /\ \A h \in Harts \ {Boot} : pc[h] \notin {"start", "ask", "wait", "base"} => base = "set"

\* Only harts of the build leave reset, and only with the PLIC do they fill tables.
OnlyPresent ==
  \A h \in Harts : /\ pc[h] # "start" => h \in Present
                   /\ pc[h] \in {"core", "ext", "extirq"} => Plic

\* Nothing is enabled before main, and what is enabled has its handler in the table;
\* in main the way from the trap entry to the table is complete.
TablesFinal ==
  /\ ~InMain(Boot) => enabled = {}
  /\ \A s \in enabled : table[s] = "user"
  /\ Plic /\ pc[Boot] \in {"core", "ext", "extirq", "main", "enable", "run"} =>
       entry = "default"
  /\ Plic /\ InMain(Boot) => core = "extirq"

\* With the PLIC the boot hart is the only one.
OnePlicHart == \A b \in Builds : b.plic => b.harts = {Boot}

SyncInv == BootTypeOK /\ SyncOrder
ServeInv == SyncInv /\ OnlyPresent /\ TablesFinal /\ ServedByRegistered

\* The boot hart is one of the harts that run.
LEMMA BootIsHart == ASSUME BootTypeOK PROVE Boot \in Harts /\ Boot \in Present
  BY BootAssumption DEF BootTypeOK, Present

(* ---------------------------- the invariant of the start-up ------------------- *)

\* SyncInv holds at reset.
LEMMA SyncInitially == BootInit => SyncInv
  BY BootAssumption DEF BootInit, SyncInv, BootTypeOK, SyncOrder, Labels

\* The wait of the other harts in __sync_harts and their release keep SyncInv.
LEMMA SyncStartStep ==
  ASSUME SyncInv, UNCHANGED build, NEW h \in Harts,
         Start(h) \/ AskRelease(h) \/ Released(h)
  PROVE  SyncInv'
<1>1. Boot \in Harts BY BootIsHart DEF SyncInv
<1>2. CASE Start(h) BY <1>1, <1>2 DEF Start, Goto, SyncInv, BootTypeOK, SyncOrder, Labels
<1>3. CASE AskRelease(h) BY <1>1, <1>3 DEF AskRelease, Goto, SyncInv, BootTypeOK, SyncOrder, Labels
<1>4. CASE Released(h) BY <1>1, <1>4 DEF Released, Goto, SyncInv, BootTypeOK, SyncOrder, Labels
<1> QED BY <1>2, <1>3, <1>4

\* The boot hart's own start-up keeps SyncInv.
LEMMA SyncBootStep ==
  ASSUME SyncInv, UNCHANGED build,
         LoadSections \/ LibcInit \/ ExceptionInit \/ MainLoop \/ \E h \in Harts : ClearMsip(h)
  PROVE  SyncInv'
<1>1. Boot \in Harts BY BootIsHart DEF SyncInv
<1>2. CASE LoadSections
  BY <1>1, <1>2 DEF LoadSections, Goto, SyncInv, BootTypeOK, SyncOrder, Labels
<1>3. CASE LibcInit BY <1>1, <1>3 DEF LibcInit, Goto, SyncInv, BootTypeOK, SyncOrder, Labels
<1>4. CASE ExceptionInit
  BY <1>1, <1>4 DEF ExceptionInit, Goto, SyncInv, BootTypeOK, SyncOrder, Labels
<1>5. CASE MainLoop BY <1>1, <1>5 DEF MainLoop, Goto, SyncInv, BootTypeOK, SyncOrder, Labels
<1>6. ASSUME NEW i \in Harts, ClearMsip(i) PROVE SyncInv'
  BY <1>1, <1>6 DEF ClearMsip, Goto, SyncInv, BootTypeOK, SyncOrder, Labels
<1> QED BY <1>2, <1>3, <1>4, <1>5, <1>6

\* Each hart's _premain_init keeps SyncInv.
LEMMA SyncInitStep ==
  ASSUME SyncInv, UNCHANGED build, NEW h \in Harts,
         \/ IRegionBase(h) \/ ECLIC_Interrupt_Init(h)
         \/ CLINT_Interrupt_Init(h) \/ PLIC_Interrupt_Init(h)
  PROVE  SyncInv'
<1>1. Boot \in Harts BY BootIsHart DEF SyncInv
<1>2. CASE IRegionBase(h)
  BY <1>1, <1>2 DEF IRegionBase, Goto, SyncInv, BootTypeOK, SyncOrder, Labels
<1>3. CASE ECLIC_Interrupt_Init(h)
  BY <1>1, <1>3 DEF ECLIC_Interrupt_Init, Goto, SyncInv, BootTypeOK, SyncOrder, Labels
<1>4. CASE CLINT_Interrupt_Init(h)
  BY <1>1, <1>4 DEF CLINT_Interrupt_Init, Goto, SyncInv, BootTypeOK, SyncOrder, Labels
<1>5. CASE PLIC_Interrupt_Init(h)
  BY <1>1, <1>5 DEF PLIC_Interrupt_Init, Goto, SyncInv, BootTypeOK, SyncOrder, Labels
<1> QED BY <1>2, <1>3, <1>4, <1>5

\* Registering, raising and taking interrupts keep SyncInv.
LEMMA SyncIrqStep ==
  ASSUME SyncInv, UNCHANGED build, NEW s \in Sources, Register_IRQ(s) \/ Raise(s) \/ TakeIrq(s)
  PROVE  SyncInv'
<1>1. Boot \in Harts BY BootIsHart DEF SyncInv
<1>2. CASE Register_IRQ(s)
  BY <1>1, <1>2 DEF Register_IRQ, Goto, SyncInv, BootTypeOK, SyncOrder, Labels
<1>3. CASE Raise(s) BY <1>3 DEF Raise, SyncInv, BootTypeOK, SyncOrder
<1>4. CASE TakeIrq(s) BY <1>4 DEF TakeIrq, SyncInv, BootTypeOK, SyncOrder
<1> QED BY <1>2, <1>3, <1>4

\* Every step keeps SyncInv.
LEMMA SyncStep == SyncInv /\ [BootNext]_bootVars => SyncInv'
<1> SUFFICES ASSUME SyncInv, [BootNext]_bootVars PROVE SyncInv'
  OBVIOUS
<1>1. CASE UNCHANGED bootVars BY <1>1 DEF bootVars, SyncInv, BootTypeOK, SyncOrder
<1>2. CASE BootNext BY <1>2, SyncStartStep, SyncBootStep, SyncInitStep, SyncIrqStep DEF BootNext
<1> QED BY <1>1, <1>2

\* For any number of harts and interrupts and any set of builds the start-up stays
\* within its types and in the order of __sync_harts: the inductive invariant.
THEOREM SyncCorrect == BootSpec => [](BootTypeOK /\ SyncOrder)
<1>1. SyncInv <=> BootTypeOK /\ SyncOrder BY DEF SyncInv
<1> QED BY <1>1, SyncInitially, SyncStep, PTL DEF BootSpec

\* No hart runs C code on uninitialised memory, whatever the order in which the harts
\* come out of reset (Punctual or not) and however many there are.
THEOREM SectionsReadyCorrect == BootSpec => []SectionsReady
<1>1. BootTypeOK /\ SyncOrder => SectionsReady
  BY BootIsHart DEF BootTypeOK, SyncOrder, SectionsReady, InMain, Labels
<1> QED BY <1>1, SyncCorrect, PTL

(* ------------------------------ interrupt dispatch ---------------------------- *)

\* The harts that fill tables: only the boot hart, if it is alone with the PLIC.
LEMMA OnlyBootFills ==
  ASSUME OnePlicHart, ServeInv, NEW h \in Harts, Plic, pc[h] # "start"
  PROVE  h = Boot
  BY DEF OnePlicHart, ServeInv, SyncInv, BootTypeOK, OnlyPresent, Present, Plic

\* ServeInv holds at reset.
LEMMA ServeInitially == BootInit => ServeInv
<1> SUFFICES ASSUME BootInit PROVE ServeInv
  OBVIOUS
<1>1. SyncInv BY SyncInitially
<1>2. pc[Boot] = "start" BY <1>1, BootIsHart DEF BootInit, SyncInv
<1> QED BY <1>1, <1>2
    DEF BootInit, ServeInv, OnlyPresent, TablesFinal, ServedByRegistered, InMain

\* The steps that leave the handler tables alone keep ServeInv.
LEMMA ServeStartStep ==
  ASSUME ServeInv, UNCHANGED build, SyncInv',
         \/ LoadSections \/ LibcInit \/ ExceptionInit \/ MainLoop
         \/ \E h \in Harts : Start(h) \/ AskRelease(h) \/ Released(h) \/ IRegionBase(h) \/ ClearMsip(h)
  PROVE  ServeInv'
<1>1. Boot \in Harts /\ Boot \in Present /\ pc \in [Harts -> Labels]
      /\ pc[Boot] \notin {"ask", "wait"}
  BY BootIsHart DEF ServeInv, SyncInv, BootTypeOK, SyncOrder
<1> USE DEF Goto, OnlyPresent, TablesFinal, ServedByRegistered, InMain, Present, Plic
<1>2. CASE LoadSections BY <1>1, <1>2 DEF LoadSections, ServeInv
<1>3. CASE LibcInit BY <1>1, <1>3 DEF LibcInit, ServeInv
<1>4. CASE ExceptionInit BY <1>1, <1>4 DEF ExceptionInit, ServeInv
<1>5. CASE MainLoop BY <1>1, <1>5 DEF MainLoop, ServeInv
<1>6. ASSUME NEW h \in Harts,
             Start(h) \/ AskRelease(h) \/ Released(h) \/ IRegionBase(h) \/ ClearMsip(h)
      PROVE  ServeInv'
  <2>1. CASE Start(h) BY <1>1, <2>1 DEF Start, ServeInv
  <2>2. CASE AskRelease(h) BY <1>1, <2>2 DEF AskRelease, ServeInv
  <2>3. CASE Released(h) BY <1>1, <2>3 DEF Released, ServeInv
  <2>4. CASE IRegionBase(h) BY <1>1, <2>4 DEF IRegionBase, ServeInv
  <2>5. CASE ClearMsip(h) BY <1>1, <2>5 DEF ClearMsip, ServeInv
  <2> QED BY <1>6, <2>1, <2>2, <2>3, <2>4, <2>5
<1> QED BY <1>2, <1>3, <1>4, <1>5, <1>6

\* Filling the tables with default handlers keeps ServeInv: nothing is registered yet.
LEMMA ServeInitStep ==
  ASSUME OnePlicHart, ServeInv, UNCHANGED build, SyncInv', NEW h \in Harts,
         ECLIC_Interrupt_Init(h) \/ CLINT_Interrupt_Init(h) \/ PLIC_Interrupt_Init(h)
  PROVE  ServeInv'
<1>1. Boot \in Harts /\ Boot \in Present /\ pc \in [Harts -> Labels]
  BY BootIsHart DEF ServeInv, SyncInv, BootTypeOK
<1>2. ~ECLIC_Interrupt_Init(h) => Plic /\ h = Boot
  BY OnlyBootFills DEF CLINT_Interrupt_Init, PLIC_Interrupt_Init, ServeInv, OnlyPresent
<1> USE DEF Goto, OnlyPresent, TablesFinal, ServedByRegistered, InMain, Present, Plic
<1>3. CASE ECLIC_Interrupt_Init(h) BY <1>1, <1>3 DEF ECLIC_Interrupt_Init, ServeInv
<1>4. CASE ~ECLIC_Interrupt_Init(h) /\ CLINT_Interrupt_Init(h)
  BY <1>1, <1>2, <1>4 DEF CLINT_Interrupt_Init, ServeInv
<1>5. CASE ~ECLIC_Interrupt_Init(h) /\ PLIC_Interrupt_Init(h)
  BY <1>1, <1>2, <1>5 DEF PLIC_Interrupt_Init, ServeInv
<1> QED BY <1>3, <1>4, <1>5

\* An enabled interrupt reaches the handler in the table.
LEMMA HandlerRegistered ==
  ASSUME ServeInv, InMain(Boot), NEW s \in enabled
  PROVE  Handler(s) = "user"
  BY DEF ServeInv, TablesFinal, InMain, Handler

\* Registering, raising and taking interrupts keep ServeInv.
LEMMA ServeIrqStep ==
  ASSUME ServeInv, UNCHANGED build, SyncInv', NEW s \in Sources,
         Register_IRQ(s) \/ Raise(s) \/ TakeIrq(s)
  PROVE  ServeInv'
<1>1. /\ Boot \in Harts /\ Boot \in Present /\ pc \in [Harts -> Labels]
      /\ table \in [Sources -> {"junk", "null", "default", "user"}] /\ enabled \subseteq Sources
  BY BootIsHart DEF ServeInv, SyncInv, BootTypeOK
<1> USE DEF OnlyPresent, TablesFinal, InMain, Present, Plic
<1>2. CASE Register_IRQ(s) BY <1>1, <1>2 DEF Register_IRQ, Goto, ServeInv, ServedByRegistered
<1>3. CASE Raise(s) BY <1>3 DEF Raise, ServeInv, ServedByRegistered
<1>4. CASE TakeIrq(s)
  <2>1. served'.by = "user" BY <1>4, HandlerRegistered DEF TakeIrq
  <2> QED BY <1>4, <2>1 DEF TakeIrq, ServeInv, ServedByRegistered
<1> QED BY <1>2, <1>3, <1>4

\* Every step keeps ServeInv.
LEMMA ServeStep ==
  ASSUME OnePlicHart
  PROVE  ServeInv /\ [BootNext]_bootVars => ServeInv'
<1> SUFFICES ASSUME ServeInv, [BootNext]_bootVars PROVE ServeInv'
  OBVIOUS
<1>1. SyncInv' BY SyncStep DEF ServeInv
<1>2. CASE UNCHANGED bootVars
  BY <1>1, <1>2 DEF bootVars, ServeInv, OnlyPresent, TablesFinal, ServedByRegistered, InMain,
                    Present, Plic
<1>3. CASE BootNext BY <1>1, <1>3, ServeStartStep, ServeInitStep, ServeIrqStep DEF BootNext
<1> QED BY <1>2, <1>3

\* An interrupt that was registered and enabled is served by its handler, in ECLIC mode
\* with any number of harts and in PLIC mode with one.  With a second hart in PLIC mode
\* it is not: that hart's PLIC_Interrupt_Init may put the default handlers back.
THEOREM ServedByRegisteredCorrect ==
  ASSUME OnePlicHart
  PROVE  BootSpec => []ServedByRegistered
<1>1. ServeInv => ServedByRegistered BY DEF ServeInv
<1> QED BY <1>1, ServeInitially, ServeStep, PTL DEF BootSpec

===============================================================================
