------------------------------ MODULE AxiSpltAw -------------------------------
(***************************************************************************)
(* The write half of the AXI splitter (e603_gnrl_axi_splt_aw in              *)
(* design/soc/e603_subsys_axi_splt.v).  Two queues remember the slave of each *)
(* write: awid_fifo routes the responses back, aw_w_id_fifo routes the data.  *)
(* A write whose data comes in the cycle of its address, with aw_w_id_fifo   *)
(* empty, is routed by the address itself; if it has a single beat it is      *)
(* never queued (aw_w_fifo_bypass).                                         *)
(*                                                                         *)
(* The master drives addresses and data in one order, data no earlier than   *)
(* it has decided on the write, and possibly before the address.  A slave    *)
(* takes no data before its address, and answers its writes in order.  With  *)
(* joint it takes an address and a first beat that are offered together in    *)
(* one cycle or not at all, as e603_gnrl_axi2ficb_aw does.                   *)
(*                                                                         *)
(* Definitions X_suffix are faulty variants of X, as in AxiSpltAr.           *)
(***************************************************************************)
EXTENDS GnrlFifo

CONSTANTS Ports,     \* the slaves: bits of i_axi_aw_indic
          Systems,   \* splitters and their slaves: [lens, outs, cut, joint]
          MaxTodo    \* bound: writes the master has begun and not sent out

\* lens: beats a burst may have (i_axi_awlen + 1); outs: FIFO_OUTS_NUM; cut:
\* FIFO_CUT_READY; joint: slaves take an address and its first beat together.
ASSUME AwAssumption ==
  /\ Ports # {} /\ MaxTodo \in Nat \ {0}
  /\ \A y \in Systems : /\ y.lens \subseteq Nat \ {0} /\ y.outs \in Nat \ {0}
                       /\ y.cut \in BOOLEAN /\ y.joint \in BOOLEAN

Tags == 0 .. 1   \* writes are numbered modulo 2

VARIABLES sys,            \* the system (never changes)
          awid_fifo,      \* slave of each write that waits for its response
          aw_w_id_fifo,   \* slave of each write that waits for its data
          todo,           \* master: writes begun, data not all sent: [port, len, left]
          unsent,         \* master: the last write of todo has its address still to go
          awv, wv,        \* i_axi_awvalid, i_axi_wvalid
          resp,           \* slaves: writes accepted, not answered: [port, left, tag]
          bv,             \* which slaves drive BVALID
          tag             \* number of the next write

awVars == <<sys, awid_fifo, aw_w_id_fifo, todo, unsent, awv, wv, resp, bv, tag>>

AwInit ==
  /\ sys \in Systems
  /\ awid_fifo = <<>> /\ aw_w_id_fifo = <<>>
  /\ todo = <<>> /\ unsent = FALSE
  /\ awv = FALSE /\ wv = FALSE
  /\ resp = <<>>
  /\ bv = [p \in Ports |-> FALSE]
  /\ tag = 0

aw == todo[Len(todo)]   \* the write on the AW channel when awv
w == todo[1]            \* the write whose beat is on the W channel when wv

(* ------------------------- wires of the splitter ------------------------ *)

aw_w_same_cycle == aw_w_id_fifo = <<>> /\ awv /\ wv

\* Only a single-beat write bypasses the queue.
aw_w_fifo_bypass_any_len == aw_w_same_cycle
aw_w_fifo_bypass == aw_w_same_cycle /\ aw.len = 1

\* Data is held back when neither the queue nor the AW channel says where to.
aw_w_block == aw_w_id_fifo = <<>> /\ ~aw_w_same_cycle

\* The slave the W channel is connected to (when not blocked).
i_axi_w_indic_by_aw == IF awv THEN aw.port ELSE Head(aw_w_id_fifo)
i_axi_w_indic == IF aw_w_same_cycle THEN aw.port ELSE Head(aw_w_id_fifo)

\* o_axi_wvalid of some slave.
o_axi_wvalid == wv /\ ~aw_w_block

i_axi_wlast == w.left = 1

\* The slave the B channel is connected to; not masked when the queue is empty.
o_axi_awrsp_port_id_data(stale) ==
  IF aw_w_id_fifo = <<>> THEN stale ELSE Head(aw_w_id_fifo)
o_axi_awrsp_port_id(stale) == IF awid_fifo = <<>> THEN stale ELSE Head(awid_fifo)
i_axi_bvalid(stale) == bv[o_axi_awrsp_port_id(stale)]

(* ------------------------- the slaves ------------------------------------ *)

\* The write slave p expects data for: its oldest one with beats missing.
Missing(p) == {k \in 1 .. Len(resp) : resp[k].port = p /\ resp[k].left > 0}
Filling(p) == CHOOSE k \in Missing(p) : \A j \in Missing(p) : k <= j

\* The write slave p answers: its oldest one.
Oldest(p) == CHOOSE k \in 1 .. Len(resp) : /\ resp[k].port = p
                                           /\ \A j \in 1 .. k - 1 : resp[j].port # p

\* awready of the addressed slave, which sees o_axi_awvalid in this cycle.
SlaveTakesAw(awready, wready) ==
  awready /\ (sys.joint /\ o_axi_wvalid /\ i_axi_w_indic = aw.port /\ Missing(aw.port) = {}
                => wready)

(* ------------------------- steps ----------------------------------------- *)

\* The master decides on a write of l beats to slave p.
BeginWrite(p, l) ==
  /\ ~unsent /\ Len(todo) < MaxTodo
  /\ todo' = Append(todo, [port |-> p, len |-> l, left |-> l])
  /\ unsent' = TRUE
  /\ UNCHANGED <<awid_fifo, aw_w_id_fifo, awv, wv, resp, bv, tag>>

RaiseAw ==
  /\ unsent /\ ~awv
  /\ awv' = TRUE
  /\ UNCHANGED <<awid_fifo, aw_w_id_fifo, todo, unsent, wv, resp, bv, tag>>

RaiseW ==
  /\ todo # <<>> /\ ~wv
  /\ wv' = TRUE
  /\ UNCHANGED <<awid_fifo, aw_w_id_fifo, todo, unsent, awv, resp, bv, tag>>

RaiseB(p) ==
  /\ ~bv[p]
  /\ \E k \in 1 .. Len(resp) : resp[k].port = p
  /\ resp[Oldest(p)].left = 0
  /\ bv' = [bv EXCEPT ![p] = TRUE]
  /\ UNCHANGED <<awid_fifo, aw_w_id_fifo, todo, unsent, awv, wv, resp, tag>>

\* The writes r without the k-th, and after a beat for slave p.
Without(r, k) == [j \in 1 .. Len(r) - 1 |-> IF j < k THEN r[j] ELSE r[j + 1]]
WithBeat(r, p) ==
  LET m == {j \in 1 .. Len(r) : r[j].port = p /\ r[j].left > 0}
      f == CHOOSE j \in m : \A i \in m : j <= i
  IN [r EXCEPT ![f].left = @ - 1]

\* What the slaves hold once slave b has been answered (when bHsk), an address
\* has come (awHsk) and a beat has come to slave i_axi_w_indic (wHsk).
SlavesAfter(b, bHsk, awHsk, wHsk) ==
  LET left == IF bHsk THEN Without(resp, Oldest(b)) ELSE resp
      came == IF awHsk THEN Append(left, [port |-> aw.port, left |-> aw.len, tag |-> tag])
              ELSE left
  IN IF wHsk THEN WithBeat(came, i_axi_w_indic) ELSE came

Tick(awready, wready, bready) ==
  \E stale \in Ports :
    LET bport == o_axi_awrsp_port_id(stale)
        awid_fifo_ren == i_axi_bvalid(stale) /\ bready
        awid_room == FifoReady(awid_fifo, sys.outs, sys.cut, awid_fifo_ren)
        \* with outs = 1 and ~cut the last beat makes room for an address;
        \* that beat then belongs to an address queued before
        lastGoes == /\ o_axi_wvalid /\ wready /\ i_axi_wlast /\ ~aw_w_fifo_bypass
                    /\ Missing(i_axi_w_indic) # {}
        awHsk == /\ awv /\ awid_room
                 /\ FifoReady(aw_w_id_fifo, sys.outs, sys.cut, lastGoes)
                 /\ SlaveTakesAw(awready, wready)
        wHsk == /\ o_axi_wvalid /\ wready
                /\ Missing(i_axi_w_indic) # {} \/ (awHsk /\ aw.port = i_axi_w_indic)
        aw_w_id_fifo_wen == awHsk /\ ~aw_w_fifo_bypass
        aw_w_id_fifo_ren == wHsk /\ i_axi_wlast /\ ~aw_w_fifo_bypass
        \* awid_fifo_bypass: a response in the cycle of the first address
        awid_fifo_bypass == awid_fifo = <<>> /\ awHsk /\ awid_fifo_ren
    IN /\ awid_fifo' = FifoNext(awid_fifo, awHsk /\ ~awid_fifo_bypass, aw.port,
                                awid_fifo_ren /\ ~awid_fifo_bypass)
       /\ aw_w_id_fifo' = FifoNext(aw_w_id_fifo, aw_w_id_fifo_wen, aw.port, aw_w_id_fifo_ren)
       /\ resp' = SlavesAfter(bport, awid_fifo_ren, awHsk, wHsk)
       /\ bv' = IF awid_fifo_ren THEN [bv EXCEPT ![bport] = FALSE] ELSE bv
       /\ awv' = (awv /\ ~awHsk)
       /\ unsent' = (unsent /\ ~awHsk)
       /\ wv' = (wv /\ ~wHsk)
       /\ todo' = IF ~wHsk THEN todo
                  ELSE IF i_axi_wlast THEN Tail(todo)
                  ELSE [todo EXCEPT ![1].left = @ - 1]
       /\ tag' = IF awHsk THEN (tag + 1) % 2 ELSE tag

AwNext ==
  /\ \/ \E p \in Ports, l \in sys.lens : BeginWrite(p, l)
     \/ RaiseAw
     \/ RaiseW
     \/ \E p \in Ports : RaiseB(p)
     \/ \E awready, wready, bready \in BOOLEAN : Tick(awready, wready, bready)
  /\ UNCHANGED sys

AwSpec == AwInit /\ [][AwNext]_awVars

\* The master sends what it has begun and takes responses, and slaves accept
\* and answer, in the end.
AwFairSpec == /\ AwSpec
              /\ WF_awVars(Tick(TRUE, TRUE, TRUE) /\ UNCHANGED sys)
              /\ WF_awVars(RaiseAw /\ UNCHANGED sys) /\ WF_awVars(RaiseW /\ UNCHANGED sys)
              /\ \A p \in Ports : WF_awVars(RaiseB(p) /\ UNCHANGED sys)

(* ------------------------- properties ------------------------------------ *)

\* A beat that is offered to a slave is offered to the slave its own write is
\* addressed to, whether the address came before it or comes with it.
WriteDataRouted == o_axi_wvalid => i_axi_w_indic = w.port

\* A slave that waits for data is waiting for the data the master sends next
\* to it: the write it is filling has as many beats left as the master's oldest
\* unfinished write to it.
WriteDataComplete ==
  \A p \in Ports : Missing(p) # {} =>
    \E k \in 1 .. Len(todo) :
      /\ todo[k].port = p /\ todo[k].left = resp[Filling(p)].left
      /\ \A j \in 1 .. k - 1 : todo[j].port # p

\* A response that reaches the master is the one of its oldest write, and all
\* data of that write has been delivered.
ResponsesInOrder ==
  \A stale \in Ports :
    i_axi_bvalid(stale) => /\ resp # <<>> /\ resp[1].port = o_axi_awrsp_port_id(stale)
                           /\ resp[1].left = 0

\* Every write whose address was accepted gets its response.
EveryWriteAnswered ==
  \A t \in Tags : (resp # <<>> /\ resp[1].tag = t) ~> (resp = <<>> \/ resp[1].tag # t)

\* The master's data always gets through: no write blocks the W channel for ever.
DataGetsThrough == wv ~> ~wv

===============================================================================
