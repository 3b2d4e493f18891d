------------------------------ MODULE AxiSpltAr -------------------------------
(***************************************************************************)
(* The read half of the AXI splitter (e603_gnrl_axi_splt_ar in               *)
(* design/soc/e603_subsys_axi_splt.v) between one master and several slaves. *)
(* An address goes to the slave its indicator bit names; the slave's number  *)
(* is queued in u_gnrl_arid_fifo and the R channel is connected to the slave *)
(* at the head of the queue until that slave's last beat has been taken.     *)
(*                                                                         *)
(* A slave is any AXI slave that answers its reads in the order it accepted  *)
(* them, as e603_gnrl_axi2ficb does.  Between two clock edges the master may  *)
(* put an address on its channel and each slave may raise RVALID; Tick is    *)
(* the edge.  A burst is its number of beats; ids and data are left out, the *)
(* record of a read says whose beat it is.                                  *)
(*                                                                         *)
(* A definition X_suffix directly before X is a faulty variant of X that the *)
(* specification does not use: the checks put it in X's place to see that a  *)
(* property notices.                                                        *)
(***************************************************************************)
EXTENDS GnrlFifo

CONSTANTS Ports,     \* the slaves: bits of i_axi_ar_indic
          Lens,      \* beats a burst may have (i_axi_arlen + 1)
          OutsNum,   \* FIFO_OUTS_NUM
          CutReady   \* FIFO_CUT_READY

ASSUME ArAssumption ==
  /\ Ports # {}
  /\ Lens \subseteq Nat \ {0}
  /\ OutsNum \in Nat \ {0}
  /\ CutReady \in BOOLEAN

Tags == 0 .. 1   \* reads are numbered modulo 2

VARIABLES arid_fifo,   \* u_gnrl_arid_fifo: slave of each read in flight
          ar,          \* the master's AR channel: <<>> or <<[port, len]>>
          out,         \* reads accepted and not finished, oldest first
          rv,          \* which slaves drive RVALID
          tag          \* number of the next read

arVars == <<arid_fifo, ar, out, rv, tag>>

ArInit ==
  /\ arid_fifo = <<>>
  /\ ar = <<>>
  /\ out = <<>>
  /\ rv = [p \in Ports |-> FALSE]
  /\ tag = 0

(* ------------------------- wires of the splitter ------------------------ *)

\* The slave the R channel is connected to.  The queue's output is not masked
\* (MSKO = 0): when the queue is empty it names whatever slave was left there.
o_axi_arrsp_port_id_newest(stale) ==
  IF arid_fifo = <<>> THEN stale ELSE arid_fifo[Len(arid_fifo)]
o_axi_arrsp_port_id(stale) == IF arid_fifo = <<>> THEN stale ELSE Head(arid_fifo)

i_axi_rvalid(stale) == rv[o_axi_arrsp_port_id(stale)]

\* The read whose beat slave p drives: its oldest one.
Oldest(p) == CHOOSE k \in 1 .. Len(out) : /\ out[k].port = p
                                          /\ \A j \in 1 .. k - 1 : out[j].port # p

i_axi_rlast(stale) == out[Oldest(o_axi_arrsp_port_id(stale))].left = 1

\* The queue is popped with the last beat of the burst.
arid_fifo_ren_any_beat(stale, rready) == i_axi_rvalid(stale) /\ rready
arid_fifo_ren(stale, rready) == i_axi_rvalid(stale) /\ rready /\ i_axi_rlast(stale)

\* ~arid_fifo_full
arid_fifo_i_ready(ren) == FifoReady(arid_fifo, OutsNum, CutReady, ren)

\* i_axi_arvalid & i_axi_arready
arid_fifo_wen(arready, ren) == ar # <<>> /\ arready /\ arid_fifo_i_ready(ren)

(* ------------------------- steps ----------------------------------------- *)

\* The master asks for a burst of l beats from slave p.
BeginRead(p, l) ==
  /\ ar = <<>>
  /\ ar' = <<[port |-> p, len |-> l]>>
  /\ UNCHANGED <<arid_fifo, out, rv, tag>>

\* Slave p drives the next beat of its oldest read.
RaiseR(p) ==
  /\ ~rv[p]
  /\ \E k \in 1 .. Len(out) : out[k].port = p
  /\ rv' = [rv EXCEPT ![p] = TRUE]
  /\ UNCHANGED <<arid_fifo, ar, out, tag>>

\* The outstanding reads once a beat of the k-th has been taken.
BeatTaken(k) ==
  IF out[k].left = 1
  THEN [j \in 1 .. Len(out) - 1 |-> IF j < k THEN out[j] ELSE out[j + 1]]
  ELSE [out EXCEPT ![k] = [port |-> out[k].port, left |-> out[k].left - 1, tag |-> out[k].tag]]

\* A clock edge in which the addressed slave (arready) and the master (rready)
\* are ready or not.
Tick(arready, rready) ==
  \E stale \in Ports :
    LET ren == arid_fifo_ren(stale, rready)
        wen == arid_fifo_wen(arready, ren)
        port == o_axi_arrsp_port_id(stale)
        taken == i_axi_rvalid(stale) /\ rready
        rest == IF taken THEN BeatTaken(Oldest(port)) ELSE out
    IN /\ arid_fifo' = FifoNext(arid_fifo, wen, ar[1].port, ren)
       /\ out' = IF wen THEN Append(rest, [port |-> ar[1].port, left |-> ar[1].len, tag |-> tag])
                 ELSE rest
       /\ ar' = IF wen THEN <<>> ELSE ar
       /\ tag' = IF wen THEN (tag + 1) % 2 ELSE tag
       /\ rv' = IF taken THEN [rv EXCEPT ![port] = FALSE] ELSE rv

ArNext ==
  \/ \E p \in Ports, l \in Lens : BeginRead(p, l)
  \/ \E p \in Ports : RaiseR(p)
  \/ \E arready, rready \in BOOLEAN : Tick(arready, rready)

ArSpec == ArInit /\ [][ArNext]_arVars

\* Slaves answer every read and accept addresses in the end, and the master
\* takes its data in the end; nobody has to be ready in any particular cycle.
ArFairSpec == /\ ArSpec
              /\ WF_arVars(Tick(TRUE, TRUE))
              /\ \A p \in Ports : WF_arVars(RaiseR(p))

(* ------------------------- properties ------------------------------------ *)

Read == [port : Ports, left : Nat \ {0}, tag : Tags]

\* The queue never holds more than its FIFO_OUTS_NUM entries; the queue, the
\* channel and the slaves hold well-formed reads.
ArTypeOK ==
  /\ arid_fifo \in Seq(Ports) /\ Len(arid_fifo) <= OutsNum
  /\ ar = <<>> \/ \E p \in Ports, l \in Lens : ar = <<[port |-> p, len |-> l]>>
  /\ out \in Seq(Read)
  /\ rv \in [Ports -> BOOLEAN]
  /\ tag \in Tags

\* The queue of slave numbers lists the slaves of the reads in flight, in order,
\* and a slave drives RVALID only when it owes a beat.
RouteMatches ==
  /\ Len(arid_fifo) = Len(out)
  /\ \A k \in 1 .. Len(out) : arid_fifo[k] = out[k].port
  /\ \A p \in Ports : rv[p] => \E k \in 1 .. Len(out) : out[k].port = p

\* Whatever the unmasked queue output shows, a beat that reaches the master is
\* one of its oldest read: bursts to different slaves come back in the order
\* they were asked for, complete, and never when nothing was asked for.
ReadsInOrder ==
  \A stale \in Ports :
    i_axi_rvalid(stale) => out # <<>> /\ out[1].port = o_axi_arrsp_port_id(stale)

\* Every read that was accepted is finished, although a slow slave at the head
\* of the queue holds back the data of all others.
EveryReadDone ==
  \A t \in Tags : (out # <<>> /\ out[1].tag = t) ~> (out = <<>> \/ out[1].tag # t)

===============================================================================
