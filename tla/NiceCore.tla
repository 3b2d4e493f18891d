------------------------------- MODULE NiceCore -------------------------------
(***************************************************************************)
(* The NICE demo coprocessor (design/soc/e603_subsys_nice_core.v): a       *)
(* 3-word row buffer that a matrix row can be loaded into (lbuf), stored    *)
(* from (sbuf) and accumulated into (rowsum), a three-stage pipelined adder *)
(* (pipeadd) and four one-cycle instructions.                               *)
(*                                                                         *)
(* The module holds the registers of the unit and, for each block of the   *)
(* Verilog, the values its registers take at the next rising clock edge.    *)
(* Wires are operators; those that depend on the inputs of the cycle take    *)
(* them as one record:                                                      *)
(*   req     the request on the nice_req_* channel, NoReq when not valid    *)
(*   rspRdy  nice_rsp_multicyc_ready                                        *)
(*   cmdRdy  nice_icb_cmd_ready                                             *)
(*   rspVld, rdata, rerr  the nice_icb_rsp_* channel; rdata is the 64-bit   *)
(*           bus word as a pair <<low half, high half>>                     *)
(*   stale   what u_nice_rsp_fifo shows when it is empty                    *)
(* Addresses count 32-bit words: address bit 2 is the word address modulo   *)
(* 2, and the step of 4 bytes is a step of 1.  Instruction words are         *)
(* abstracted to the name of the instruction they decode to.                *)
(*                                                                         *)
(* A definition X_suffix directly before X is a faulty variant of X that the *)
(* specification does not use: the checks put it in X's place to see that a  *)
(* property notices.                                                        *)
(***************************************************************************)
EXTENDS Integers, Sequences

CONSTANTS WordMod,   \* 2^32: values of a row buffer word (ROWBUF_DW bits)
          AddrMod,   \* 2^30: words the 32-bit maddr_acc_r can address
          XMod       \* 2^64: values of a general register

ASSUME ModAssumption ==
  /\ WordMod \in Nat \ {0}
  /\ AddrMod \in Nat \ {0} /\ AddrMod % 2 = 0
  /\ XMod \in Nat \ {0}

VARIABLES state,       \* state_r
          lbuf,        \* lbuf_cnt_r, lbuf_cmd_cnt_r, nice_rsp_valid_lbuf, nice_rsp_err_lbuf
          sbuf,        \* the same registers of sbuf
          rowsum,      \* rowbuf_cnt_r, rowbuf_cmd_cnt_r, nice_rsp_err_rowsum
          rcv,         \* rcv_data_buf_valid, rcv_data_buf_idx, rcv_data_buf
          rowsum_acc,  \* rowsum_acc_r
          rowbuf,      \* rowbuf_r
          maddr,       \* maddr_acc_r
          matrix_cfg,  \* matrix_cfg_r
          pipe,        \* the three pipeadd stages
          rsp_fifo     \* u_nice_rsp_fifo: address bit 2 of commands in flight

coreVars == <<state, lbuf, sbuf, rowsum, rcv, rowsum_acc, rowbuf, maddr,
              matrix_cfg, pipe, rsp_fifo>>

ROWBUF_DP == 4
clonum == 2                        \* the last column: a burst moves 3 words
Word == 0 .. WordMod - 1
Addr == 0 .. AddrMod - 1
XWord == 0 .. XMod - 1
Idx == 0 .. ROWBUF_DP - 1

OneCycOps == {"add", "wsetup", "rsetup", "crowbuf"}
MemOps == {"lbuf", "sbuf", "rowsum"}
MultiCycOps == MemOps \cup {"pipeadd"}
\* "illegal" stands for every instruction word none of the decoders accepts.
Ops == OneCycOps \cup MultiCycOps \cup {"illegal"}

NoReq == [op |-> "none", rs1 |-> 0, rs2 |-> 0]

(* ------------------------- request and response wires ------------------ *)

\* e603_gnrl_pipe_stage with CUT_READY = 0 can take a word when it is empty or
\* being emptied; the bypass buffer in front only when it is empty.
i_pipe_rdy2(i) == ~pipe[2].vld \/ i.rspRdy
i_pipe_rdy1(i) == ~pipe[1].vld \/ i_pipe_rdy2(i)
i_pipe_rdy0 == ~pipe[0].vld

nice_req_ready(i) ==
  \/ state = "IDLE" /\ (i.req.op \in MemOps => i.cmdRdy)
  \/ state = "PIPE" /\ i_pipe_rdy0 /\ i.req.op = "pipeadd"

nice_req_hsked(i) == i.req.op # "none" /\ nice_req_ready(i)

\* Instruction `op' is taken in this cycle.
Takes(i, op) == i.req.op = op /\ nice_req_hsked(i)

nice_rsp_1cyc_type(i) == nice_req_hsked(i) /\ i.req.op \notin MultiCycOps

nice_rsp_1cyc_dat(i) ==
  IF i.req.op = "add" THEN (i.req.rs1 + i.req.rs2) % XMod
  ELSE IF i.req.op = "rsetup" THEN matrix_cfg ELSE 0

rowsum_acc_flg == rcv.vld /\ rcv.idx # 0

nice_rsp_valid_rowsum_early == state = "ROWSUM" /\ rcv.idx = clonum
nice_rsp_valid_rowsum == state = "ROWSUM" /\ rcv.idx = clonum /\ ~rowsum_acc_flg
nice_rsp_valid_pipe == state = "PIPE" /\ pipe[2].vld
nice_rsp_multicyc_valid ==
  nice_rsp_valid_rowsum \/ nice_rsp_valid_pipe \/ sbuf.vld \/ lbuf.vld

nice_rsp_multicyc_dat ==
  IF state = "PIPE" THEN pipe[2].dat ELSE IF state = "ROWSUM" THEN rowsum_acc ELSE 0

nice_rsp_multicyc_err ==
  \/ nice_rsp_valid_rowsum /\ rowsum.err
  \/ sbuf.vld /\ sbuf.err
  \/ lbuf.vld /\ lbuf.err

nice_rsp_hsked(i) == nice_rsp_multicyc_valid /\ i.rspRdy

nice_mem_holdup == state \in {"LBUF", "SBUF", "ROWSUM"}

(* ------------------------- memory channel wires ------------------------- *)

nice_icb_cmd_valid ==
  \/ state = "LBUF" /\ lbuf.cmd <= clonum
  \/ state = "SBUF" /\ sbuf.cmd <= clonum
  \/ state = "ROWSUM" /\ rowsum.cmd <= clonum

nice_icb_cmd_hsked(i) == nice_icb_cmd_valid /\ i.cmdRdy

nice_icb_cmd_read == state # "SBUF"

\* The store data is the same word on both halves; wmask enables the half
\* that address bit 2 selects.
nice_icb_cmd_wdata_by_cnt == IF state = "SBUF" THEN rowbuf[sbuf.cnt] ELSE 0
nice_icb_cmd_wdata == IF state = "SBUF" THEN rowbuf[sbuf.cmd] ELSE 0
nice_icb_cmd_wmask == IF state = "SBUF" THEN {maddr % 2} ELSE {}

\* i_nice_icb_rsp_ready is tied to 1: a response is taken when it is there.
nice_icb_rsp_rdata_algn_now(i) == i.rdata[1 + (maddr % 2)]
nice_icb_rsp_rdata_algn(i) ==
  i.rdata[1 + (IF rsp_fifo = <<>> THEN i.stale ELSE Head(rsp_fifo))]

(* ------------------------- registers ------------------------------------ *)

\* The enable/mux pattern of the unit's 2-bit counters: when both the clear and
\* the increment term are set, OR-ing them leaves the incremented value.
Count_no_clr(r, clr, incr) == IF incr THEN (r + 1) % ROWBUF_DP ELSE r
Count(r, clr, incr) ==
  IF incr THEN (r + 1) % ROWBUF_DP ELSE IF clr THEN 0 ELSE r

\* nice_rsp_valid_lbuf/sbuf: nxt = set & ~clr, loaded on either.
RspValid_pulse(r, set, clr) == set /\ ~clr
RspValid(r, set, clr) == IF set \/ clr THEN set /\ ~clr ELSE r

\* nice_rsp_err_*: collects the errors of the burst, cleared by the response.
RspErr_no_clr(r, set, clr, err) == r \/ (set /\ err)
RspErr(r, set, clr, err) == IF clr THEN FALSE ELSE r \/ (set /\ err)

state_idle_nxt == [lbuf |-> "LBUF", sbuf |-> "SBUF", pipeadd |-> "PIPE", rowsum |-> "ROWSUM"]

\* The pipe gives its last result away and nothing follows it.
pipe_empty_late(i) ==
  ~pipe[0].vld /\ i.req.op # "pipeadd" /\ ~pipe[1].vld /\ ~pipe[2].vld /\ nice_rsp_hsked(i)
pipe_empty(i) ==
  /\ ~pipe[0].vld /\ i.req.op # "pipeadd" /\ ~pipe[1].vld /\ pipe[2].vld
  /\ ~nice_req_hsked(i) /\ nice_rsp_hsked(i)

\* The running instruction ends: state_lbuf/sbuf/pipe/rowsum_exit_ena.
state_exit_ena(i) ==
  \/ state = "LBUF" /\ i.rspVld /\ lbuf.cnt = clonum
  \/ state = "SBUF" /\ i.rspVld /\ sbuf.cnt = clonum
  \/ state = "PIPE" /\ pipe_empty(i)
  \/ state = "ROWSUM" /\ nice_rsp_hsked(i)

\* state_r
FsmStep(i) ==
  state' = IF state = "IDLE" /\ nice_req_hsked(i) /\ i.req.op \in MultiCycOps
           THEN state_idle_nxt[i.req.op]
           ELSE IF state_exit_ena(i) THEN "IDLE" ELSE state

LbufStep(i) ==
  LET icb_rsp == state = "LBUF" /\ i.rspVld
      icb_cmd == state = "LBUF" /\ lbuf.cmd <= clonum /\ i.cmdRdy
      last == lbuf.cnt = clonum
      taken == lbuf.vld /\ nice_rsp_hsked(i)
  IN lbuf' = [cnt |-> Count(lbuf.cnt, Takes(i, "lbuf"), icb_rsp /\ ~last),
              cmd |-> Count(lbuf.cmd, icb_rsp /\ last, icb_cmd),
              vld |-> RspValid(lbuf.vld, icb_rsp /\ last, taken),
              err |-> RspErr(lbuf.err, icb_rsp, taken, i.rerr)]

SbufStep(i) ==
  LET icb_rsp == state = "SBUF" /\ i.rspVld
      icb_cmd == (state = "SBUF" \/ (state = "IDLE" /\ i.req.op = "sbuf"))
                   /\ nice_icb_cmd_hsked(i)
      last == sbuf.cnt = clonum
      taken == sbuf.vld /\ nice_rsp_hsked(i)
  IN sbuf' = [cnt |-> Count(sbuf.cnt, icb_rsp /\ last, icb_rsp /\ ~last),
              cmd |-> Count(sbuf.cmd, icb_rsp /\ last, icb_cmd),
              vld |-> RspValid(sbuf.vld, icb_rsp /\ last, taken),
              err |-> RspErr(sbuf.err, icb_rsp, taken, i.rerr)]

rowbuf_icb_rsp_hsked(i) == state = "ROWSUM" /\ i.rspVld

RowsumStep(i) ==
  LET icb_rsp == rowbuf_icb_rsp_hsked(i)
      icb_cmd == state = "ROWSUM" /\ rowsum.cmd <= clonum /\ i.cmdRdy
      last == rowsum.cnt = clonum
      rowsum_done == state = "ROWSUM" /\ nice_rsp_hsked(i)
      taken == nice_rsp_valid_rowsum /\ i.rspRdy
  IN /\ rowsum' = [cnt |-> Count(rowsum.cnt, icb_rsp /\ last, icb_rsp /\ ~last),
                   cmd |-> Count(rowsum.cmd, rowsum_done, icb_cmd),
                   err |-> RspErr(rowsum.err, icb_rsp, rowsum_done, i.rerr)]
     /\ rcv' = [vld |-> icb_rsp,
                idx |-> IF icb_rsp THEN rowsum.cnt ELSE IF taken THEN 0 ELSE rcv.idx,
                dat |-> IF icb_rsp \/ taken THEN nice_icb_rsp_rdata_algn(i) ELSE rcv.dat]
     /\ rowsum_acc' = IF ~rcv.vld THEN rowsum_acc
                      ELSE IF rcv.idx = 0 THEN rcv.dat
                      ELSE (rcv.dat + rowsum_acc) % WordMod

\* The write port of the row buffer is shared by lbuf and rowsum (the two are
\* OR-ed in the code; RowbufPortExclusive shows they never meet).
lbuf_wr(i) == state = "LBUF" /\ i.rspVld
rowsum_wr == rcv.vld

RowbufStep(i) ==
  rowbuf' = IF Takes(i, "crowbuf") THEN [k \in Idx |-> 0]
            ELSE IF lbuf_wr(i)
            THEN [rowbuf EXCEPT ![lbuf.cnt] = nice_icb_rsp_rdata_algn(i)]
            ELSE IF rowsum_wr
            THEN [rowbuf EXCEPT ![rcv.idx] = (rowbuf[rcv.idx] + rcv.dat) % WordMod]
            ELSE rowbuf

MaddrStep(i) ==
  maddr' = IF state = "IDLE" /\ i.req.op \in MemOps /\ nice_req_hsked(i)
           THEN i.req.rs1 % AddrMod
           ELSE IF nice_icb_cmd_hsked(i) THEN (maddr + 1) % AddrMod
           ELSE maddr

CfgStep(i) ==
  matrix_cfg' = IF Takes(i, "wsetup") THEN i.req.rs1 % 4 ELSE matrix_cfg

\* The bypass buffer pipe[0] is fed by nice_req_valid, not by the handshake.
\* A stage that holds nothing shows dat = 0 (its stale word is never read).
PipeStep(i) ==
  LET Empty == [vld |-> FALSE, dat |-> 0]
      Full(d) == [vld |-> TRUE, dat |-> d]
      pipe_req_valid == i.req.op = "pipeadd"
      pipe_res_pre == (i.req.rs1 + i.req.rs2) % XMod
      out0 == pipe[0].vld \/ pipe_req_valid
      dat0 == IF pipe[0].vld THEN pipe[0].dat ELSE pipe_res_pre
      nxt0 == IF pipe[0].vld
              THEN IF i_pipe_rdy1(i) THEN Empty ELSE pipe[0]
              ELSE IF pipe_req_valid /\ ~i_pipe_rdy1(i) THEN Full(pipe_res_pre) ELSE Empty
      nxt1 == IF ~i_pipe_rdy1(i) THEN pipe[1] ELSE IF out0 THEN Full(dat0) ELSE Empty
      nxt2 == IF ~i_pipe_rdy2(i) THEN pipe[2] ELSE pipe[1]
  IN pipe' = [k \in 0 .. 2 |-> IF k = 0 THEN nxt0 ELSE IF k = 1 THEN nxt1 ELSE nxt2]

RspFifoStep(i) ==
  LET wen == nice_icb_cmd_hsked(i) /\ Len(rsp_fifo) < ROWBUF_DP
      ren == i.rspVld /\ rsp_fifo # <<>>
      rest == IF ren THEN Tail(rsp_fifo) ELSE rsp_fifo
  IN rsp_fifo' = IF wen THEN Append(rest, maddr % 2) ELSE rest

CoreInit ==
  /\ state = "IDLE"
  /\ lbuf = [cnt |-> 0, cmd |-> 0, vld |-> FALSE, err |-> FALSE]
  /\ sbuf = [cnt |-> 0, cmd |-> 0, vld |-> FALSE, err |-> FALSE]
  /\ rowsum = [cnt |-> 0, cmd |-> 0, err |-> FALSE]
  /\ rcv = [vld |-> FALSE, idx |-> 0, dat |-> 0]
  /\ rowsum_acc = 0
  /\ rowbuf = [k \in Idx |-> 0]
  /\ maddr = 0
  /\ matrix_cfg = 0
  /\ pipe = [k \in 0 .. 2 |-> [vld |-> FALSE, dat |-> 0]]
  /\ rsp_fifo = <<>>

\* One rising edge of nice_clk: every block of the unit steps at once.
CoreStep(i) ==
  /\ FsmStep(i)
  /\ LbufStep(i)
  /\ SbufStep(i)
  /\ RowsumStep(i)
  /\ RowbufStep(i)
  /\ MaddrStep(i)
  /\ CfgStep(i)
  /\ PipeStep(i)
  /\ RspFifoStep(i)

Burst == [cnt : Idx, cmd : Idx, vld : BOOLEAN, err : BOOLEAN]

\* Every register holds a value of its width.
CoreTypeOK ==
  /\ state \in {"IDLE", "LBUF", "SBUF", "PIPE", "ROWSUM"}
  /\ lbuf \in Burst /\ sbuf \in Burst
  /\ rowsum \in [cnt : Idx, cmd : Idx, err : BOOLEAN]
  /\ rcv \in [vld : BOOLEAN, idx : Idx, dat : Word]
  /\ rowsum_acc \in Word
  /\ rowbuf \in [Idx -> Word]
  /\ maddr \in Addr
  /\ matrix_cfg \in 0 .. 3
  /\ pipe \in [0 .. 2 -> [vld : BOOLEAN, dat : XWord]]
  /\ rsp_fifo \in Seq({0, 1}) /\ Len(rsp_fifo) <= ROWBUF_DP

===============================================================================
