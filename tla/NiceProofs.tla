------------------------------ MODULE NiceProofs ------------------------------
(***************************************************************************)
(* Proofs about NiceSys, for every word, address and tag width: the types; with a   *)
(* blocking core, the accounting of the bursts (BlockingInv) and, on top of it, the  *)
(* values (NiceInv): responses, error bits, column sums and stores.                 *)
(***************************************************************************)
EXTENDS NiceSys, SequenceTheorems, TLAPS

Input == [req : Requested, rspRdy : BOOLEAN, cmdRdy : BOOLEAN, rspVld : BOOLEAN,
          rdata : Word \X Word, rerr : BOOLEAN, stale : {0, 1}]

\* A remainder is below the modulus.
LEMMA ModRange == \A n \in Nat \ {0}, a \in Nat : a % n \in 0 .. n - 1
  OBVIOUS

\* Sums of the data path keep their width.
LEMMA AddType ==
  /\ \A a, b \in Word : (a + b) % WordMod \in Word
  /\ \A a, b \in Nat : (a + b) % XMod \in XWord
  /\ \A a \in Nat : a % AddrMod \in Addr
  BY ModAssumption, ModRange DEF Word, XWord, Addr

\* The aligned read data is a word.
LEMMA AlignType ==
  ASSUME CoreTypeOK, NEW i \in Input
  PROVE  nice_icb_rsp_rdata_algn(i) \in Word
  BY DEF CoreTypeOK, Input, nice_icb_rsp_rdata_algn

\* A counter stays in its two bits.
LEMMA CountType ==
  ASSUME NEW r \in Idx, NEW clr, NEW incr
  PROVE  Count(r, clr, incr) \in Idx
  BY DEF Count, Idx, ROWBUF_DP

\* The state machine goes to one of its states.
LEMMA FsmType ==
  ASSUME CoreTypeOK, NEW i \in Input, FsmStep(i)
  PROVE  state' \in {"IDLE", "LBUF", "SBUF", "PIPE", "ROWSUM"}
  BY DEF CoreTypeOK, FsmStep, state_exit_ena, state_idle_nxt, MultiCycOps, MemOps

\* The counters of LBUF keep their types.
LEMMA LbufType ==
  ASSUME CoreTypeOK, NEW i \in Input, LbufStep(i)
  PROVE  lbuf' \in Burst
  BY CountType DEF CoreTypeOK, LbufStep, Burst, RspValid, RspErr

\* The counters of SBUF keep their types.
LEMMA SbufType ==
  ASSUME CoreTypeOK, NEW i \in Input, SbufStep(i)
  PROVE  sbuf' \in Burst
  BY CountType DEF CoreTypeOK, SbufStep, Burst, RspValid, RspErr

\* The counters and the accumulator of ROWSUM keep their types.
LEMMA RowsumType ==
  ASSUME CoreTypeOK, NEW i \in Input, RowsumStep(i)
  PROVE  /\ rowsum' \in [cnt : Idx, cmd : Idx, err : BOOLEAN]
         /\ rcv' \in [vld : BOOLEAN, idx : Idx, dat : Word]
         /\ rowsum_acc' \in Word
<1>1. rowsum' \in [cnt : Idx, cmd : Idx, err : BOOLEAN]
  BY CountType DEF CoreTypeOK, RowsumStep, rowbuf_icb_rsp_hsked, RspErr
<1>2. rcv' \in [vld : BOOLEAN, idx : Idx, dat : Word]
  BY AlignType DEF CoreTypeOK, RowsumStep, rowbuf_icb_rsp_hsked, Idx, ROWBUF_DP
<1>3. rowsum_acc' \in Word
  BY AddType DEF CoreTypeOK, RowsumStep, rowbuf_icb_rsp_hsked
<1> QED BY <1>1, <1>2, <1>3

\* What the core requests.
LEMMA InputReq ==
  ASSUME NEW i \in Input
  PROVE  /\ i.req \in Requested
         /\ i.req.rs1 \in Nat /\ i.req.rs2 \in Nat
  BY SysAssumption DEF Input, Requested, NoReq

\* The row buffer holds words.
LEMMA RowbufType ==
  ASSUME CoreTypeOK, NEW i \in Input, RowbufStep(i)
  PROVE  rowbuf' \in [Idx -> Word]
<1>1. 0 \in Word
  BY ModAssumption DEF Word
<1>2. lbuf.cnt \in Idx /\ rcv.idx \in Idx /\ rcv.dat \in Word /\ rowbuf \in [Idx -> Word]
  BY DEF CoreTypeOK, Burst
<1>3. (rowbuf[rcv.idx] + rcv.dat) % WordMod \in Word
  BY <1>2, AddType
<1>4. nice_icb_rsp_rdata_algn(i) \in Word
  BY AlignType
<1> QED BY <1>1, <1>2, <1>3, <1>4 DEF RowbufStep

\* The memory address keeps its width.
LEMMA MaddrType ==
  ASSUME CoreTypeOK, NEW i \in Input, MaddrStep(i)
  PROVE  maddr' \in Addr
<1>1. i.req.rs1 % AddrMod \in Addr
  BY InputReq, AddType
<1>2. maddr \in Addr /\ (maddr + 1) % AddrMod \in Addr
  <2>1. maddr \in Addr /\ maddr + 1 \in Nat
    BY ModAssumption DEF CoreTypeOK, Addr
  <2> QED BY <2>1, AddType
<1> QED BY <1>1, <1>2 DEF MaddrStep

\* The configuration register keeps its two bits.
LEMMA CfgType ==
  ASSUME CoreTypeOK, NEW i \in Input, CfgStep(i)
  PROVE  matrix_cfg' \in 0 .. 3
  BY InputReq DEF CoreTypeOK, CfgStep

\* The stages of the multi-cycle pipeline keep their types.
LEMMA PipeType ==
  ASSUME CoreTypeOK, NEW i \in Input, PipeStep(i)
  PROVE  pipe' \in [0 .. 2 -> [vld : BOOLEAN, dat : XWord]]
<1>1. 0 \in XWord
  BY ModAssumption DEF XWord
<1>2. (i.req.rs1 + i.req.rs2) % XMod \in XWord
  BY InputReq, AddType
<1>3. \A k \in 0 .. 2 : pipe[k] \in [vld : BOOLEAN, dat : XWord]
  BY DEF CoreTypeOK
<1> HIDE DEF XWord
<1> QED BY <1>1, <1>2, <1>3 DEF PipeStep

\* The lane FIFO keeps its type and its depth.
LEMMA RspFifoType ==
  ASSUME CoreTypeOK, NEW i \in Input, RspFifoStep(i)
  PROVE  rsp_fifo' \in Seq({0, 1}) /\ Len(rsp_fifo') <= ROWBUF_DP
  BY DEF CoreTypeOK, RspFifoStep, Addr, ROWBUF_DP

\* A clock edge of the coprocessor keeps the types of its registers.
LEMMA CoreTypeStep ==
  ASSUME CoreTypeOK, NEW i \in Input, CoreStep(i)
  PROVE  CoreTypeOK'
  BY FsmType, LbufType, SbufType, RowsumType, RowbufType, MaddrType, CfgType,
     PipeType, RspFifoType DEF CoreStep, CoreTypeOK

\* The inputs the system gives are inputs of the coprocessor.
LEMMA InputsType ==
  ASSUME TypeOK, NEW wb \in BOOLEAN, NEW cmd \in BOOLEAN, NEW rsp \in BOOLEAN,
         rsp => memq # <<>>, NEW stale \in {0, 1}
  PROVE  Inputs(wb, cmd, rsp, stale) \in Input
<1>1. <<0, 0>> \in Word \X Word
  BY ModAssumption DEF Word
<1>2. rsp => Head(memq) \in Answer
  BY DEF TypeOK
<1>3. rsp => Head(memq).rdata \in Word \X Word /\ Head(memq).err \in BOOLEAN
  BY <1>2 DEF Answer
<1> QED BY <1>1, <1>3 DEF TypeOK, Inputs, Input

\* The answers the memory may give.
LEMMA AnswersType ==
  ASSUME TypeOK
  PROVE  Answers \subseteq Answer
<1>1. maddr \in Addr /\ maddr - (maddr % 2) \in Addr /\ maddr - (maddr % 2) + 1 \in Addr
  <2>1. maddr \in Nat /\ maddr < AddrMod /\ AddrMod \in Nat /\ AddrMod % 2 = 0
    BY ModAssumption DEF TypeOK, CoreTypeOK, Addr
  <2>2. \A a, m \in Nat : a < m /\ m % 2 = 0 =>
          /\ a - (a % 2) \in 0 .. m - 1
          /\ a - (a % 2) + 1 \in 0 .. m - 1
    OBVIOUS
  <2> QED BY <2>1, <2>2 DEF Addr
<1>2. DoubleWord(maddr) \in Word \X Word
  BY <1>1 DEF TypeOK, DoubleWord
<1> QED BY <1>2 DEF Answers, Answer

\* The word a memory command is about.
LEMMA CmdWordType ==
  ASSUME TypeOK, NEW rdata \in Word \X Word
  PROVE  CmdWord(rdata) \in Word
<1>1. nice_icb_cmd_wdata \in Word
  <2>1. sbuf \in Burst /\ rowbuf \in [Idx -> Word] BY DEF TypeOK, CoreTypeOK
  <2>2. sbuf.cmd \in Idx BY <2>1 DEF Burst
  <2>3. rowbuf[sbuf.cmd] \in Word BY <2>1, <2>2
  <2>4. 0 \in Word BY ModAssumption DEF Word
  <2> QED BY <2>3, <2>4 DEF nice_icb_cmd_wdata
<1>2. maddr % 2 \in {0, 1}
  BY DEF TypeOK, CoreTypeOK, Addr
<1> QED BY <1>1, <1>2 DEF CmdWord

\* The core's outstanding instructions keep their types.
LEMMA JobsType ==
  ASSUME TypeOK, NEW i \in Input, i.req = req, i.rspRdy => jobs # <<>>,
         NEW a \in Answer, JobsStep(i, a.rdata, a.err)
  PROVE  jobs' \in Seq(JobRec) /\ itag' \in 0 .. ITags - 1
<1> DEFINE noted == IF nice_icb_cmd_hsked(i) /\ jobs # <<>>
                    THEN [jobs EXCEPT ![Len(jobs)] = Note(jobs[Len(jobs)], a.rdata, a.err)]
                    ELSE jobs
           left == IF nice_rsp_hsked(i) THEN Tail(noted) ELSE noted
           push == nice_req_hsked(i) /\ ~nice_rsp_1cyc_type(i)
<1>1. \A j \in JobRec : Note(j, a.rdata, a.err) \in JobRec
  <2>1. [addr |-> maddr, dat |-> CmdWord(a.rdata)] \in [addr : Addr, dat : Word]
    BY CmdWordType DEF TypeOK, CoreTypeOK, Answer
  <2> QED BY <2>1 DEF Note, JobRec, Answer
<1>2. noted \in Seq(JobRec) /\ Len(noted) = Len(jobs)
  BY <1>1 DEF TypeOK
<1>3. left \in Seq(JobRec)
  BY <1>2 DEF nice_rsp_hsked, TypeOK
<1>4. push => Job(req) \in JobRec
  BY InputReq, AddType DEF TypeOK, Job, JobRec, nice_rsp_1cyc_type
<1>5. jobs' = (IF push THEN Append(left, Job(req)) ELSE left)
  BY DEF JobsStep
<1>6. itag' \in 0 .. ITags - 1
  BY DEF JobsStep, TypeOK, ITags
<1> HIDE DEF left
<1> QED BY <1>3, <1>4, <1>5, <1>6

\* The reference columns hold words.
LEMMA ColsType ==
  ASSUME TypeOK, NEW i \in Input, NEW a \in Answer, ColsStep(i, a.rdata)
  PROVE  cols' \in [0 .. clonum -> Word]
<1>1. CmdWord(a.rdata) \in Word /\ 0 \in Word
  BY CmdWordType, ModAssumption DEF Answer, Word
<1>2. \A k \in 0 .. clonum : (cols[k] + CmdWord(a.rdata)) % WordMod \in Word
  BY <1>1, AddType DEF TypeOK
<1>3. cols \in [0 .. clonum -> Word]
  BY DEF TypeOK
<1>4. ASSUME nice_icb_cmd_hsked(i)
      PROVE  /\ state = "LBUF" => lbuf.cmd \in 0 .. clonum
             /\ state = "ROWSUM" => rowsum.cmd \in 0 .. clonum
  BY <1>4 DEF nice_icb_cmd_hsked, nice_icb_cmd_valid, TypeOK, CoreTypeOK, Burst, Idx, ROWBUF_DP, clonum
<1> QED BY <1>1, <1>2, <1>3, <1>4 DEF ColsStep

\* The memory and its outstanding answers keep their types.
LEMMA MemType ==
  ASSUME TypeOK, NEW i \in Input, i.rspVld => memq # <<>>, NEW a \in Answer, MemStep(i, a)
  PROVE  memq' \in Seq(Answer) /\ mem' \in [Addr -> Word]
<1>1. nice_icb_cmd_wdata \in Word
  <2>1. sbuf \in Burst /\ rowbuf \in [Idx -> Word] BY DEF TypeOK, CoreTypeOK
  <2>2. sbuf.cmd \in Idx BY <2>1 DEF Burst
  <2>3. rowbuf[sbuf.cmd] \in Word BY <2>1, <2>2
  <2>4. 0 \in Word BY ModAssumption DEF Word
  <2> QED BY <2>3, <2>4 DEF nice_icb_cmd_wdata
<1>2. mem' \in [Addr -> Word]
  BY <1>1 DEF MemStep, TypeOK
<1>3. memq' \in Seq(Answer)
  BY DEF MemStep, TypeOK
<1> QED BY <1>2, <1>3

\* The request keeps its type.
LEMMA ReqType ==
  ASSUME TypeOK, NEW i, ReqStep(i)
  PROVE  req' \in Requested
  BY DEF ReqStep, TypeOK, Requested

\* A cycle of the system keeps the types.
LEMMA CycleType ==
  ASSUME TypeOK, NEW wb \in BOOLEAN, NEW cmd \in BOOLEAN, NEW rsp \in BOOLEAN,
         Cycle(wb, cmd, rsp)
  PROVE  TypeOK'
<1>1. PICK stale \in {0, 1} :
        /\ CoreStep(Inputs(wb, cmd, rsp, stale))
        /\ ReqStep(Inputs(wb, cmd, rsp, stale))
        /\ \E a \in Answer :
             /\ JobsStep(Inputs(wb, cmd, rsp, stale), a.rdata, a.err)
             /\ ColsStep(Inputs(wb, cmd, rsp, stale), a.rdata)
             /\ MemStep(Inputs(wb, cmd, rsp, stale), a)
  <2>1. [rdata |-> <<0, 0>>, err |-> FALSE] \in Answer
    BY ModAssumption DEF Answer, Word
  <2> QED BY <2>1, AnswersType DEF Cycle
<1> DEFINE i == Inputs(wb, cmd, rsp, stale)
<1>2. i \in Input /\ i.req = req /\ (i.rspRdy => jobs # <<>>) /\ (i.rspVld => memq # <<>>)
  <2>1. rsp => memq # <<>>
    BY DEF Cycle
  <2>2. i \in Input
    BY <2>1, InputsType
  <2> QED BY <2>1, <2>2 DEF Inputs
<1>3. PICK a \in Answer : JobsStep(i, a.rdata, a.err) /\ ColsStep(i, a.rdata) /\ MemStep(i, a)
  BY <1>1
<1> HIDE DEF i
<1>4. CoreTypeOK'
  BY <1>1, <1>2, CoreTypeStep DEF TypeOK, i
<1>5. jobs' \in Seq(JobRec) /\ itag' \in 0 .. ITags - 1
  BY <1>2, <1>3, JobsType
<1>6. cols' \in [0 .. clonum -> Word]
  BY <1>2, <1>3, ColsType
<1>7. memq' \in Seq(Answer) /\ mem' \in [Addr -> Word]
  BY <1>2, <1>3, MemType
<1>8. req' \in Requested
  BY <1>1, ReqType
<1> QED BY <1>4, <1>5, <1>6, <1>7, <1>8 DEF TypeOK

\* Whatever requests the core sends, in whatever order it takes responses and
\* memory answers, every register of the unit keeps a value of its width and
\* u_nice_rsp_fifo never holds more than its four entries.
THEOREM TypeCorrect == Spec => []TypeOK
<1>1. Init => TypeOK
  BY ModAssumption, SysAssumption DEF Init, CoreInit, TypeOK, CoreTypeOK, Burst, Idx,
     ROWBUF_DP, Word, XWord, Addr, Requested, ITags, clonum
<1>2. TypeOK /\ [Next]_vars => TypeOK'
  <2> SUFFICES ASSUME TypeOK, [Next]_vars PROVE TypeOK'
    OBVIOUS
  <2>1. CASE Next
    <3>1. PICK wb \in BOOLEAN, cmd \in BOOLEAN, rsp \in BOOLEAN : Cycle(wb, cmd, rsp)
      BY <2>1 DEF Next, IdleCycle, LbufCycle, SbufCycle, PipeCycle, RowsumCycle, InState
    <3> QED BY <3>1, CycleType
  <2>2. CASE UNCHANGED vars
    BY <2>2 DEF vars, coreVars, TypeOK, CoreTypeOK
  <2> QED BY <2>1, <2>2
<1> QED BY <1>1, <1>2, PTL DEF Spec

(***************************************************************************)
(* The blocking discipline.  With it a memory instruction is alone in the   *)
(* unit, so that the response taken in state ROWSUM can only be its own and  *)
(* the three counters of a burst stay in step with memory.                  *)
(***************************************************************************)

\* One cycle, with its inputs and the answer of memory named.
StepWith(i, a) ==
  /\ i \in Input /\ a \in Answer
  /\ i.req = req /\ (i.rspRdy => jobs # <<>>)
  /\ i.rspVld => memq # <<>> /\ i.rdata = Head(memq).rdata
  /\ i.rerr <=> i.rspVld /\ Head(memq).err
  /\ CoreStep(i) /\ ReqStep(i)
  /\ JobsStep(i, a.rdata, a.err) /\ ColsStep(i, a.rdata) /\ MemStep(i, a)

\* Every cycle is a step for some input and some answer of the memory.
LEMMA CycleIsStep ==
  ASSUME TypeOK, NEW wb \in BOOLEAN, NEW cmd \in BOOLEAN, NEW rsp \in BOOLEAN,
         Cycle(wb, cmd, rsp)
  PROVE  \E i, a : StepWith(i, a)
<1>1. PICK stale \in {0, 1} :
        /\ CoreStep(Inputs(wb, cmd, rsp, stale))
        /\ ReqStep(Inputs(wb, cmd, rsp, stale))
        /\ \E a \in Answer :
             /\ JobsStep(Inputs(wb, cmd, rsp, stale), a.rdata, a.err)
             /\ ColsStep(Inputs(wb, cmd, rsp, stale), a.rdata)
             /\ MemStep(Inputs(wb, cmd, rsp, stale), a)
  <2>1. [rdata |-> <<0, 0>>, err |-> FALSE] \in Answer
    BY ModAssumption DEF Answer, Word
  <2> QED BY <2>1, AnswersType DEF Cycle
<1> DEFINE i == Inputs(wb, cmd, rsp, stale)
<1>2. /\ i \in Input /\ i.req = req /\ (i.rspRdy => jobs # <<>>)
      /\ i.rspVld => memq # <<>> /\ i.rdata = Head(memq).rdata
      /\ i.rerr <=> i.rspVld /\ Head(memq).err
  <2>1. rsp => memq # <<>>
    BY DEF Cycle
  <2>2. i \in Input
    BY <2>1, InputsType
  <2> QED BY <2>1, <2>2 DEF Inputs
<1>3. PICK a \in Answer : JobsStep(i, a.rdata, a.err) /\ ColsStep(i, a.rdata) /\ MemStep(i, a)
  BY <1>1
<1> QED BY <1>1, <1>2, <1>3 DEF StepWith

\* What one cycle does to the two queues between the unit and its neighbours.
LEMMA QueueLengths ==
  ASSUME TypeOK, NEW i, NEW a, StepWith(i, a)
  PROVE  /\ Len(memq') = Len(memq) + (IF nice_icb_cmd_hsked(i) THEN 1 ELSE 0)
                                   - (IF i.rspVld THEN 1 ELSE 0)
         /\ Len(memq) \in Nat /\ (i.rspVld => Len(memq) > 0)
         /\ memq' = <<>> <=> Len(memq') = 0
<1>1. memq \in Seq(Answer) /\ (i.rspVld => memq # <<>>) /\ a \in Answer
  BY DEF StepWith, TypeOK
<1>2. memq' \in Seq(Answer)
  BY MemType DEF StepWith
<1> DEFINE rest == IF i.rspVld THEN Tail(memq) ELSE memq
<1>3. memq' = (IF nice_icb_cmd_hsked(i) THEN Append(rest, a) ELSE rest)
  BY DEF StepWith, MemStep
<1>4. /\ Len(memq) \in Nat /\ (i.rspVld => Len(memq) > 0)
      /\ rest \in Seq(Answer)
      /\ Len(rest) = Len(memq) - (IF i.rspVld THEN 1 ELSE 0)
  BY <1>1
<1> HIDE DEF rest
<1>5. Len(memq') = Len(rest) + (IF nice_icb_cmd_hsked(i) THEN 1 ELSE 0)
  <2>1. Len(Append(rest, a)) = Len(rest) + 1 /\ Len(rest) \in Nat
    BY <1>1, <1>4, AppendProperties, LenProperties
  <2> QED BY <2>1, <1>3
<1>6. memq' = <<>> <=> Len(memq') = 0
  <2>1. \A q \in Seq(Answer) : q = <<>> <=> Len(q) = 0
    BY EmptySeq
  <2> QED BY <2>1, <1>2
<1> QED BY <1>4, <1>5, <1>6

\* A multi-cycle request is accepted only when nothing of a memory instruction
\* is left in the unit.
LEMMA AcceptsAlone ==
  ASSUME BlockingInv, NEW i, NEW a, StepWith(i, a), nice_req_hsked(i), i.req.op \in MultiCycOps
  PROVE  ~lbuf.vld /\ ~sbuf.vld /\ ~nice_mem_holdup
  BY DEF BlockingInv, MemRunsAlone, StepWith

\* A response is taken in state LBUF or SBUF never, in state ROWSUM only when
\* the whole row has been received and added.
LEMMA TakenInTurn ==
  ASSUME BlockingInv, NEW i, NEW a, StepWith(i, a), nice_rsp_hsked(i)
  PROVE  /\ state \notin {"LBUF", "SBUF"}
         /\ state = "ROWSUM" => nice_rsp_valid_rowsum /\ rcv.idx = clonum /\ ~rcv.vld
  BY DEF BlockingInv, MemRunsAlone, nice_rsp_hsked, nice_rsp_multicyc_valid,
     nice_rsp_valid_rowsum, nice_rsp_valid_pipe, rowsum_acc_flg, clonum

\* A burst counter does not wrap while it counts up to clonum + 1.
LEMMA CountUp == \A n \in 0 .. 2 : (n + 1) % ROWBUF_DP = n + 1
  BY DEF ROWBUF_DP

\* The six queues and counters that BurstAccounting relates, after a cycle.
LEMMA LbufAccounting ==
  ASSUME BlockingInv, NEW i, NEW a, StepWith(i, a)
  PROVE  /\ state' = "LBUF" => lbuf'.cnt <= clonum /\ lbuf'.cmd = lbuf'.cnt + Len(memq')
         /\ state' # "LBUF" => lbuf'.cmd = 0
<1>1. /\ lbuf.cnt \in 0 .. 3 /\ lbuf.cmd \in 0 .. 3
      /\ Len(memq') = Len(memq) + (IF nice_icb_cmd_hsked(i) THEN 1 ELSE 0)
                                - (IF i.rspVld THEN 1 ELSE 0)
      /\ Len(memq) \in Nat /\ (i.rspVld => Len(memq) > 0)
  BY QueueLengths DEF BlockingInv, TypeOK, CoreTypeOK, Burst, Idx, ROWBUF_DP
<1>2. FsmStep(i) /\ LbufStep(i)
  BY DEF StepWith, CoreStep
<1>3. CASE state = "LBUF"
  <2>1. /\ lbuf.cnt <= 2 /\ lbuf.cmd = lbuf.cnt + Len(memq)
        /\ state' = IF i.rspVld /\ lbuf.cnt = 2 THEN "IDLE" ELSE "LBUF"
    BY <1>2, <1>3 DEF BlockingInv, BurstAccounting, FsmStep, state_exit_ena, clonum
  <2>2. /\ nice_icb_cmd_hsked(i) <=> lbuf.cmd <= 2 /\ i.cmdRdy
        /\ ~Takes(i, "lbuf")
    BY <1>3 DEF nice_icb_cmd_hsked, nice_icb_cmd_valid, clonum, Takes, nice_req_hsked, nice_req_ready
  <2>3. lbuf'.cnt = IF i.rspVld /\ lbuf.cnt # 2 THEN lbuf.cnt + 1 ELSE lbuf.cnt
    BY <1>1, <1>2, <1>3, <2>1, <2>2, CountUp DEF LbufStep, clonum, Count
  <2>4. lbuf'.cmd = IF nice_icb_cmd_hsked(i) THEN lbuf.cmd + 1
                    ELSE IF i.rspVld /\ lbuf.cnt = 2 THEN 0 ELSE lbuf.cmd
    BY <1>1, <1>2, <1>3, <2>2, CountUp DEF LbufStep, clonum, Count
  <2>5. CASE i.rspVld /\ lbuf.cnt = 2
    <3>1. lbuf.cmd = 3 /\ ~nice_icb_cmd_hsked(i)
      BY <1>1, <2>1, <2>2, <2>5
    <3> QED BY <1>1, <2>1, <2>3, <2>4, <2>5, <3>1
  <2>6. CASE i.rspVld /\ lbuf.cnt # 2
    <3>1. Len(memq') = Len(memq) - 1 + (IF nice_icb_cmd_hsked(i) THEN 1 ELSE 0)
      BY <1>1, <2>6
    <3> QED BY <1>1, <2>1, <2>3, <2>4, <2>6, <3>1 DEF clonum
  <2>7. CASE ~i.rspVld
    BY <1>1, <2>1, <2>3, <2>4, <2>7 DEF clonum
  <2> QED BY <2>5, <2>6, <2>7
<1>4. CASE state # "LBUF"
  <2>1. lbuf.cmd = 0 /\ lbuf'.cmd = 0
    BY <1>2, <1>4 DEF BlockingInv, BurstAccounting, LbufStep, Count
  <2>2. ASSUME state' = "LBUF"
        PROVE  lbuf'.cnt = 0 /\ Len(memq') = 0
    <3>1. state = "IDLE" /\ Takes(i, "lbuf")
      BY <1>2, <1>4, <2>2 DEF FsmStep, state_exit_ena, state_idle_nxt, MultiCycOps, MemOps, Takes
    <3>2. lbuf'.cnt = 0
      BY <1>2, <3>1 DEF LbufStep, Count
    <3>3. memq = <<>> /\ ~nice_icb_cmd_hsked(i)
      BY <3>1 DEF BlockingInv, BurstAccounting, nice_icb_cmd_hsked, nice_icb_cmd_valid
    <3> QED BY <1>1, <3>2, <3>3
  <2> QED BY <2>1, <2>2 DEF clonum
<1> QED BY <1>3, <1>4

\* SBUF: commands issued = answers received + answers outstanding.
LEMMA SbufAccounting ==
  ASSUME BlockingInv, NEW i, NEW a, StepWith(i, a)
  PROVE  /\ state' = "SBUF" => sbuf'.cnt <= clonum /\ sbuf'.cmd = sbuf'.cnt + Len(memq')
         /\ state' # "SBUF" => sbuf'.cmd = 0 /\ sbuf'.cnt = 0
<1>1. /\ sbuf.cnt \in 0 .. 3 /\ sbuf.cmd \in 0 .. 3
      /\ Len(memq') = Len(memq) + (IF nice_icb_cmd_hsked(i) THEN 1 ELSE 0)
                                - (IF i.rspVld THEN 1 ELSE 0)
      /\ Len(memq) \in Nat /\ (i.rspVld => Len(memq) > 0)
  BY QueueLengths DEF BlockingInv, TypeOK, CoreTypeOK, Burst, Idx, ROWBUF_DP
<1>2. FsmStep(i) /\ SbufStep(i)
  BY DEF StepWith, CoreStep
<1>3. CASE state = "SBUF"
  <2>1. /\ sbuf.cnt <= 2 /\ sbuf.cmd = sbuf.cnt + Len(memq)
        /\ state' = IF i.rspVld /\ sbuf.cnt = 2 THEN "IDLE" ELSE "SBUF"
    BY <1>2, <1>3 DEF BlockingInv, BurstAccounting, FsmStep, state_exit_ena, clonum
  <2>2. nice_icb_cmd_hsked(i) <=> sbuf.cmd <= 2 /\ i.cmdRdy
    BY <1>3 DEF nice_icb_cmd_hsked, nice_icb_cmd_valid, clonum
  <2>3. sbuf'.cnt = IF ~i.rspVld THEN sbuf.cnt ELSE IF sbuf.cnt = 2 THEN 0 ELSE sbuf.cnt + 1
    BY <1>1, <1>2, <1>3, <2>1, CountUp DEF SbufStep, clonum, Count
  <2>4. sbuf'.cmd = IF nice_icb_cmd_hsked(i) THEN sbuf.cmd + 1
                    ELSE IF i.rspVld /\ sbuf.cnt = 2 THEN 0 ELSE sbuf.cmd
    BY <1>1, <1>2, <1>3, <2>2, CountUp DEF SbufStep, clonum, Count
  <2>5. CASE i.rspVld /\ sbuf.cnt = 2
    <3>1. sbuf.cmd = 3 /\ ~nice_icb_cmd_hsked(i)
      BY <1>1, <2>1, <2>2, <2>5
    <3> QED BY <1>1, <2>1, <2>3, <2>4, <2>5, <3>1
  <2>6. CASE i.rspVld /\ sbuf.cnt # 2
    <3>1. Len(memq') = Len(memq) - 1 + (IF nice_icb_cmd_hsked(i) THEN 1 ELSE 0)
      BY <1>1, <2>6
    <3> QED BY <1>1, <2>1, <2>3, <2>4, <2>6, <3>1 DEF clonum
  <2>7. CASE ~i.rspVld
    BY <1>1, <2>1, <2>3, <2>4, <2>7 DEF clonum
  <2> QED BY <2>5, <2>6, <2>7
<1>4. CASE state # "SBUF"
  <2>1. ~(state = "IDLE" /\ nice_icb_cmd_hsked(i))
    BY DEF nice_icb_cmd_hsked, nice_icb_cmd_valid
  <2>2. sbuf.cmd = 0 /\ sbuf'.cmd = 0 /\ sbuf.cnt = 0 /\ sbuf'.cnt = 0
    BY <1>2, <1>4, <2>1 DEF BlockingInv, BurstAccounting, SbufStep, Count
  <2>3. ASSUME state' = "SBUF"
        PROVE  Len(memq') = 0
    <3>1. state = "IDLE"
      BY <1>2, <1>4, <2>3 DEF FsmStep, state_exit_ena
    <3>2. memq = <<>> /\ ~nice_icb_cmd_hsked(i)
      BY <3>1, <2>1 DEF BlockingInv, BurstAccounting
    <3> QED BY <1>1, <3>2
  <2> QED BY <2>2, <2>3 DEF clonum
<1> QED BY <1>3, <1>4

\* ROWSUM: the same, or the row is complete and its sum is waited for.
LEMMA RowsumAccounting ==
  ASSUME BlockingInv, NEW i, NEW a, StepWith(i, a)
  PROVE  /\ state' = "ROWSUM" =>
              \/ rcv'.idx < clonum /\ rowsum'.cnt <= clonum
                   /\ rowsum'.cmd = rowsum'.cnt + Len(memq')
              \/ rcv'.idx = clonum /\ rowsum'.cnt = 0
                   /\ rowsum'.cmd = clonum + 1 /\ memq' = <<>>
         /\ state' # "ROWSUM" =>
              rowsum'.cmd = 0 /\ rowsum'.cnt = 0 /\ rcv'.idx = 0 /\ ~rcv'.vld
<1>1. /\ rowsum.cnt \in 0 .. 3 /\ rowsum.cmd \in 0 .. 3 /\ rcv.idx \in 0 .. 3
      /\ Len(memq') = Len(memq) + (IF nice_icb_cmd_hsked(i) THEN 1 ELSE 0)
                                - (IF i.rspVld THEN 1 ELSE 0)
      /\ Len(memq) \in Nat /\ (i.rspVld => Len(memq) > 0)
      /\ (memq' = <<>> <=> Len(memq') = 0)
  BY QueueLengths DEF BlockingInv, TypeOK, CoreTypeOK, Idx, ROWBUF_DP
<1>2. FsmStep(i) /\ RowsumStep(i)
  BY DEF StepWith, CoreStep
<1>3. CASE state = "ROWSUM"
  <2>1. state' = IF nice_rsp_hsked(i) THEN "IDLE" ELSE "ROWSUM"
    BY <1>2, <1>3 DEF FsmStep, state_exit_ena
  <2>2. nice_icb_cmd_hsked(i) <=> rowsum.cmd <= 2 /\ i.cmdRdy
    BY <1>3 DEF nice_icb_cmd_hsked, nice_icb_cmd_valid, clonum
  <2>3. rowsum.cnt <= 2 =>
          rowsum'.cnt = IF ~i.rspVld THEN rowsum.cnt
                        ELSE IF rowsum.cnt = 2 THEN 0 ELSE rowsum.cnt + 1
    BY <1>1, <1>2, <1>3, CountUp DEF RowsumStep, rowbuf_icb_rsp_hsked, clonum, Count
  <2>4. rowsum'.cmd = IF nice_icb_cmd_hsked(i) THEN rowsum.cmd + 1
                      ELSE IF nice_rsp_hsked(i) THEN 0 ELSE rowsum.cmd
    BY <1>1, <1>2, <1>3, <2>2, CountUp DEF RowsumStep, rowbuf_icb_rsp_hsked, clonum, Count
  <2>5. /\ rcv'.idx = IF i.rspVld THEN rowsum.cnt
                      ELSE IF nice_rsp_valid_rowsum /\ i.rspRdy THEN 0 ELSE rcv.idx
        /\ (i.rspVld \/ ~rcv'.vld)
    BY <1>2, <1>3 DEF RowsumStep, rowbuf_icb_rsp_hsked
  <2>6. CASE rcv.idx = 2
    <3>1. rowsum.cnt = 0 /\ rowsum.cmd = 3 /\ memq = <<>>
      BY <1>3, <2>6 DEF BlockingInv, BurstAccounting, clonum
    <3>2. ~i.rspVld /\ ~nice_icb_cmd_hsked(i) /\ Len(memq') = 0
      BY <1>1, <2>2, <3>1
    <3>3. CASE nice_rsp_hsked(i)
      <4>1. nice_rsp_valid_rowsum /\ i.rspRdy
        BY <1>3, <3>3, TakenInTurn DEF nice_rsp_hsked
      <4> QED BY <2>1, <2>3, <2>4, <2>5, <3>1, <3>2, <3>3, <4>1
    <3>4. CASE ~nice_rsp_hsked(i)
      <4>1. ~(nice_rsp_valid_rowsum /\ i.rspRdy)
        BY <3>4 DEF nice_rsp_hsked, nice_rsp_multicyc_valid
      <4> QED BY <1>1, <2>1, <2>3, <2>4, <2>5, <2>6, <3>1, <3>2, <3>4, <4>1 DEF clonum
    <3> QED BY <3>3, <3>4
  <2>7. CASE rcv.idx # 2
    <3>1. rcv.idx < 2 /\ rowsum.cnt <= 2 /\ rowsum.cmd = rowsum.cnt + Len(memq)
      BY <1>3, <2>7 DEF BlockingInv, BurstAccounting, clonum
    <3>2. ~nice_rsp_hsked(i) /\ ~nice_rsp_valid_rowsum
      BY <1>3, <2>7, TakenInTurn DEF clonum, nice_rsp_valid_rowsum
    <3>3. CASE i.rspVld /\ rowsum.cnt = 2
      <4>1. rowsum.cmd = 3 /\ ~nice_icb_cmd_hsked(i) /\ Len(memq') = 0
        BY <1>1, <2>2, <3>1, <3>3
      <4> QED BY <1>1, <2>1, <2>3, <2>4, <2>5, <3>2, <3>3, <4>1 DEF clonum
    <3>4. CASE i.rspVld /\ rowsum.cnt # 2
      <4>1. Len(memq') = Len(memq) - 1 + (IF nice_icb_cmd_hsked(i) THEN 1 ELSE 0)
        BY <1>1, <3>4
      <4> QED BY <1>1, <2>1, <2>3, <2>4, <2>5, <3>1, <3>2, <3>4, <4>1 DEF clonum
    <3>5. CASE ~i.rspVld
      BY <1>1, <2>1, <2>3, <2>4, <2>5, <3>1, <3>2, <3>5 DEF clonum
    <3> QED BY <3>3, <3>4, <3>5
  <2> QED BY <2>6, <2>7
<1>4. CASE state # "ROWSUM"
  <2>1. rowsum.cmd = 0 /\ rowsum.cnt = 0 /\ rcv.idx = 0 /\ ~nice_rsp_valid_rowsum
    BY <1>4 DEF BlockingInv, BurstAccounting, nice_rsp_valid_rowsum
  <2>2. rowsum'.cmd = 0 /\ rowsum'.cnt = 0 /\ rcv'.idx = 0 /\ ~rcv'.vld
    BY <1>2, <1>4, <2>1 DEF RowsumStep, rowbuf_icb_rsp_hsked, Count
  <2>3. ASSUME state' = "ROWSUM"
        PROVE  Len(memq') = 0
    <3>1. state = "IDLE"
      BY <1>2, <1>4, <2>3 DEF FsmStep, state_exit_ena
    <3>2. memq = <<>> /\ ~nice_icb_cmd_hsked(i)
      BY <3>1 DEF BlockingInv, BurstAccounting, nice_icb_cmd_hsked, nice_icb_cmd_valid
    <3> QED BY <1>1, <3>2
  <2> QED BY <2>2, <2>3 DEF clonum
<1> QED BY <1>3, <1>4

\* At most three accesses are in flight, and none when no memory instruction runs.
LEMMA FlightBound ==
  ASSUME BlockingInv
  PROVE  /\ nice_icb_cmd_valid => Len(memq) <= clonum
         /\ state \in {"IDLE", "PIPE"} => memq = <<>>
<1>1. /\ lbuf.cnt \in 0 .. 3 /\ lbuf.cmd \in 0 .. 3 /\ sbuf.cnt \in 0 .. 3 /\ sbuf.cmd \in 0 .. 3
      /\ rowsum.cnt \in 0 .. 3 /\ rowsum.cmd \in 0 .. 3 /\ Len(memq) \in Nat
  BY DEF BlockingInv, TypeOK, CoreTypeOK, Burst, Idx, ROWBUF_DP
<1> QED BY <1>1 DEF BlockingInv, BurstAccounting, nice_icb_cmd_valid, clonum

\* The lane FIFO has one entry for each outstanding answer.
LEMMA FifoAccounting ==
  ASSUME BlockingInv, NEW i, NEW a, StepWith(i, a)
  PROVE  /\ Len(rsp_fifo') = Len(memq')
         /\ state' \in {"IDLE", "PIPE"} => memq' = <<>>
<1>1. /\ Len(memq') = Len(memq) + (IF nice_icb_cmd_hsked(i) THEN 1 ELSE 0)
                                - (IF i.rspVld THEN 1 ELSE 0)
      /\ Len(memq) \in Nat /\ (i.rspVld => Len(memq) > 0)
      /\ (memq' = <<>> <=> Len(memq') = 0)
      /\ Len(rsp_fifo) = Len(memq) /\ rsp_fifo \in Seq({0, 1})
  BY QueueLengths DEF BlockingInv, BurstAccounting, TypeOK, CoreTypeOK
<1>2. FsmStep(i) /\ RspFifoStep(i)
  BY DEF StepWith, CoreStep
<1>3. nice_icb_cmd_hsked(i) => Len(rsp_fifo) < ROWBUF_DP
  BY <1>1, FlightBound DEF nice_icb_cmd_hsked, ROWBUF_DP, clonum
<1>4. i.rspVld => rsp_fifo # <<>>
  BY <1>1
<1> DEFINE rest == IF i.rspVld THEN Tail(rsp_fifo) ELSE rsp_fifo
<1>5. rest \in Seq({0, 1}) /\ Len(rest) = Len(rsp_fifo) - (IF i.rspVld THEN 1 ELSE 0)
  BY <1>1, <1>4
<1>6. rsp_fifo' = IF nice_icb_cmd_hsked(i) THEN Append(rest, maddr % 2) ELSE rest
  BY <1>2, <1>3, <1>4 DEF RspFifoStep
<1>7. Len(Append(rest, maddr % 2)) = Len(rest) + 1
  <2>1. maddr % 2 \in {0, 1}
    BY DEF BlockingInv, TypeOK, CoreTypeOK, Addr
  <2> QED BY <1>5, <2>1, AppendProperties
<1>8. Len(rsp_fifo') = Len(memq')
  <2> HIDE DEF rest
  <2>1. Len(rest) \in Nat /\ Len(rest) = Len(memq) - (IF i.rspVld THEN 1 ELSE 0)
    BY <1>1, <1>5
  <2>2. CASE nice_icb_cmd_hsked(i)
    <3>1. Len(rsp_fifo') = Len(rest) + 1
      BY <1>6, <1>7, <2>2
    <3>2. Len(memq') = Len(memq) + 1 - (IF i.rspVld THEN 1 ELSE 0)
      BY <1>1, <2>2
    <3> QED BY <1>1, <2>1, <3>1, <3>2
  <2>3. CASE ~nice_icb_cmd_hsked(i)
    <3>1. Len(rsp_fifo') = Len(rest)
      BY <1>6, <2>3
    <3>2. Len(memq') = Len(memq) - (IF i.rspVld THEN 1 ELSE 0)
      BY <1>1, <2>3
    <3> QED BY <1>1, <2>1, <3>1, <3>2
  <2> QED BY <2>2, <2>3
<1>9. ASSUME state' \in {"IDLE", "PIPE"} PROVE memq' = <<>>
  <2>1. CASE state \in {"IDLE", "PIPE"}
    BY <1>1, <2>1, FlightBound DEF nice_icb_cmd_hsked, nice_icb_cmd_valid
  <2>2. CASE state = "ROWSUM"
    <3>1. nice_rsp_hsked(i)
      BY <1>2, <1>9, <2>2 DEF FsmStep, state_exit_ena
    <3>2. memq = <<>> /\ rowsum.cmd = 3
      BY <2>2, <3>1, TakenInTurn DEF BlockingInv, BurstAccounting, clonum
    <3> QED BY <1>1, <2>2, <3>2 DEF nice_icb_cmd_hsked, nice_icb_cmd_valid, clonum
  <2>3. CASE state = "LBUF"
    <3>1. i.rspVld /\ lbuf.cnt = 2
      BY <1>2, <1>9, <2>3 DEF FsmStep, state_exit_ena, clonum
    <3>2. lbuf.cmd \in 0 .. 3 /\ lbuf.cmd = lbuf.cnt + Len(memq)
      BY <2>3 DEF BlockingInv, BurstAccounting, TypeOK, CoreTypeOK, Burst, Idx, ROWBUF_DP
    <3>3. lbuf.cmd = 3 /\ Len(memq) = 1
      BY <1>1, <3>1, <3>2
    <3> QED BY <1>1, <2>3, <3>1, <3>3 DEF nice_icb_cmd_hsked, nice_icb_cmd_valid, clonum
  <2>4. CASE state = "SBUF"
    <3>1. i.rspVld /\ sbuf.cnt = 2
      BY <1>2, <1>9, <2>4 DEF FsmStep, state_exit_ena, clonum
    <3>2. sbuf.cmd \in 0 .. 3 /\ sbuf.cmd = sbuf.cnt + Len(memq)
      BY <2>4 DEF BlockingInv, BurstAccounting, TypeOK, CoreTypeOK, Burst, Idx, ROWBUF_DP
    <3>3. sbuf.cmd = 3 /\ Len(memq) = 1
      BY <1>1, <3>1, <3>2
    <3> QED BY <1>1, <2>4, <3>1, <3>3 DEF nice_icb_cmd_hsked, nice_icb_cmd_valid, clonum
  <2> QED BY <2>1, <2>2, <2>3, <2>4 DEF BlockingInv, TypeOK, CoreTypeOK
<1> QED BY <1>8, <1>9

\* The core pushes a job exactly when it hands over a multi-cycle instruction.
LEMMA PushedJob ==
  ASSUME NEW i
  PROVE  nice_req_hsked(i) /\ ~nice_rsp_1cyc_type(i)
           <=> nice_req_hsked(i) /\ i.req.op \in MultiCycOps
  BY DEF nice_rsp_1cyc_type

\* The instructions in the tag queue change only at its two ends.
LEMMA QueuedOps ==
  ASSUME TypeOK, NEW i, NEW a, StepWith(i, a)
  PROVE  /\ ~nice_rsp_hsked(i) =>
              \A n \in 1 .. Len(jobs) : n \in 1 .. Len(jobs') /\ jobs'[n].op = jobs[n].op
         /\ nice_req_hsked(i) /\ i.req.op \in MultiCycOps =>
              \E n \in 1 .. Len(jobs') : jobs'[n].op = i.req.op
         /\ ~(nice_req_hsked(i) /\ i.req.op \in MultiCycOps) =>
              \A m \in 1 .. Len(jobs') : \E n \in 1 .. Len(jobs) : jobs'[m].op = jobs[n].op
<1> DEFINE noted == IF nice_icb_cmd_hsked(i) /\ jobs # <<>>
                    THEN [jobs EXCEPT ![Len(jobs)] = Note(jobs[Len(jobs)], a.rdata, a.err)]
                    ELSE jobs
           left == IF nice_rsp_hsked(i) THEN Tail(noted) ELSE noted
           push == nice_req_hsked(i) /\ i.req.op \in MultiCycOps
<1>1. /\ jobs \in Seq(JobRec) /\ (nice_rsp_hsked(i) => jobs # <<>>) /\ i.req = req
      /\ i \in Input /\ a \in Answer
  BY DEF TypeOK, StepWith, nice_rsp_hsked
<1>2. \A j \in JobRec : Note(j, a.rdata, a.err) \in JobRec /\ Note(j, a.rdata, a.err).op = j.op
  <2>1. [addr |-> maddr, dat |-> CmdWord(a.rdata)] \in [addr : Addr, dat : Word]
    BY <1>1, CmdWordType DEF TypeOK, CoreTypeOK, Answer
  <2> QED BY <1>1, <2>1 DEF Note, JobRec, Answer
<1>3. /\ noted \in Seq(JobRec) /\ Len(noted) = Len(jobs)
      /\ \A n \in 1 .. Len(jobs) : noted[n].op = jobs[n].op
  BY <1>1, <1>2
<1>4. /\ left \in Seq(JobRec)
      /\ ~nice_rsp_hsked(i) => left = noted
      /\ nice_rsp_hsked(i) => Len(left) = Len(noted) - 1
           /\ \A n \in 1 .. Len(left) : left[n] = noted[n + 1]
  <2> HIDE DEF noted
  <2> QED BY <1>1, <1>3
<1>5. jobs' = IF push THEN Append(left, Job(req)) ELSE left
  BY PushedJob DEF StepWith, JobsStep
<1>6. push => Job(req) \in JobRec /\ Job(req).op = i.req.op
  BY <1>1, InputReq, AddType DEF TypeOK, Job, JobRec
<1> HIDE DEF noted, left
<1>7. /\ \A n \in 1 .. Len(left) : n \in 1 .. Len(jobs') /\ jobs'[n] = left[n]
      /\ push => Len(jobs') \in 1 .. Len(jobs') /\ jobs'[Len(jobs')].op = i.req.op
  <2>1. CASE push
    <3>1. /\ Len(Append(left, Job(req))) = Len(left) + 1
          /\ Append(left, Job(req))[Len(left) + 1] = Job(req)
          /\ \A n \in 1 .. Len(left) : Append(left, Job(req))[n] = left[n]
          /\ Len(left) \in Nat
      BY <1>4, <1>6, <2>1, AppendProperties, LenProperties
    <3> QED BY <1>5, <1>6, <2>1, <3>1
  <2>2. CASE ~push
    BY <1>5, <2>2
  <2> QED BY <2>1, <2>2
<1>8. ~push => \A m \in 1 .. Len(jobs') : \E n \in 1 .. Len(jobs) : jobs'[m].op = jobs[n].op
  <2> SUFFICES ASSUME ~push, NEW m \in 1 .. Len(jobs')
               PROVE  \E n \in 1 .. Len(jobs) : jobs'[m].op = jobs[n].op
    OBVIOUS
  <2>1. jobs' = left
    BY <1>5
  <2>2. CASE nice_rsp_hsked(i)
    <3>1. m + 1 \in 1 .. Len(jobs) /\ jobs'[m].op = jobs[m + 1].op
      BY <1>1, <1>3, <1>4, <2>1, <2>2
    <3> QED BY <3>1
  <2>3. CASE ~nice_rsp_hsked(i)
    BY <1>3, <1>4, <2>1, <2>3
  <2> QED BY <2>2, <2>3
<1>9. ~nice_rsp_hsked(i) =>
        \A n \in 1 .. Len(jobs) : n \in 1 .. Len(jobs') /\ jobs'[n].op = jobs[n].op
  BY <1>3, <1>4, <1>7
<1> QED BY <1>7, <1>8, <1>9

\* A memory instruction stays the only outstanding one.
LEMMA MemRunsAloneStep ==
  ASSUME Blocking, BlockingInv, NEW i, NEW a, StepWith(i, a)
  PROVE  MemRunsAlone'
<1> DEFINE push == nice_req_hsked(i) /\ i.req.op \in MultiCycOps
<1>1. /\ FsmStep(i) /\ LbufStep(i) /\ SbufStep(i) /\ ReqStep(i) /\ i.req = req
      /\ TypeOK /\ CoreTypeOK
  BY DEF StepWith, CoreStep, BlockingInv, TypeOK
<1>2. /\ lbuf'.vld <=> ~(lbuf.vld /\ nice_rsp_hsked(i))
                         /\ (lbuf.vld \/ (state = "LBUF" /\ i.rspVld /\ lbuf.cnt = clonum))
      /\ sbuf'.vld <=> ~(sbuf.vld /\ nice_rsp_hsked(i))
                         /\ (sbuf.vld \/ (state = "SBUF" /\ i.rspVld /\ sbuf.cnt = clonum))
  BY <1>1 DEF LbufStep, SbufStep, RspValid, CoreTypeOK, Burst
<1>3. lbuf'.vld \/ sbuf'.vld => state' = "IDLE"
  <2>1. ASSUME lbuf.vld \/ sbuf.vld PROVE ~push /\ state = "IDLE"
    BY <2>1, AcceptsAlone DEF BlockingInv, MemRunsAlone
  <2>2. ASSUME lbuf.vld \/ sbuf.vld PROVE state' = "IDLE"
    BY <1>1, <2>1, <2>2 DEF FsmStep, state_exit_ena
  <2>3. /\ state = "LBUF" /\ i.rspVld /\ lbuf.cnt = clonum => state' = "IDLE"
        /\ state = "SBUF" /\ i.rspVld /\ sbuf.cnt = clonum => state' = "IDLE"
    BY <1>1 DEF FsmStep, state_exit_ena
  <2> QED BY <1>2, <2>2, <2>3
<1>4. ASSUME nice_mem_holdup' \/ lbuf'.vld \/ sbuf'.vld
      PROVE  \E n \in 1 .. Len(jobs') : IsMemJob(jobs'[n])
  <2>1. CASE state = "IDLE" /\ nice_req_hsked(i) /\ i.req.op \in MemOps
    BY <1>1, <2>1, QueuedOps DEF IsMemJob, MultiCycOps
  <2>2. CASE ~(state = "IDLE" /\ nice_req_hsked(i) /\ i.req.op \in MemOps)
    <3>1. ~nice_rsp_hsked(i) /\ (nice_mem_holdup \/ lbuf.vld \/ sbuf.vld)
      <4>1. CASE nice_mem_holdup'
        <5>1. state' = state /\ nice_mem_holdup
          BY <1>1, <2>2, <4>1 DEF FsmStep, state_exit_ena, nice_mem_holdup, state_idle_nxt, MultiCycOps
        <5>2. state = "ROWSUM" => ~nice_rsp_hsked(i)
          BY <1>1, <5>1 DEF FsmStep, state_exit_ena
        <5> QED BY <5>1, <5>2, TakenInTurn DEF nice_mem_holdup
      <4>2. CASE ~nice_mem_holdup'
        <5>1. nice_mem_holdup \/ lbuf.vld \/ sbuf.vld
          BY <1>2, <1>4, <4>2 DEF nice_mem_holdup
        <5>2. ASSUME nice_rsp_hsked(i) PROVE FALSE
          BY <1>2, <1>4, <4>2, <5>2, TakenInTurn
        <5> QED BY <5>1, <5>2
      <4> QED BY <4>1, <4>2
    <3>2. PICK n \in 1 .. Len(jobs) : IsMemJob(jobs[n])
      BY <3>1 DEF BlockingInv, MemRunsAlone
    <3> QED BY <1>1, <3>1, <3>2, QueuedOps DEF IsMemJob
  <2> QED BY <2>1, <2>2
<1>5. ASSUME req'.op \in MultiCycOps
      PROVE  \A n \in 1 .. Len(jobs') : ~IsMemJob(jobs'[n])
  <2>1. CASE req # NoReq /\ ~nice_req_hsked(i)
    <3>0. req' # NoReq
      BY <1>5 DEF NoReq, MultiCycOps, MemOps
    <3>1. req' = req /\ ~push
      BY <1>1, <2>1, <3>0 DEF ReqStep
    <3>2. \A n \in 1 .. Len(jobs) : ~IsMemJob(jobs[n])
      BY <1>5, <3>1 DEF BlockingInv, MemRunsAlone
    <3> QED BY <1>1, <3>1, <3>2, QueuedOps DEF IsMemJob
  <2>2. CASE ~(req # NoReq /\ ~nice_req_hsked(i))
    <3>1. req' # NoReq
      BY <1>5 DEF NoReq, MultiCycOps, MemOps
    <3>2. MayPresent(req', jobs')
      BY <1>1, <2>2, <3>1 DEF ReqStep
    <3> QED BY <1>5, <3>2 DEF MayPresent
  <2> QED BY <2>1, <2>2
<1> QED BY <1>3, <1>4, <1>5 DEF MemRunsAlone

\* Under the blocking discipline commands, answers and accesses in flight stay
\* in step, and a memory instruction is alone in the unit: the invariant is
\* inductive, whatever the widths, the requests, the stalls and the errors.
THEOREM BlockingCorrect == Blocking /\ Spec => []BlockingInv
<1> SUFFICES ASSUME Blocking PROVE Spec => []BlockingInv
  OBVIOUS
<1>1. Init => BlockingInv
  <2> SUFFICES ASSUME Init PROVE BlockingInv
    OBVIOUS
  <2>1. TypeOK
    BY ModAssumption, SysAssumption DEF Init, CoreInit, TypeOK, CoreTypeOK, Burst, Idx,
       ROWBUF_DP, Word, XWord, Addr, Requested, ITags, clonum
  <2>2. BurstAccounting
    BY DEF Init, CoreInit, BurstAccounting
  <2>3. MemRunsAlone
    BY DEF Init, CoreInit, MemRunsAlone, nice_mem_holdup, NoReq, MultiCycOps, MemOps
  <2> QED BY <2>1, <2>2, <2>3 DEF BlockingInv
<1>2. BlockingInv /\ [Next]_vars => BlockingInv'
  <2> SUFFICES ASSUME BlockingInv, [Next]_vars PROVE BlockingInv'
    OBVIOUS
  <2>1. CASE Next
    <3>1. PICK wb \in BOOLEAN, cmd \in BOOLEAN, rsp \in BOOLEAN : Cycle(wb, cmd, rsp)
      BY <2>1 DEF Next, IdleCycle, LbufCycle, SbufCycle, PipeCycle, RowsumCycle, InState
    <3>2. TypeOK'
      BY <3>1, CycleType DEF BlockingInv
    <3>3. PICK i, a : StepWith(i, a)
      BY <3>1, CycleIsStep DEF BlockingInv
    <3>4. BurstAccounting'
      BY <3>3, LbufAccounting, SbufAccounting, RowsumAccounting, FifoAccounting
         DEF BurstAccounting
    <3>5. MemRunsAlone'
      BY <3>3, MemRunsAloneStep
    <3> QED BY <3>2, <3>4, <3>5 DEF BlockingInv
  <2>2. CASE UNCHANGED vars
    BY <2>2 DEF vars, coreVars, BlockingInv, TypeOK, CoreTypeOK, BurstAccounting, MemRunsAlone,
       nice_mem_holdup
  <2> QED BY <2>1, <2>2
<1> QED BY <1>1, <1>2, PTL DEF Spec

\* Under the blocking discipline nice_mem_holdup is high whenever an access of
\* the unit is in flight, so the core's loads and stores never overtake it.
THEOREM HoldupCorrect == Blocking /\ Spec => []HoldupCoversAccess
<1>1. BlockingInv => HoldupCoversAccess
  BY DEF BlockingInv, BurstAccounting, TypeOK, CoreTypeOK, HoldupCoversAccess, nice_mem_holdup
<1> QED BY <1>1, BlockingCorrect, PTL

\* Under the blocking discipline the two OR-ed write ports of the row buffer
\* are never driven in one cycle, nor while a crowbuf can be accepted.
THEOREM RowbufPortCorrect == Blocking /\ Spec => []RowbufPortExclusive
<1>1. BlockingInv => RowbufPortExclusive
  BY DEF BlockingInv, BurstAccounting, RowbufPortExclusive
<1> QED BY <1>1, BlockingCorrect, PTL

(***************************************************************************)
(* What the unit answers.  The invariant ties the registers of the running  *)
(* instruction to its job: what has been sent and received of the burst,    *)
(* which errors are still on their way, and where each word of it is - in   *)
(* flight, in the receive register, or already added to the row buffer.     *)
(***************************************************************************)

OpOf == [LBUF |-> "lbuf", SBUF |-> "sbuf", ROWSUM |-> "rowsum"]

\* Commands sent, answers received and rows added of the running burst.
Sent == IF state = "LBUF" THEN lbuf.cmd ELSE IF state = "SBUF" THEN sbuf.cmd ELSE rowsum.cmd
Received ==
  IF state = "LBUF" THEN lbuf.cnt
  ELSE IF state = "SBUF" THEN sbuf.cnt
  ELSE IF rcv.idx = clonum THEN clonum + 1 ELSE rowsum.cnt
Added == IF rcv.vld THEN Received - 1 ELSE Received

\* There is one job, of instruction op, and n of its accesses were accepted.
Moved(op, n) ==
  /\ Len(jobs) = 1 /\ jobs[1].op = op /\ Len(jobs[1].words) = n
  /\ \A k \in 0 .. n - 1 : jobs[1].words[k + 1].addr = (jobs[1].base + k) % AddrMod

JobTracked ==
  /\ nice_mem_holdup => Moved(OpOf[state], Sent) /\ maddr = (jobs[1].base + Sent) % AddrMod
  /\ lbuf.vld => Moved("lbuf", clonum + 1)
  /\ sbuf.vld => Moved("sbuf", clonum + 1)
  /\ state = "IDLE" /\ ~lbuf.vld /\ ~sbuf.vld => jobs = <<>>

\* An error noted in the running job is in the unit's flag or on its way to it.
ErrInFlight == \E n \in 1 .. Len(memq) : memq[n].err
ErrTracked ==
  /\ state = "LBUF" => (jobs[1].err <=> lbuf.err \/ ErrInFlight)
  /\ state = "SBUF" => (jobs[1].err <=> sbuf.err \/ ErrInFlight)
  /\ state = "ROWSUM" => (jobs[1].err <=> rowsum.err \/ ErrInFlight)
  /\ lbuf.vld => (jobs[1].err <=> lbuf.err)
  /\ sbuf.vld => (jobs[1].err <=> sbuf.err)
  /\ state # "LBUF" /\ ~lbuf.vld => ~lbuf.err
  /\ state # "SBUF" /\ ~sbuf.vld => ~sbuf.err
  /\ state # "ROWSUM" => ~rowsum.err

\* The pipe holds the sums of the pipeadd jobs, the oldest in its last stage.
Held(k) == IF pipe[k].vld THEN 1 ELSE 0
PipeTracked ==
  /\ state # "PIPE" => \A k \in 0 .. 2 : ~pipe[k].vld
  /\ state = "PIPE" =>
       /\ Len(jobs) = Held(0) + Held(1) + Held(2)
       /\ \A n \in 1 .. Len(jobs) : jobs[n].op = "pipeadd" /\ ~jobs[n].err
       /\ pipe[2].vld => jobs[1].sum = pipe[2].dat
       /\ pipe[1].vld => jobs[1 + Held(2)].sum = pipe[1].dat
       /\ pipe[0].vld => jobs[1 + Held(1) + Held(2)].sum = pipe[0].dat

WordIn(js, k) == js[1].words[k + 1].dat
WordOf(k) == WordIn(jobs, k)

\* The word of the n-th access in flight is on the half of the bus that the
\* lane FIFO will select for it.
LaneTracked ==
  state \in {"LBUF", "ROWSUM"} =>
    \A n \in 1 .. Len(memq) : memq[n].rdata[1 + rsp_fifo[n]] = WordOf(Received + n - 1)

\* cols runs ahead of the row buffer by the words sent for and not yet written.
ColsTracked ==
  /\ rowbuf[clonum + 1] = 0
  /\ \A k \in 0 .. clonum :
       IF state = "LBUF" /\ lbuf.cnt <= k /\ k < lbuf.cmd THEN cols[k] = WordOf(k)
       ELSE IF state = "ROWSUM" /\ Added <= k /\ k < Sent
       THEN cols[k] = (rowbuf[k] + WordOf(k)) % WordMod
       ELSE cols[k] = rowbuf[k]

SumOf(n) == IF n = 1 THEN WordOf(0)
            ELSE IF n = 2 THEN (WordOf(0) + WordOf(1)) % WordMod
            ELSE (WordOf(0) + WordOf(1) + WordOf(2)) % WordMod
SumTracked ==
  state = "ROWSUM" =>
    /\ rcv.vld => Received > 0 /\ rcv.dat = WordOf(Received - 1)
    /\ Received > 0 => rcv.idx = Received - 1
    /\ Added > 0 => rowsum_acc = SumOf(Added)

NiceInv ==
  /\ BlockingInv
  /\ JobTracked /\ ErrTracked /\ PipeTracked /\ LaneTracked /\ ColsTracked /\ SumTracked

\* The only job is answered, or keeps its place with the access of this cycle
\* noted; without a job only an accepted request makes one.
LEMMA OneJobStep ==
  ASSUME TypeOK, NEW i, NEW a, StepWith(i, a)
  PROVE  /\ Len(jobs) = 1 /\ ~(nice_req_hsked(i) /\ i.req.op \in MultiCycOps) =>
              /\ nice_rsp_hsked(i) => jobs' = <<>>
              /\ ~nice_rsp_hsked(i) =>
                   /\ Len(jobs') = 1
                   /\ jobs'[1] = IF nice_icb_cmd_hsked(i) THEN Note(jobs[1], a.rdata, a.err)
                                 ELSE jobs[1]
         /\ jobs = <<>> =>
              IF nice_req_hsked(i) /\ i.req.op \in MultiCycOps
              THEN Len(jobs') = 1 /\ jobs'[1] = Job(req)
              ELSE jobs' = <<>>
<1> DEFINE push == nice_req_hsked(i) /\ i.req.op \in MultiCycOps
           noted == IF nice_icb_cmd_hsked(i) /\ jobs # <<>>
                    THEN [jobs EXCEPT ![Len(jobs)] = Note(jobs[Len(jobs)], a.rdata, a.err)]
                    ELSE jobs
           left == IF nice_rsp_hsked(i) THEN Tail(noted) ELSE noted
<1>1. /\ jobs \in Seq(JobRec) /\ (nice_rsp_hsked(i) => jobs # <<>>)
      /\ i \in Input /\ a \in Answer /\ i.req = req
  BY DEF TypeOK, StepWith, nice_rsp_hsked
<1>2. jobs' = IF push THEN Append(left, Job(req)) ELSE left
  BY PushedJob DEF StepWith, JobsStep
<1>3. \A j \in JobRec : Note(j, a.rdata, a.err) \in JobRec
  <2>1. [addr |-> maddr, dat |-> CmdWord(a.rdata)] \in [addr : Addr, dat : Word]
    BY <1>1, CmdWordType DEF TypeOK, CoreTypeOK, Answer
  <2> QED BY <1>1, <2>1 DEF Note, JobRec, Answer
<1>4. ASSUME Len(jobs) = 1, ~push
      PROVE  /\ nice_rsp_hsked(i) => jobs' = <<>>
             /\ ~nice_rsp_hsked(i) =>
                  /\ Len(jobs') = 1
                  /\ jobs'[1] = IF nice_icb_cmd_hsked(i) THEN Note(jobs[1], a.rdata, a.err)
                                ELSE jobs[1]
  <2>1. /\ noted \in Seq(JobRec) /\ Len(noted) = 1
        /\ noted[1] = IF nice_icb_cmd_hsked(i) THEN Note(jobs[1], a.rdata, a.err) ELSE jobs[1]
    BY <1>1, <1>3, <1>4
  <2>2. jobs' = left
    BY <1>2, <1>4
  <2>3. Tail(noted) = <<>>
    <3> HIDE DEF noted
    <3>1. Tail(noted) \in Seq(JobRec) /\ Len(Tail(noted)) = 0
      BY <2>1
    <3> QED BY <3>1, EmptySeq
  <2> HIDE DEF noted
  <2> QED BY <2>1, <2>2, <2>3
<1>5. ASSUME jobs = <<>>
      PROVE  IF push THEN Len(jobs') = 1 /\ jobs'[1] = Job(req) ELSE jobs' = <<>>
  <2>1. left = <<>>
    BY <1>1, <1>5
  <2>2. push => Job(req) \in JobRec
    BY <1>1, InputReq, AddType DEF TypeOK, Job, JobRec
  <2> HIDE DEF left
  <2>3. Len(Append(<<>>, Job(req))) = 1 /\ Append(<<>>, Job(req))[1] = Job(req)
    OBVIOUS
  <2> QED BY <1>2, <2>1, <2>3
<1> QED BY <1>4, <1>5

\* The accesses in flight and their lanes move up by one when memory answers,
\* and the access accepted in this cycle goes to the end.
LEMMA FlightStep ==
  ASSUME BlockingInv, NEW i, NEW a, StepWith(i, a)
  PROVE  LET d == IF i.rspVld THEN 1 ELSE 0
             c == IF nice_icb_cmd_hsked(i) THEN 1 ELSE 0
         IN /\ Len(memq') = Len(memq) - d + c /\ Len(memq) \in Nat /\ d <= Len(memq)
            /\ \A n \in 1 .. Len(memq) - d :
                 memq'[n] = memq[n + d] /\ rsp_fifo'[n] = rsp_fifo[n + d]
            /\ nice_icb_cmd_hsked(i) =>
                 memq'[Len(memq')] = a /\ rsp_fifo'[Len(memq')] = maddr % 2
<1>1. /\ memq \in Seq(Answer) /\ (i.rspVld => memq # <<>>) /\ a \in Answer /\ MemStep(i, a)
      /\ rsp_fifo \in Seq({0, 1}) /\ Len(rsp_fifo) = Len(memq) /\ RspFifoStep(i)
      /\ maddr % 2 \in {0, 1}
  BY DEF StepWith, CoreStep, BlockingInv, BurstAccounting, TypeOK, CoreTypeOK, Addr
<1>2. nice_icb_cmd_hsked(i) => Len(rsp_fifo) < ROWBUF_DP
  BY <1>1, FlightBound DEF nice_icb_cmd_hsked, ROWBUF_DP, clonum
<1> DEFINE d == IF i.rspVld THEN 1 ELSE 0
           mrest == IF i.rspVld THEN Tail(memq) ELSE memq
           frest == IF i.rspVld THEN Tail(rsp_fifo) ELSE rsp_fifo
<1>3. /\ memq' = IF nice_icb_cmd_hsked(i) THEN Append(mrest, a) ELSE mrest
      /\ rsp_fifo' = IF nice_icb_cmd_hsked(i) THEN Append(frest, maddr % 2) ELSE frest
  BY <1>1, <1>2 DEF MemStep, RspFifoStep
<1>4. /\ mrest \in Seq(Answer) /\ Len(mrest) = Len(memq) - d /\ Len(memq) \in Nat
      /\ d <= Len(memq) /\ Len(mrest) \in Nat
      /\ \A n \in 1 .. Len(mrest) : mrest[n] = memq[n + d]
  BY <1>1
<1>5. /\ frest \in Seq({0, 1}) /\ Len(frest) = Len(mrest)
      /\ \A n \in 1 .. Len(mrest) : frest[n] = rsp_fifo[n + d]
  BY <1>1
<1> HIDE DEF mrest, frest
<1>6. /\ Len(Append(mrest, a)) = Len(mrest) + 1
      /\ \A n \in 1 .. Len(mrest) : Append(mrest, a)[n] = mrest[n]
      /\ Append(mrest, a)[Len(mrest) + 1] = a
  BY <1>1, <1>4, AppendProperties
<1>7. /\ \A n \in 1 .. Len(mrest) : Append(frest, maddr % 2)[n] = frest[n]
      /\ Append(frest, maddr % 2)[Len(mrest) + 1] = maddr % 2
  BY <1>1, <1>5, AppendProperties
<1>8. CASE nice_icb_cmd_hsked(i)
  BY <1>3, <1>4, <1>5, <1>6, <1>7, <1>8
<1>9. CASE ~nice_icb_cmd_hsked(i)
  BY <1>3, <1>4, <1>5, <1>9
<1> QED BY <1>8, <1>9

\* An error goes from the access to memory's answer to the unit's flag.
LEMMA ErrFlow ==
  ASSUME BlockingInv, NEW i, NEW a, StepWith(i, a)
  PROVE  ErrInFlight' \/ i.rerr <=> ErrInFlight \/ (nice_icb_cmd_hsked(i) /\ a.err)
<1> DEFINE d == IF i.rspVld THEN 1 ELSE 0
           c == IF nice_icb_cmd_hsked(i) THEN 1 ELSE 0
<1>1. /\ Len(memq') = Len(memq) - d + c /\ Len(memq) \in Nat /\ d <= Len(memq)
      /\ \A n \in 1 .. Len(memq) - d : memq'[n] = memq[n + d]
      /\ nice_icb_cmd_hsked(i) => memq'[Len(memq')] = a
  BY FlightStep
<1>2. i.rspVld => Head(memq) = memq[1]
  BY DEF StepWith, BlockingInv, TypeOK
<1>3. i.rerr <=> i.rspVld /\ memq[1].err
  BY <1>2 DEF StepWith
<1>4. ASSUME NEW n \in 1 .. Len(memq'), memq'[n].err
      PROVE  ErrInFlight \/ (nice_icb_cmd_hsked(i) /\ a.err)
  <2>1. CASE n <= Len(memq) - d
    <3>1. n + d \in 1 .. Len(memq) /\ memq[n + d].err
      BY <1>1, <1>4, <2>1
    <3> QED BY <3>1 DEF ErrInFlight
  <2>2. CASE n > Len(memq) - d
    <3>1. n = Len(memq') /\ nice_icb_cmd_hsked(i)
      BY <1>1, <1>4, <2>2
    <3> QED BY <1>1, <1>4, <3>1
  <2> QED BY <1>1, <2>1, <2>2
<1>5. i.rerr => ErrInFlight
  BY <1>1, <1>3 DEF ErrInFlight
<1>6. ASSUME NEW n \in 1 .. Len(memq), memq[n].err
      PROVE  ErrInFlight' \/ i.rerr
  <2>1. CASE n = d
    BY <1>3, <1>6, <2>1
  <2>2. CASE n # d
    <3>1. /\ n - d \in 1 .. Len(memq) - d /\ n - d \in 1 .. Len(memq')
          /\ (n - d) + d = n
      BY <1>1, <2>2
    <3>2. memq'[n - d].err
      BY <1>1, <1>6, <3>1
    <3> QED BY <3>1, <3>2 DEF ErrInFlight
  <2> QED BY <2>1, <2>2
<1>7. nice_icb_cmd_hsked(i) /\ a.err => ErrInFlight'
  BY <1>1 DEF ErrInFlight
<1> QED BY <1>4, <1>5, <1>6, <1>7 DEF ErrInFlight

\* A cycle of a running burst: it sends and receives at most one word, and ends
\* when all three are back (lbuf, sbuf) or its response is taken (rowsum).
LEMMA BurstStep ==
  ASSUME NiceInv, NEW i, NEW a, StepWith(i, a), nice_mem_holdup
  PROVE  LET d == IF i.rspVld THEN 1 ELSE 0
             c == IF nice_icb_cmd_hsked(i) THEN 1 ELSE 0
         IN /\ ~(nice_req_hsked(i) /\ i.req.op \in MultiCycOps)
            /\ Sent \in 0 .. 3 /\ Received \in 0 .. 3 /\ Sent = Received + Len(memq)
            /\ nice_icb_cmd_hsked(i) => Sent <= 2
            /\ Received + d <= 3
            /\ maddr' = IF nice_icb_cmd_hsked(i) THEN (maddr + 1) % AddrMod ELSE maddr
            /\ \/ /\ state' = state /\ ~nice_rsp_hsked(i)
                  /\ Sent' = Sent + c /\ Received' = Received + d
               \/ /\ state' = "IDLE" /\ Sent = 3 /\ ~nice_icb_cmd_hsked(i)
                  /\ IF state = "ROWSUM" THEN nice_rsp_hsked(i) /\ Received = 3 /\ d = 0 /\ ~rcv.vld
                     ELSE ~nice_rsp_hsked(i) /\ Received = 2 /\ d = 1
<1> DEFINE d == IF i.rspVld THEN 1 ELSE 0
           c == IF nice_icb_cmd_hsked(i) THEN 1 ELSE 0
<1>1. /\ FsmStep(i) /\ LbufStep(i) /\ SbufStep(i) /\ RowsumStep(i) /\ MaddrStep(i)
      /\ BlockingInv /\ BurstAccounting /\ (d = 1 => Len(memq) > 0) /\ Len(memq) \in Nat
      /\ lbuf.cnt \in 0 .. 3 /\ lbuf.cmd \in 0 .. 3 /\ sbuf.cnt \in 0 .. 3 /\ sbuf.cmd \in 0 .. 3
      /\ rowsum.cnt \in 0 .. 3 /\ rowsum.cmd \in 0 .. 3 /\ rcv.idx \in 0 .. 3
  BY QueueLengths DEF StepWith, CoreStep, NiceInv, BlockingInv, TypeOK, CoreTypeOK, Burst, Idx, ROWBUF_DP
<1>2. ~(nice_req_hsked(i) /\ i.req.op \in MultiCycOps)
  BY <1>1, AcceptsAlone
<1>3. maddr' = IF nice_icb_cmd_hsked(i) THEN (maddr + 1) % AddrMod ELSE maddr
  BY <1>1 DEF MaddrStep, nice_mem_holdup
<1>4. CASE state = "LBUF"
  <2>1. /\ lbuf.cnt <= 2 /\ lbuf.cmd = lbuf.cnt + Len(memq)
        /\ nice_icb_cmd_hsked(i) <=> lbuf.cmd <= 2 /\ i.cmdRdy
        /\ ~nice_rsp_hsked(i) /\ ~Takes(i, "lbuf")
        /\ state' = IF i.rspVld /\ lbuf.cnt = 2 THEN "IDLE" ELSE "LBUF"
    BY <1>1, <1>4, TakenInTurn DEF BurstAccounting, nice_icb_cmd_hsked, nice_icb_cmd_valid, clonum,
       FsmStep, state_exit_ena, Takes, nice_req_hsked, nice_req_ready
  <2>2. state' = state => lbuf'.cnt = lbuf.cnt + d /\ lbuf'.cmd = lbuf.cmd + c
    BY <1>1, <1>4, <2>1, CountUp DEF LbufStep, Count, clonum
  <2> QED BY <1>1, <1>2, <1>3, <1>4, <2>1, <2>2 DEF Sent, Received
<1>5. CASE state = "SBUF"
  <2>1. /\ sbuf.cnt <= 2 /\ sbuf.cmd = sbuf.cnt + Len(memq)
        /\ nice_icb_cmd_hsked(i) <=> sbuf.cmd <= 2 /\ i.cmdRdy
        /\ ~nice_rsp_hsked(i)
        /\ state' = IF i.rspVld /\ sbuf.cnt = 2 THEN "IDLE" ELSE "SBUF"
    BY <1>1, <1>5, TakenInTurn DEF BurstAccounting, nice_icb_cmd_hsked, nice_icb_cmd_valid, clonum,
       FsmStep, state_exit_ena
  <2>2. state' = state => sbuf'.cnt = sbuf.cnt + d /\ sbuf'.cmd = sbuf.cmd + c
    BY <1>1, <1>5, <2>1, CountUp DEF SbufStep, Count, clonum
  <2> QED BY <1>1, <1>2, <1>3, <1>5, <2>1, <2>2 DEF Sent, Received
<1>6. CASE state = "ROWSUM"
  <2>1. /\ \/ rcv.idx < 2 /\ rowsum.cnt <= 2 /\ rowsum.cmd = rowsum.cnt + Len(memq)
           \/ rcv.idx = 2 /\ rowsum.cnt = 0 /\ rowsum.cmd = 3 /\ memq = <<>>
        /\ nice_icb_cmd_hsked(i) <=> rowsum.cmd <= 2 /\ i.cmdRdy
        /\ state' = IF nice_rsp_hsked(i) THEN "IDLE" ELSE "ROWSUM"
        /\ nice_rsp_hsked(i) => nice_rsp_valid_rowsum /\ rcv.idx = 2 /\ ~rcv.vld
    BY <1>1, <1>6, TakenInTurn DEF BurstAccounting, nice_icb_cmd_hsked, nice_icb_cmd_valid, clonum,
       FsmStep, state_exit_ena
  <2>2. ASSUME ~nice_rsp_hsked(i)
        PROVE  /\ rowsum'.cmd = rowsum.cmd + c
               /\ rowsum'.cnt = IF ~i.rspVld THEN rowsum.cnt
                                ELSE IF rowsum.cnt = 2 THEN 0 ELSE rowsum.cnt + 1
               /\ rcv'.idx = IF i.rspVld THEN rowsum.cnt ELSE rcv.idx
    <3>1. ~(nice_rsp_valid_rowsum /\ i.rspRdy)
      BY <2>2 DEF nice_rsp_hsked, nice_rsp_multicyc_valid
    <3>2. i.rspVld => rowsum.cnt <= 2
      BY <1>1, <2>1
    <3> QED BY <1>1, <1>6, <2>1, <2>2, <3>1, <3>2, CountUp DEF RowsumStep, rowbuf_icb_rsp_hsked, Count, clonum
  <2>3. memq = <<>> => Len(memq) = 0
    OBVIOUS
  <2> QED BY <1>1, <1>2, <1>3, <1>6, <2>1, <2>2, <2>3 DEF Sent, Received, clonum
<1> QED BY <1>4, <1>5, <1>6 DEF nice_mem_holdup

\* The job of a running burst grows by the access of the cycle.
LEMMA BurstJobStep ==
  ASSUME NiceInv, NEW i, NEW a, StepWith(i, a), nice_mem_holdup, ~nice_rsp_hsked(i)
  PROVE  LET c == IF nice_icb_cmd_hsked(i) THEN 1 ELSE 0
         IN /\ Len(jobs') = 1 /\ jobs'[1].op = jobs[1].op /\ jobs'[1].base = jobs[1].base
            /\ jobs'[1].err <=> jobs[1].err \/ (nice_icb_cmd_hsked(i) /\ a.err)
            /\ Len(jobs'[1].words) = Sent + c
            /\ \A k \in 0 .. Sent - 1 : jobs'[1].words[k + 1] = jobs[1].words[k + 1]
            /\ nice_icb_cmd_hsked(i) =>
                 jobs'[1].words[Sent + 1] = [addr |-> maddr, dat |-> CmdWord(a.rdata)]
<1>1. /\ Len(jobs) = 1 /\ jobs \in Seq(JobRec) /\ Len(jobs[1].words) = Sent /\ Sent \in 0 .. 3
      /\ a \in Answer /\ TypeOK
  BY BurstStep DEF NiceInv, BlockingInv, TypeOK, JobTracked, Moved, StepWith
<1>2. jobs[1] \in JobRec
  BY <1>1
<1>3. Len(jobs') = 1 /\ jobs'[1] = IF nice_icb_cmd_hsked(i) THEN Note(jobs[1], a.rdata, a.err)
                                   ELSE jobs[1]
  BY <1>1, BurstStep, OneJobStep
<1>4. CASE ~nice_icb_cmd_hsked(i)
  BY <1>1, <1>2, <1>3, <1>4 DEF JobRec
<1>5. CASE nice_icb_cmd_hsked(i)
  <2>1. [addr |-> maddr, dat |-> CmdWord(a.rdata)] \in [addr : Addr, dat : Word]
    BY <1>1, CmdWordType DEF TypeOK, CoreTypeOK, Answer
  <2>2. /\ jobs[1].words \in Seq([addr : Addr, dat : Word]) /\ jobs[1].err \in BOOLEAN
        /\ a.err \in BOOLEAN
    BY <1>1, <1>2 DEF JobRec, Answer
  <2> DEFINE w == Append(jobs[1].words, [addr |-> maddr, dat |-> CmdWord(a.rdata)])
  <2>3. /\ Len(w) = Sent + 1
        /\ w[Sent + 1] = [addr |-> maddr, dat |-> CmdWord(a.rdata)]
        /\ \A k \in 1 .. Sent : w[k] = jobs[1].words[k]
    BY <1>1, <2>1, <2>2, AppendProperties
  <2>4. \A k \in 0 .. Sent - 1 : w[k + 1] = jobs[1].words[k + 1]
    BY <1>1, <2>3
  <2>5. /\ jobs'[1].words = w /\ jobs'[1].op = jobs[1].op /\ jobs'[1].base = jobs[1].base
        /\ jobs'[1].err = (jobs[1].err \/ a.err)
    BY <1>3, <1>5 DEF Note
  <2> HIDE DEF w
  <2> QED BY <1>3, <1>5, <2>2, <2>3, <2>4, <2>5
<1> QED BY <1>4, <1>5

\* Addition modulo m, reduced once or twice.
LEMMA ModUnique ==
  \A m \in Nat \ {0}, q \in Int, r \in Nat, x \in Nat : x = q * m + r /\ r < m => x % m = r
  OBVIOUS

\* The remainder of a number less than twice the modulus.
LEMMA ModOnce == \A m \in Nat \ {0}, a \in Nat : m <= a /\ a < 2 * m => a % m = a - m
  OBVIOUS

\* Reducing one summand first changes no sum.
LEMMA ModAdd ==
  ASSUME NEW m \in Nat \ {0}, NEW a \in Nat, NEW b \in Nat, a <= m
  PROVE  (a + (b % m)) % m = (a + b) % m
<1> DEFINE r == b % m
           q == b \div m
<1>1. r \in Nat /\ r < m /\ q \in Int /\ b = q * m + r
  OBVIOUS
<1> HIDE DEF r, q
<1>2. CASE a + r < m
  <2>1. a + b = q * m + (a + r) /\ a + r \in Nat /\ a + b \in Nat
    BY <1>1
  <2>2. (a + b) % m = a + r
    BY <1>1, <1>2, <2>1, ModUnique
  <2>3. a + r = 0 * m + (a + r)
    BY <1>1
  <2>4. (a + r) % m = a + r
    BY <1>2, <2>1, <2>3, ModUnique
  <2> QED BY <2>2, <2>4 DEF r
<1>3. CASE a + r >= m
  <2>0. (q + 1) * m = q * m + m
    BY <1>1
  <2>1. /\ a + b = (q + 1) * m + (a + r - m) /\ a + r - m \in Nat /\ a + b \in Nat
        /\ a + r - m < m /\ q + 1 \in Int /\ a + r \in Nat
    BY <1>1, <1>3, <2>0
  <2>2. (a + b) % m = a + r - m
    BY <2>1, ModUnique
  <2>3. m <= a + r /\ a + r < 2 * m
    BY <1>1, <1>3
  <2>4. (a + r) % m = a + r - m
    <3> DEFINE y == a + r
    <3>1. y \in Nat /\ m <= y /\ y < 2 * m
      BY <2>1, <2>3
    <3> HIDE DEF y
    <3>2. y % m = y - m
      BY <3>1, ModOnce
    <3> QED BY <1>1, <3>2 DEF y
  <2> QED BY <2>2, <2>4 DEF r
<1> QED BY <1>1, <1>2, <1>3

\* The response flags of lbuf and sbuf, after a cycle.
LEMMA FlagStep ==
  ASSUME NiceInv, NEW i, NEW a, StepWith(i, a)
  PROVE  /\ lbuf'.vld <=> ~(lbuf.vld /\ nice_rsp_hsked(i))
                            /\ (lbuf.vld \/ (state = "LBUF" /\ i.rspVld /\ lbuf.cnt = clonum))
         /\ sbuf'.vld <=> ~(sbuf.vld /\ nice_rsp_hsked(i))
                            /\ (sbuf.vld \/ (state = "SBUF" /\ i.rspVld /\ sbuf.cnt = clonum))
         /\ lbuf'.err <=> ~(lbuf.vld /\ nice_rsp_hsked(i))
                            /\ (lbuf.err \/ (state = "LBUF" /\ i.rerr))
         /\ sbuf'.err <=> ~(sbuf.vld /\ nice_rsp_hsked(i))
                            /\ (sbuf.err \/ (state = "SBUF" /\ i.rerr))
         /\ rowsum'.err <=> ~(state = "ROWSUM" /\ nice_rsp_hsked(i))
                            /\ (rowsum.err \/ (state = "ROWSUM" /\ i.rerr))
         /\ lbuf.vld \/ sbuf.vld => state = "IDLE"
<1>1. /\ lbuf \in Burst /\ sbuf \in Burst /\ rowsum.err \in BOOLEAN
      /\ LbufStep(i) /\ SbufStep(i) /\ RowsumStep(i)
      /\ i.rerr \in BOOLEAN /\ (i.rerr => i.rspVld)
      /\ lbuf.vld \/ sbuf.vld => state = "IDLE"
  BY DEF NiceInv, BlockingInv, MemRunsAlone, TypeOK, CoreTypeOK, StepWith, CoreStep, Input
<1>2. /\ lbuf.vld \in BOOLEAN /\ sbuf.vld \in BOOLEAN /\ lbuf.err \in BOOLEAN /\ sbuf.err \in BOOLEAN
  BY <1>1 DEF Burst
<1>3. /\ lbuf'.vld <=> ~(lbuf.vld /\ nice_rsp_hsked(i))
                         /\ (lbuf.vld \/ (state = "LBUF" /\ i.rspVld /\ lbuf.cnt = clonum))
      /\ lbuf'.err <=> ~(lbuf.vld /\ nice_rsp_hsked(i))
                         /\ (lbuf.err \/ (state = "LBUF" /\ i.rerr))
  BY <1>1, <1>2 DEF LbufStep, RspValid, RspErr
<1>4. /\ sbuf'.vld <=> ~(sbuf.vld /\ nice_rsp_hsked(i))
                         /\ (sbuf.vld \/ (state = "SBUF" /\ i.rspVld /\ sbuf.cnt = clonum))
      /\ sbuf'.err <=> ~(sbuf.vld /\ nice_rsp_hsked(i))
                         /\ (sbuf.err \/ (state = "SBUF" /\ i.rerr))
  BY <1>1, <1>2 DEF SbufStep, RspValid, RspErr
<1>5. rowsum'.err <=> ~(state = "ROWSUM" /\ nice_rsp_hsked(i))
                        /\ (rowsum.err \/ (state = "ROWSUM" /\ i.rerr))
  BY <1>1, <1>2 DEF RowsumStep, RspErr, rowbuf_icb_rsp_hsked
<1> QED BY <1>1, <1>3, <1>4, <1>5

\* The oldest instruction stays tracked while a memory instruction runs.
LEMMA JobTrackedBurst ==
  ASSUME NiceInv, NEW i, NEW a, StepWith(i, a), nice_mem_holdup
  PROVE  JobTracked'
<1> DEFINE c == IF nice_icb_cmd_hsked(i) THEN 1 ELSE 0
<1>0. c = 0 \/ c = 1
  OBVIOUS
<1>5. IF nice_icb_cmd_hsked(i) THEN c = 1 ELSE c = 0
  OBVIOUS
<1> HIDE DEF c
<1>1. /\ Len(jobs) = 1 /\ jobs[1].op = OpOf[state] /\ Sent \in 0 .. 3
      /\ \A k \in 0 .. Sent - 1 : jobs[1].words[k + 1].addr = (jobs[1].base + k) % AddrMod
      /\ maddr = (jobs[1].base + Sent) % AddrMod
      /\ jobs[1].base \in Nat /\ AddrMod \in Nat \ {0}
      /\ ~lbuf.vld /\ ~sbuf.vld
  <2>1. Len(jobs) = 1 /\ jobs \in Seq(JobRec)
    BY DEF NiceInv, JobTracked, Moved, BlockingInv, TypeOK
  <2>2. jobs[1].base \in Nat
    <3>1. jobs[1] \in JobRec
      BY <2>1
    <3> QED BY <3>1 DEF JobRec, Addr
  <2>3. ~lbuf.vld /\ ~sbuf.vld
    BY DEF NiceInv, BlockingInv, MemRunsAlone, nice_mem_holdup
  <2> QED BY <2>2, <2>3, ModAssumption, BurstStep DEF NiceInv, JobTracked, Moved
<1>4. FsmStep(i)
  BY DEF StepWith, CoreStep
<1>2. CASE nice_rsp_hsked(i)
  <2>1. state' = "IDLE" /\ state = "ROWSUM" /\ jobs' = <<>>
    BY <1>1, <1>2, BurstStep, OneJobStep DEF NiceInv, BlockingInv
  <2>2. ~lbuf'.vld /\ ~sbuf'.vld
    BY <1>1, <2>1, FlagStep
  <2> QED BY <2>1, <2>2 DEF JobTracked, nice_mem_holdup
<1>3. CASE ~nice_rsp_hsked(i)
  <2>0. /\ Len(jobs') = 1 /\ jobs'[1].op = jobs[1].op /\ jobs'[1].base = jobs[1].base
        /\ Len(jobs'[1].words) = Sent + c
        /\ \A k \in 0 .. Sent - 1 : jobs'[1].words[k + 1] = jobs[1].words[k + 1]
        /\ nice_icb_cmd_hsked(i) => jobs'[1].words[Sent + 1].addr = maddr
    <3>1. /\ Len(jobs') = 1 /\ jobs'[1].op = jobs[1].op /\ jobs'[1].base = jobs[1].base
          /\ Len(jobs'[1].words) = Sent + c
      BY <1>3, BurstJobStep DEF c
    <3>2. \A k \in 0 .. Sent - 1 : jobs'[1].words[k + 1] = jobs[1].words[k + 1]
      BY <1>3, BurstJobStep
    <3>3. nice_icb_cmd_hsked(i) =>
            jobs'[1].words[Sent + 1] = [addr |-> maddr, dat |-> CmdWord(a.rdata)]
      BY <1>3, BurstJobStep
    <3> QED BY <3>1, <3>2, <3>3
  <2>1. \A k \in 0 .. Sent + c - 1 : jobs'[1].words[k + 1].addr = (jobs'[1].base + k) % AddrMod
    <3> TAKE k \in 0 .. Sent + c - 1
    <3>1. CASE k <= Sent - 1
      <4>1. k \in 0 .. Sent - 1
        BY <1>1, <3>1
      <4>2. jobs'[1].words[k + 1] = jobs[1].words[k + 1]
        BY <2>0, <4>1
      <4>3. jobs[1].words[k + 1].addr = (jobs[1].base + k) % AddrMod
        BY <1>1, <4>1
      <4> QED BY <2>0, <4>2, <4>3
    <3>2. CASE k > Sent - 1
      <4>1. k = Sent /\ nice_icb_cmd_hsked(i)
        BY <1>1, <1>0, <1>5, <3>2
      <4> QED BY <1>1, <2>0, <4>1
    <3> QED BY <1>0, <1>1, <3>1, <3>2
  <2>2. /\ Len(jobs') = 1 /\ jobs'[1].op = OpOf[state] /\ Len(jobs'[1].words) = Sent + c
        /\ jobs'[1].base = jobs[1].base
    BY <1>1, <2>0
  <2>3. maddr' = (jobs'[1].base + (Sent + c)) % AddrMod
    <3>1. CASE nice_icb_cmd_hsked(i)
      <4>1. maddr' = (((jobs[1].base + Sent) % AddrMod) + 1) % AddrMod
        BY <1>1, <3>1, BurstStep
      <4>2. jobs[1].base + Sent \in Nat
        BY <1>1
      <4>3. (1 + ((jobs[1].base + Sent) % AddrMod)) % AddrMod = (1 + (jobs[1].base + Sent)) % AddrMod
        BY <1>1, <4>2, ModAdd
      <4>4. 1 + (jobs[1].base + Sent) = jobs[1].base + (Sent + c)
        BY <1>1, <1>5, <3>1
      <4> DEFINE x == (jobs[1].base + Sent) % AddrMod
      <4>5. x \in Nat
        BY <1>1, <4>2, ModRange
      <4> HIDE DEF x
      <4>6. x + 1 = 1 + x
        BY <4>5
      <4>7. maddr' = (1 + x) % AddrMod
        BY <4>1, <4>6 DEF x
      <4>8. (1 + x) % AddrMod = (1 + (jobs[1].base + Sent)) % AddrMod
        BY <4>3 DEF x
      <4>9. (1 + (jobs[1].base + Sent)) % AddrMod = (jobs'[1].base + (Sent + c)) % AddrMod
        BY <2>2, <4>4
      <4> QED BY <4>7, <4>8, <4>9
    <3>2. CASE ~nice_icb_cmd_hsked(i)
      <4>1. maddr' = maddr /\ Sent + c = Sent
        BY <1>1, <1>5, <3>2, BurstStep
      <4> QED BY <1>1, <2>2, <4>1
    <3> QED BY <3>1, <3>2
  <2>4. CASE state' = state
    <3>1. Sent' = Sent + c
      BY <1>1, <2>4, BurstStep DEF nice_mem_holdup, c
    <3>2. ~lbuf'.vld /\ ~sbuf'.vld
      BY <1>1, <1>4, <2>4, FlagStep DEF nice_mem_holdup, FsmStep, state_exit_ena
    <3>3. Moved(OpOf[state], Sent)'
      <4>1. \A k \in 0 .. Sent' - 1 :
              jobs'[1].words[k + 1].addr = (jobs'[1].base + k) % AddrMod
        BY <1>0, <1>1, <2>1, <3>1
      <4>2. Len(jobs') = 1 /\ jobs'[1].op = OpOf[state'] /\ Len(jobs'[1].words) = Sent'
        BY <2>2, <2>4, <3>1
      <4> QED BY <4>1, <4>2 DEF Moved
    <3>4. maddr' = (jobs'[1].base + Sent') % AddrMod
      BY <2>3, <3>1
    <3>5. state' # "IDLE"
      BY <2>4 DEF nice_mem_holdup
    <3> QED BY <3>2, <3>3, <3>4, <3>5 DEF JobTracked
  <2>5. CASE state' # state
    <3>1. state' = "IDLE" /\ Sent + c = 3 /\ state # "ROWSUM" /\ Received = 2 /\ i.rspVld
      BY <1>1, <1>3, <1>5, <2>5, BurstStep
    <3>2. /\ lbuf'.vld <=> state = "LBUF"
          /\ sbuf'.vld <=> state = "SBUF"
      BY <1>1, <3>1, FlagStep DEF Received, clonum
    <3>3. OpOf["LBUF"] = "lbuf" /\ OpOf["SBUF"] = "sbuf"
      BY DEF OpOf
    <3>4. /\ state = "LBUF" => Moved("lbuf", 3)'
          /\ state = "SBUF" => Moved("sbuf", 3)'
      <4>1. \A k \in 0 .. 3 - 1 :
              jobs'[1].words[k + 1].addr = (jobs'[1].base + k) % AddrMod
        BY <1>0, <1>1, <2>1, <3>1
      <4>2. Len(jobs') = 1 /\ jobs'[1].op = OpOf[state] /\ Len(jobs'[1].words) = 3
        BY <2>2, <3>1
      <4> QED BY <3>3, <4>1, <4>2 DEF Moved
    <3>5. state = "LBUF" \/ state = "SBUF"
      BY <3>1 DEF nice_mem_holdup
    <3> QED BY <3>1, <3>2, <3>4, <3>5 DEF JobTracked, nice_mem_holdup, clonum
  <2> QED BY <2>4, <2>5
<1> QED BY <1>2, <1>3

\* Between bursts a job waits for its response to be taken or there is none;
\* the pipe's jobs are all pipeadd, so that a memory instruction that is
\* accepted finds no job before it.
LEMMA JobTrackedIdle ==
  ASSUME NiceInv, NEW i, NEW a, StepWith(i, a), state = "IDLE"
  PROVE  JobTracked'
<1> DEFINE push == nice_req_hsked(i) /\ i.req.op \in MultiCycOps
<1>1. /\ FsmStep(i) /\ LbufStep(i) /\ SbufStep(i) /\ RowsumStep(i) /\ MaddrStep(i)
      /\ BlockingInv /\ BurstAccounting /\ TypeOK /\ i.req = req
      /\ ~nice_icb_cmd_hsked(i)
      /\ i.rspRdy => jobs # <<>>
  BY DEF StepWith, CoreStep, NiceInv, BlockingInv, nice_icb_cmd_hsked, nice_icb_cmd_valid
<1>2. CASE push
  <2>1. ~lbuf.vld /\ ~sbuf.vld /\ jobs = <<>>
    BY <1>1, <1>2, AcceptsAlone DEF NiceInv, JobTracked
  <2>2. Len(jobs') = 1 /\ jobs'[1] = Job(req)
    BY <1>1, <1>2, <2>1, OneJobStep
  <2>3. /\ jobs'[1].op = req.op /\ jobs'[1].base = req.rs1 % AddrMod /\ jobs'[1].words = <<>>
    BY <2>2 DEF Job
  <2>4. state' = state_idle_nxt[req.op]
    BY <1>1, <1>2 DEF FsmStep
  <2>5. ~lbuf'.vld /\ ~sbuf'.vld
    BY <2>1, FlagStep
  <2>6. CASE req.op = "pipeadd"
    BY <2>4, <2>5, <2>6 DEF JobTracked, nice_mem_holdup, state_idle_nxt
  <2>7. CASE req.op \in MemOps
    <3>1. maddr' = req.rs1 % AddrMod
      BY <1>1, <1>2, <2>7 DEF MaddrStep
    <3>2. /\ (req.op = "lbuf" /\ state' = "LBUF") \/ (req.op = "sbuf" /\ state' = "SBUF")
               \/ (req.op = "rowsum" /\ state' = "ROWSUM")
      BY <2>4, <2>7 DEF state_idle_nxt, MemOps
    <3>3. OpOf[state'] = req.op /\ state' # "IDLE"
      BY <3>2 DEF OpOf
    <3>4. lbuf'.cmd = 0 /\ sbuf'.cmd = 0 /\ rowsum'.cmd = 0
      BY <1>1 DEF LbufStep, SbufStep, RowsumStep, Count, BurstAccounting, rowbuf_icb_rsp_hsked
    <3>5. Sent' = 0
      BY <3>4 DEF Sent
    <3>6. req.rs1 % AddrMod \in Nat /\ AddrMod \in Nat \ {0} /\ (req.rs1 % AddrMod) < AddrMod
      <4>1. req.rs1 \in Nat
        BY <1>1, InputReq DEF StepWith
      <4>2. req.rs1 % AddrMod \in Addr
        BY <4>1, AddType
      <4> QED BY <4>2, ModAssumption DEF Addr
    <3>7. maddr' = (jobs'[1].base + Sent') % AddrMod
      <4>1. \A m \in Nat \ {0}, x \in Nat : x < m => (x + 0) % m = x
        OBVIOUS
      <4> QED BY <2>3, <3>1, <3>5, <3>6, <4>1
    <3>8. Moved(OpOf[state], Sent)'
      BY <2>2, <2>3, <3>3, <3>5 DEF Moved
    <3> QED BY <2>5, <3>3, <3>7, <3>8 DEF JobTracked
  <2> QED BY <1>1, <1>2, <2>6, <2>7 DEF MultiCycOps
<1>3. CASE ~push
  <2>1. state' = "IDLE" /\ ~nice_mem_holdup'
    BY <1>1, <1>3 DEF FsmStep, state_exit_ena, nice_mem_holdup
  <2>2. CASE ~lbuf.vld /\ ~sbuf.vld
    <3>1. jobs' = <<>>
      BY <1>1, <1>3, <2>2, OneJobStep DEF NiceInv, JobTracked
    <3>2. ~lbuf'.vld /\ ~sbuf'.vld
      BY <2>2, FlagStep
    <3> QED BY <2>1, <3>1, <3>2 DEF JobTracked
  <2>3. CASE lbuf.vld \/ sbuf.vld
    <3>1. Len(jobs) = 1
      BY <2>3 DEF NiceInv, JobTracked, Moved
    <3>2. CASE nice_rsp_hsked(i)
      <4>1. jobs' = <<>>
        BY <1>1, <1>3, <3>1, <3>2, OneJobStep
      <4>2. ~lbuf'.vld /\ ~sbuf'.vld
        BY <3>2, FlagStep
      <4> QED BY <2>1, <4>1, <4>2 DEF JobTracked
    <3>3. CASE ~nice_rsp_hsked(i)
      <4>1. Len(jobs') = 1 /\ jobs'[1] = jobs[1]
        BY <1>1, <1>3, <3>1, <3>3, OneJobStep
      <4>2. (lbuf'.vld <=> lbuf.vld) /\ (sbuf'.vld <=> sbuf.vld)
        BY <3>3, FlagStep
      <4>3. /\ lbuf.vld => Moved("lbuf", clonum + 1)'
            /\ sbuf.vld => Moved("sbuf", clonum + 1)'
        BY <4>1 DEF NiceInv, JobTracked, Moved
      <4> QED BY <2>1, <2>3, <4>2, <4>3 DEF JobTracked
    <3> QED BY <3>2, <3>3
  <2> QED BY <2>2, <2>3
<1> QED BY <1>2, <1>3

\* The error of an access reaches the flag of its own instruction, and the
\* flag is down again when the next instruction starts.
LEMMA ErrTrackedStep ==
  ASSUME NiceInv, NEW i, NEW a, StepWith(i, a)
  PROVE  ErrTracked'
<1>1. /\ FsmStep(i) /\ BlockingInv /\ BurstAccounting /\ TypeOK /\ i.req = req
      /\ state \in {"IDLE", "LBUF", "SBUF", "PIPE", "ROWSUM"}
      /\ ErrTracked /\ JobTracked
  BY DEF StepWith, CoreStep, NiceInv, BlockingInv, TypeOK, CoreTypeOK
<1>2. CASE nice_mem_holdup
  <2>1. /\ ~lbuf.vld /\ ~sbuf.vld
        /\ state # "LBUF" => ~lbuf.err
        /\ state # "SBUF" => ~sbuf.err
        /\ state # "ROWSUM" => ~rowsum.err
    BY <1>1, <1>2 DEF ErrTracked, BlockingInv, MemRunsAlone, nice_mem_holdup
  <2>2. CASE nice_rsp_hsked(i)
    <3>1. state' = "IDLE" /\ state = "ROWSUM" /\ ~i.rspVld
      BY <1>2, <2>2, BurstStep
    <3>2. ~lbuf'.vld /\ ~sbuf'.vld /\ ~lbuf'.err /\ ~sbuf'.err /\ ~rowsum'.err
      BY <2>1, <2>2, <3>1, FlagStep
    <3> QED BY <3>1, <3>2 DEF ErrTracked
  <2>3. CASE ~nice_rsp_hsked(i)
    <3>1. jobs'[1].err <=> jobs[1].err \/ (nice_icb_cmd_hsked(i) /\ a.err)
      BY <1>2, <2>3, BurstJobStep
    <3>2. jobs[1].err <=> \/ (state = "LBUF" /\ lbuf.err) \/ (state = "SBUF" /\ sbuf.err)
                          \/ (state = "ROWSUM" /\ rowsum.err) \/ ErrInFlight
      BY <1>1, <1>2 DEF ErrTracked, nice_mem_holdup
    <3>3. ErrInFlight' \/ i.rerr <=> ErrInFlight \/ (nice_icb_cmd_hsked(i) /\ a.err)
      BY <1>1, ErrFlow
    <3>4. /\ lbuf'.err <=> lbuf.err \/ (state = "LBUF" /\ i.rerr)
          /\ sbuf'.err <=> sbuf.err \/ (state = "SBUF" /\ i.rerr)
          /\ rowsum'.err <=> rowsum.err \/ (state = "ROWSUM" /\ i.rerr)
      BY <2>1, <2>3, FlagStep
    <3>5. CASE state' = state
      <4>1. ~lbuf'.vld /\ ~sbuf'.vld
        BY <1>1, <1>2, <2>1, <3>5, FlagStep DEF FsmStep, state_exit_ena, nice_mem_holdup
      <4> QED BY <2>1, <3>1, <3>2, <3>3, <3>4, <3>5, <4>1 DEF ErrTracked
    <3>6. CASE state' # state
      <4>1. state' = "IDLE" /\ (state = "LBUF" \/ state = "SBUF") /\ Sent = 3 /\ Received = 2
            /\ i.rspVld /\ ~nice_icb_cmd_hsked(i)
        BY <1>2, <2>3, <3>6, BurstStep DEF nice_mem_holdup
      <4>2. Len(memq') = 0
        <5>1. Sent = Received + Len(memq)
          BY <1>2, BurstStep
        <5>2. Len(memq') = Len(memq) - 1 /\ Len(memq) \in Nat
          BY <1>1, <4>1, QueueLengths
        <5> QED BY <4>1, <5>1, <5>2
      <4>3. ~ErrInFlight'
        BY <4>2 DEF ErrInFlight
      <4>4. /\ lbuf'.vld <=> state = "LBUF"
            /\ sbuf'.vld <=> state = "SBUF"
        BY <2>1, <4>1, FlagStep DEF Received, clonum
      <4> QED BY <2>1, <3>1, <3>2, <3>3, <3>4, <4>1, <4>3, <4>4 DEF ErrTracked
    <3> QED BY <3>5, <3>6
  <2> QED BY <2>2, <2>3
<1>3. CASE ~nice_mem_holdup
  <2>1. /\ state \in {"IDLE", "PIPE"}
        /\ ~lbuf.vld => ~lbuf.err
        /\ ~sbuf.vld => ~sbuf.err
        /\ ~rowsum.err
    BY <1>1, <1>3 DEF ErrTracked, nice_mem_holdup
  <2>2. CASE nice_req_hsked(i) /\ i.req.op \in MultiCycOps
    <3>1. ~lbuf.vld /\ ~sbuf.vld
      BY <1>1, <2>2, AcceptsAlone
    <3>2. ~lbuf'.vld /\ ~sbuf'.vld /\ ~lbuf'.err /\ ~sbuf'.err /\ ~rowsum'.err
      BY <2>1, <3>1, FlagStep
    <3>3. CASE state = "IDLE"
      <4>1. jobs = <<>>
        BY <1>1, <3>1, <3>3 DEF JobTracked
      <4>2. jobs'[1] = Job(req)
        BY <1>1, <2>2, <4>1, OneJobStep
      <4>3. ~jobs'[1].err
        BY <4>2 DEF Job
      <4>4. Len(memq') = 0
        BY <1>1, <3>3, QueueLengths DEF BurstAccounting, nice_icb_cmd_hsked, nice_icb_cmd_valid
      <4>5. ~ErrInFlight'
        BY <4>4 DEF ErrInFlight
      <4> QED BY <3>2, <4>3, <4>5 DEF ErrTracked
    <3>4. CASE state = "PIPE"
      <4>1. state' \in {"PIPE", "IDLE"}
        BY <1>1, <3>4 DEF FsmStep
      <4> QED BY <3>2, <4>1 DEF ErrTracked
    <3> QED BY <2>1, <3>3, <3>4
  <2>3. CASE ~(nice_req_hsked(i) /\ i.req.op \in MultiCycOps)
    <3>1. state' \in {"PIPE", "IDLE"} /\ ~rowsum'.err
      BY <1>1, <2>1, <2>3, FlagStep DEF FsmStep
    <3>2. CASE ~lbuf.vld /\ ~sbuf.vld
      <4>1. ~lbuf'.vld /\ ~sbuf'.vld /\ ~lbuf'.err /\ ~sbuf'.err
        BY <2>1, <3>2, FlagStep
      <4> QED BY <3>1, <4>1 DEF ErrTracked
    <3>3. CASE lbuf.vld \/ sbuf.vld
      <4>1. Len(jobs) = 1 /\ state = "IDLE" /\ ~nice_icb_cmd_hsked(i)
        BY <1>1, <3>3, FlagStep DEF JobTracked, Moved, nice_icb_cmd_hsked, nice_icb_cmd_valid
      <4>2. ~nice_rsp_hsked(i) => jobs'[1] = jobs[1]
        BY <1>1, <2>3, <4>1, OneJobStep
      <4>3. /\ lbuf'.vld <=> ~nice_rsp_hsked(i) /\ lbuf.vld
            /\ sbuf'.vld <=> ~nice_rsp_hsked(i) /\ sbuf.vld
            /\ lbuf'.err <=> ~nice_rsp_hsked(i) /\ lbuf.err
            /\ sbuf'.err <=> ~nice_rsp_hsked(i) /\ sbuf.err
        BY <2>1, <4>1, FlagStep
      <4> QED BY <1>1, <2>1, <3>1, <4>2, <4>3 DEF ErrTracked
    <3> QED BY <3>2, <3>3
  <2> QED BY <2>2, <2>3
<1> QED BY <1>2, <1>3

\* With no memory instruction running the tag queue is shifted by a response
\* and extended by an accepted request.
LEMMA TagQueueStep ==
  ASSUME NiceInv, NEW i, NEW a, StepWith(i, a), ~nice_mem_holdup
  PROVE  LET d == IF nice_rsp_hsked(i) THEN 1 ELSE 0
             p == IF nice_req_hsked(i) /\ i.req.op \in MultiCycOps THEN 1 ELSE 0
         IN /\ Len(jobs') = Len(jobs) - d + p /\ Len(jobs) \in Nat /\ d <= Len(jobs)
            /\ \A n \in 1 .. Len(jobs) - d : jobs'[n] = jobs[n + d]
            /\ p = 1 => jobs'[Len(jobs')] = Job(req)
            /\ jobs' \in Seq(JobRec)
<1> DEFINE push == nice_req_hsked(i) /\ i.req.op \in MultiCycOps
           d == IF nice_rsp_hsked(i) THEN 1 ELSE 0
           left == IF nice_rsp_hsked(i) THEN Tail(jobs) ELSE jobs
<1>1. /\ jobs \in Seq(JobRec) /\ (nice_rsp_hsked(i) => jobs # <<>>) /\ TypeOK
      /\ i \in Input /\ a \in Answer /\ i.req = req /\ ~nice_icb_cmd_hsked(i)
  BY DEF TypeOK, StepWith, nice_rsp_hsked, NiceInv, BlockingInv, nice_icb_cmd_hsked,
     nice_icb_cmd_valid, nice_mem_holdup
<1>2. jobs' = IF push THEN Append(left, Job(req)) ELSE left
  BY <1>1, PushedJob DEF StepWith, JobsStep
<1>3. push => Job(req) \in JobRec
  BY <1>1, InputReq, AddType DEF TypeOK, Job, JobRec
<1>4. /\ left \in Seq(JobRec) /\ Len(left) = Len(jobs) - d /\ Len(jobs) \in Nat
      /\ d <= Len(jobs) /\ Len(left) \in Nat
      /\ \A n \in 1 .. Len(left) : left[n] = jobs[n + d]
  BY <1>1
<1> HIDE DEF left
<1>5. push => /\ Len(Append(left, Job(req))) = Len(left) + 1
              /\ Append(left, Job(req)) \in Seq(JobRec)
              /\ \A n \in 1 .. Len(left) : Append(left, Job(req))[n] = left[n]
              /\ Append(left, Job(req))[Len(left) + 1] = Job(req)
  BY <1>3, <1>4, AppendProperties
<1>6. CASE push
  BY <1>2, <1>4, <1>5, <1>6
<1>7. CASE ~push
  <2>1. jobs' = left
    BY <1>2, <1>7
  <2> QED BY <1>4, <1>7, <2>1
<1> QED BY <1>6, <1>7

\* The three stages after a cycle.
LEMMA StageStep ==
  ASSUME NiceInv, NEW i, NEW a, StepWith(i, a)
  PROVE  LET rdy2 == ~pipe[2].vld \/ i.rspRdy
             rdy1 == ~pipe[1].vld \/ rdy2
             add == i.req.op = "pipeadd"
             sum == (i.req.rs1 + i.req.rs2) % XMod
         IN /\ pipe'[2].vld <=> IF rdy2 THEN pipe[1].vld ELSE pipe[2].vld
            /\ pipe'[2].dat = IF rdy2 THEN pipe[1].dat ELSE pipe[2].dat
            /\ pipe'[1].vld <=> IF rdy1 THEN pipe[0].vld \/ add ELSE pipe[1].vld
            /\ ~rdy1 => pipe'[1].dat = pipe[1].dat
            /\ rdy1 /\ pipe[0].vld => pipe'[1].dat = pipe[0].dat
            /\ rdy1 /\ ~pipe[0].vld /\ add => pipe'[1].dat = sum
            /\ pipe'[0].vld <=> ~rdy1 /\ (pipe[0].vld \/ add)
            /\ ~rdy1 /\ pipe[0].vld => pipe'[0].dat = pipe[0].dat
            /\ ~rdy1 /\ ~pipe[0].vld /\ add => pipe'[0].dat = sum
<1>1. PipeStep(i) /\ \A k \in 0 .. 2 : pipe[k].vld \in BOOLEAN
  <2>1. pipe \in [0 .. 2 -> [vld : BOOLEAN, dat : XWord]]
    BY DEF NiceInv, BlockingInv, TypeOK, CoreTypeOK
  <2>2. \A k \in 0 .. 2 : pipe[k] \in [vld : BOOLEAN, dat : XWord]
    BY <2>1
  <2> QED BY <2>2 DEF StepWith, CoreStep
<1>2. pipe[0].vld \in BOOLEAN /\ pipe[1].vld \in BOOLEAN /\ pipe[2].vld \in BOOLEAN
  BY <1>1
<1> QED BY <1>1, <1>2 DEF PipeStep, i_pipe_rdy1, i_pipe_rdy2

\* pipeadd results leave in the order of their jobs, each with its own sum.
LEMMA PipeTrackedPipe ==
  ASSUME NiceInv, NEW i, NEW a, StepWith(i, a), state = "PIPE"
  PROVE  PipeTracked' /\ JobTracked'
<1> DEFINE add == i.req.op = "pipeadd"
           d == IF nice_rsp_hsked(i) THEN 1 ELSE 0
           p == IF nice_req_hsked(i) /\ i.req.op \in MultiCycOps THEN 1 ELSE 0
<1>1. /\ FsmStep(i) /\ PipeTracked /\ i.req = req
      /\ i.rspRdy \in BOOLEAN
      /\ ~lbuf.vld /\ ~sbuf.vld
  BY FlagStep DEF StepWith, CoreStep, NiceInv, BlockingInv, Input
<1>2. /\ pipe[0].vld \in BOOLEAN /\ pipe[1].vld \in BOOLEAN /\ pipe[2].vld \in BOOLEAN
      /\ pipe'[0].vld \in BOOLEAN /\ pipe'[1].vld \in BOOLEAN /\ pipe'[2].vld \in BOOLEAN
  <2>1. pipe \in [0 .. 2 -> [vld : BOOLEAN, dat : XWord]]
    BY DEF NiceInv, BlockingInv, TypeOK, CoreTypeOK
  <2>2. pipe' \in [0 .. 2 -> [vld : BOOLEAN, dat : XWord]]
    BY PipeType DEF NiceInv, BlockingInv, TypeOK, StepWith, CoreStep
  <2>3. \A k \in 0 .. 2 : pipe[k].vld \in BOOLEAN /\ pipe'[k].vld \in BOOLEAN
    BY <2>1, <2>2
  <2> QED BY <2>3
<1>3. /\ nice_rsp_hsked(i) <=> pipe[2].vld /\ i.rspRdy
      /\ nice_req_hsked(i) /\ i.req.op \in MultiCycOps <=> add /\ ~pipe[0].vld
      /\ nice_req_hsked(i) <=> add /\ ~pipe[0].vld
  BY <1>1 DEF nice_rsp_hsked, nice_rsp_multicyc_valid, nice_rsp_valid_pipe, nice_rsp_valid_rowsum,
     nice_req_hsked, nice_req_ready, i_pipe_rdy0, MultiCycOps
<1>4. /\ Len(jobs') = Len(jobs) - d + p /\ Len(jobs) \in Nat /\ d <= Len(jobs)
      /\ \A n \in 1 .. Len(jobs) - d : jobs'[n] = jobs[n + d]
      /\ p = 1 => jobs'[Len(jobs')] = Job(req)
      /\ jobs' \in Seq(JobRec)
  BY TagQueueStep DEF nice_mem_holdup
<1>5. /\ Job(req).op = req.op /\ ~Job(req).err
      /\ Job(req).sum = (i.req.rs1 + i.req.rs2) % XMod
  BY <1>1 DEF Job
<1>6. /\ Len(jobs) = Held(0) + Held(1) + Held(2)
      /\ pipe[2].vld => jobs[1].sum = pipe[2].dat
      /\ pipe[1].vld => jobs[1 + Held(2)].sum = pipe[1].dat
      /\ pipe[0].vld => jobs[1 + Held(1) + Held(2)].sum = pipe[0].dat
  BY <1>1 DEF PipeTracked
<1>7. \A n \in 1 .. Len(jobs') : jobs'[n].op = "pipeadd" /\ ~jobs'[n].err
  <2> SUFFICES ASSUME NEW n \in 1 .. Len(jobs') PROVE jobs'[n].op = "pipeadd" /\ ~jobs'[n].err
    OBVIOUS
  <2>1. CASE n \in 1 .. Len(jobs) - d
    <3>1. n + d \in 1 .. Len(jobs) /\ jobs'[n] = jobs[n + d]
      BY <1>4, <2>1
    <3> QED BY <1>1, <3>1 DEF PipeTracked
  <2>2. CASE n \notin 1 .. Len(jobs) - d
    <3>1. n = Len(jobs') /\ p = 1
      BY <1>4, <2>2
    <3>2. add
      BY <1>3, <3>1
    <3> QED BY <1>1, <1>4, <1>5, <3>1, <3>2
  <2> QED BY <2>1, <2>2
<1>8. /\ Len(jobs') = (Held(0) + Held(1) + Held(2))'
      /\ pipe'[2].vld => jobs'[1].sum = pipe'[2].dat
      /\ pipe'[1].vld => jobs'[1 + Held(2)'].sum = pipe'[1].dat
      /\ pipe'[0].vld => jobs'[1 + Held(1)' + Held(2)'].sum = pipe'[0].dat
  <2>1. /\ pipe'[2].vld <=> IF ~pipe[2].vld \/ i.rspRdy THEN pipe[1].vld ELSE pipe[2].vld
        /\ pipe'[2].dat = IF ~pipe[2].vld \/ i.rspRdy THEN pipe[1].dat ELSE pipe[2].dat
    BY StageStep
  <2>2. CASE ~pipe[2].vld \/ i.rspRdy
    <3>1. /\ d = Held(2) /\ Held(2)' = Held(1) /\ Held(0)' = 0
          /\ pipe'[1].vld <=> pipe[0].vld \/ add
          /\ pipe[0].vld => pipe'[1].dat = pipe[0].dat
          /\ ~pipe[0].vld /\ add => pipe'[1].dat = (i.req.rs1 + i.req.rs2) % XMod
          /\ ~pipe'[0].vld
      BY <1>2, <1>3, <2>1, <2>2, StageStep DEF Held
    <3>2. /\ Held(0) + p = Held(1)'
          /\ Held(0) \in 0 .. 1 /\ Held(1) \in 0 .. 1 /\ Held(2) \in 0 .. 1 /\ p \in 0 .. 1
      BY <1>3, <3>1 DEF Held
    <3> HIDE DEF d, p
    <3>3. Len(jobs') = Held(1) + Held(0) + p
      BY <1>4, <1>6, <3>1, <3>2
    <3>4. pipe[1].vld => jobs'[1].sum = pipe[1].dat
      <4>1. pipe[1].vld => Held(1) = 1
        BY DEF Held
      <4>2. pipe[1].vld => jobs'[1] = jobs[1 + Held(2)]
        BY <1>4, <1>6, <3>1, <3>2, <4>1
      <4> QED BY <1>6, <4>2
    <3>5. pipe[0].vld => jobs'[1 + Held(1)].sum = pipe[0].dat
      <4>1. pipe[0].vld => Held(0) = 1
        BY DEF Held
      <4>2. pipe[0].vld => 1 + Held(1) \in 1 .. Len(jobs) - d
        BY <1>4, <1>6, <3>1, <3>2, <4>1
      <4>3. pipe[0].vld => jobs'[1 + Held(1)] = jobs[(1 + Held(1)) + Held(2)]
        BY <1>4, <3>1, <4>2
      <4> QED BY <1>6, <4>3
    <3>6. ~pipe[0].vld /\ add => jobs'[1 + Held(1)].sum = (i.req.rs1 + i.req.rs2) % XMod
      <4>1. ~pipe[0].vld /\ add => Held(0) = 0 /\ p = 1
        BY <1>3 DEF Held, p
      <4>2. ~pipe[0].vld /\ add => Len(jobs') = 1 + Held(1)
        BY <3>2, <3>3, <4>1
      <4> QED BY <1>4, <1>5, <4>1, <4>2
    <3>7. Len(jobs') = (Held(0) + Held(1) + Held(2))'
      BY <3>1, <3>2, <3>3
    <3> QED BY <2>1, <2>2, <3>1, <3>4, <3>5, <3>6, <3>7
  <2>3. CASE ~(~pipe[2].vld \/ i.rspRdy)
    <3>1. /\ d = 0 /\ Held(2)' = 1 /\ Held(2) = 1
          /\ Held(0) \in 0 .. 1 /\ Held(1) \in 0 .. 1 /\ p \in 0 .. 1
          /\ pipe[0].vld => Held(0) = 1 /\ p = 0
          /\ ~pipe[0].vld => Held(0) = 0
          /\ ~pipe[0].vld /\ add => p = 1
          /\ ~pipe[0].vld /\ ~add => p = 0
      BY <1>2, <1>3, <2>1, <2>3 DEF Held
    <3> HIDE DEF d, p
    <3>2. Len(jobs') = Held(0) + Held(1) + 1 + p
      BY <1>4, <1>6, <3>1
    <3>3. \A n \in 1 .. Len(jobs) : jobs'[n] = jobs[n]
      BY <1>4, <3>1
    <3>4. jobs'[1].sum = pipe'[2].dat
      BY <1>6, <2>1, <2>3, <3>1, <3>3
    <3>5. CASE ~pipe[1].vld
      <4>1. /\ pipe'[1].vld <=> pipe[0].vld \/ add
            /\ pipe[0].vld => pipe'[1].dat = pipe[0].dat
            /\ ~pipe[0].vld /\ add => pipe'[1].dat = (i.req.rs1 + i.req.rs2) % XMod
            /\ ~pipe'[0].vld
        BY <3>5, StageStep
      <4>2. Held(1) = 0 /\ Held(0)' = 0 /\ Held(1)' = Held(0) + p
        BY <3>1, <3>5, <4>1 DEF Held
      <4>3. pipe[0].vld => jobs'[2].sum = pipe[0].dat
        BY <1>6, <3>1, <3>3, <4>2
      <4>4. ~pipe[0].vld /\ add => jobs'[2].sum = (i.req.rs1 + i.req.rs2) % XMod
        <5>1. ~pipe[0].vld /\ add => Len(jobs') = 2 /\ p = 1
          BY <3>1, <3>2, <4>2
        <5> QED BY <1>4, <1>5, <5>1
      <4> QED BY <3>1, <3>2, <3>4, <4>1, <4>2, <4>3, <4>4
    <3>6. CASE pipe[1].vld
      <4>1. /\ pipe'[1].vld /\ pipe'[1].dat = pipe[1].dat
            /\ pipe'[0].vld <=> pipe[0].vld \/ add
            /\ pipe[0].vld => pipe'[0].dat = pipe[0].dat
            /\ ~pipe[0].vld /\ add => pipe'[0].dat = (i.req.rs1 + i.req.rs2) % XMod
        BY <2>3, <3>6, StageStep
      <4>2. Held(1) = 1 /\ Held(1)' = 1 /\ Held(0)' = Held(0) + p
        BY <3>1, <3>6, <4>1 DEF Held
      <4>3. jobs'[2].sum = pipe[1].dat
        BY <1>6, <3>1, <3>3, <3>6, <4>2
      <4>4. pipe[0].vld => jobs'[3].sum = pipe[0].dat
        BY <1>6, <3>1, <3>3, <4>2
      <4>5. ~pipe[0].vld /\ add => jobs'[3].sum = (i.req.rs1 + i.req.rs2) % XMod
        <5>1. ~pipe[0].vld /\ add => Len(jobs') = 3 /\ p = 1
          BY <3>1, <3>2, <4>2
        <5> QED BY <1>4, <1>5, <5>1
      <4> QED BY <3>1, <3>2, <3>4, <4>1, <4>2, <4>3, <4>4, <4>5
    <3> QED BY <3>5, <3>6
  <2> QED BY <2>2, <2>3
<1>9. state' # "PIPE" => state' = "IDLE" /\ Len(jobs') = 0
        /\ ~pipe'[0].vld /\ ~pipe'[1].vld /\ ~pipe'[2].vld
  <2> SUFFICES ASSUME state' # "PIPE"
               PROVE  /\ state' = "IDLE" /\ Len(jobs') = 0
                      /\ ~pipe'[0].vld /\ ~pipe'[1].vld /\ ~pipe'[2].vld
    OBVIOUS
  <2>1. state' = "IDLE" /\ pipe_empty(i)
    BY <1>1 DEF FsmStep, state_exit_ena
  <2>2. /\ ~pipe[0].vld /\ ~add /\ ~pipe[1].vld /\ pipe[2].vld /\ i.rspRdy
    BY <1>3, <2>1 DEF pipe_empty
  <2>3. ~pipe'[0].vld /\ ~pipe'[1].vld /\ ~pipe'[2].vld
    BY <2>2, StageStep
  <2> QED BY <1>8, <2>1, <2>3 DEF Held
<1>10. PipeTracked'
  BY <1>7, <1>8, <1>9 DEF PipeTracked
<1>11. JobTracked'
  <2>1. ~lbuf'.vld /\ ~sbuf'.vld
    BY <1>1, FlagStep
  <2>2. state' = "IDLE" => jobs' = <<>>
    BY <1>4, <1>9, EmptySeq
  <2>3. ~nice_mem_holdup'
    BY <1>9 DEF nice_mem_holdup
  <2> QED BY <2>1, <2>2, <2>3 DEF JobTracked
<1> QED BY <1>10, <1>11

\* Outside PIPE the pipeline stays empty.
LEMMA PipeTrackedOther ==
  ASSUME NiceInv, NEW i, NEW a, StepWith(i, a), state # "PIPE"
  PROVE  PipeTracked'
<1>1. /\ FsmStep(i) /\ ~pipe[0].vld /\ ~pipe[1].vld /\ ~pipe[2].vld /\ i.req = req /\ JobTracked
      /\ state \in {"IDLE", "LBUF", "SBUF", "ROWSUM"} /\ TypeOK
  BY DEF StepWith, CoreStep, NiceInv, PipeTracked, BlockingInv, TypeOK, CoreTypeOK
<1>2. ~pipe'[0].vld /\ ~pipe'[2].vld /\ (pipe'[1].vld <=> req.op = "pipeadd")
  BY <1>1, StageStep
<1>3. CASE req.op = "pipeadd"
  <2>1. state = "IDLE" /\ nice_req_hsked(i) /\ i.req.op \in MultiCycOps
    <3>1. ~nice_mem_holdup
      BY <1>3 DEF NiceInv, BlockingInv, MemRunsAlone, MultiCycOps
    <3> QED BY <1>1, <1>3, <3>1 DEF nice_mem_holdup, nice_req_hsked, nice_req_ready, MultiCycOps, MemOps
  <2>2. state' = "PIPE"
    BY <1>1, <1>3, <2>1 DEF FsmStep, state_idle_nxt
  <2>3. jobs = <<>>
    BY <1>1, <2>1, AcceptsAlone DEF NiceInv, JobTracked
  <2>4. Len(jobs') = 1 /\ jobs'[1] = Job(req)
    BY <1>1, <2>1, <2>3, OneJobStep
  <2>5. jobs'[1].op = "pipeadd" /\ ~jobs'[1].err /\ jobs'[1].sum = (req.rs1 + req.rs2) % XMod
    BY <1>3, <2>4 DEF Job
  <2>6. pipe'[1].dat = (req.rs1 + req.rs2) % XMod
    BY <1>1, <1>3, StageStep
  <2>7. Held(0)' = 0 /\ Held(1)' = 1 /\ Held(2)' = 0
    BY <1>2, <1>3 DEF Held
  <2> QED BY <1>2, <1>3, <2>2, <2>4, <2>5, <2>6, <2>7 DEF PipeTracked
<1>4. CASE req.op # "pipeadd"
  <2>1. state' # "PIPE"
    BY <1>1, <1>4 DEF FsmStep, state_idle_nxt, MultiCycOps, MemOps
  <2>2. \A k \in 0 .. 2 : ~pipe'[k].vld
    BY <1>2, <1>4
  <2> QED BY <2>1, <2>2 DEF PipeTracked
<1> QED BY <1>3, <1>4

\* The words of the running burst, after a cycle.
LEMMA WordStep ==
  ASSUME NiceInv, NEW i, NEW a, StepWith(i, a), nice_mem_holdup, ~nice_rsp_hsked(i)
  PROVE  /\ \A k \in 0 .. Sent - 1 : WordIn(jobs', k) = WordOf(k)
         /\ nice_icb_cmd_hsked(i) => WordIn(jobs', Sent) = CmdWord(a.rdata)
         /\ \A k \in 0 .. Sent - 1 : WordOf(k) \in Word
         /\ CmdWord(a.rdata) \in Word
<1>1. /\ \A k \in 0 .. Sent - 1 : jobs'[1].words[k + 1] = jobs[1].words[k + 1]
      /\ nice_icb_cmd_hsked(i) =>
           jobs'[1].words[Sent + 1] = [addr |-> maddr, dat |-> CmdWord(a.rdata)]
  BY BurstJobStep
<1>2. ASSUME NEW k \in 0 .. Sent - 1
      PROVE  WordIn(jobs', k) = WordOf(k)
  <2>1. jobs'[1].words[k + 1] = jobs[1].words[k + 1]
    BY <1>1
  <2> QED BY <2>1 DEF WordOf, WordIn
<1>3. nice_icb_cmd_hsked(i) => (jobs'[1].words[Sent + 1]).dat = CmdWord(a.rdata)
  BY <1>1
<1>4. ASSUME NEW k \in 0 .. Sent - 1
      PROVE  WordOf(k) \in Word
  <2>1. Len(jobs) = 1 /\ jobs \in Seq(JobRec) /\ Len(jobs[1].words) = Sent /\ Sent \in 0 .. 3
    BY BurstStep DEF NiceInv, JobTracked, Moved, BlockingInv, TypeOK
  <2>2. jobs[1] \in JobRec
    BY <2>1
  <2>3. jobs[1].words \in Seq([addr : Addr, dat : Word])
    BY <2>2 DEF JobRec
  <2>4. k + 1 \in 1 .. Len(jobs[1].words)
    BY <2>1
  <2>5. jobs[1].words[k + 1] \in [addr : Addr, dat : Word]
    BY <2>3, <2>4, ElementOfSeq
  <2> QED BY <2>5 DEF WordOf, WordIn
<1>5. CmdWord(a.rdata) \in Word
  BY CmdWordType DEF NiceInv, BlockingInv, StepWith, Answer
<1> QED BY <1>2, <1>3, <1>4, <1>5 DEF WordIn

\* The word taken from the bus is the next word of the burst.
LEMMA AlignedWord ==
  ASSUME NiceInv, NEW i, NEW a, StepWith(i, a), state \in {"LBUF", "ROWSUM"}, i.rspVld
  PROVE  nice_icb_rsp_rdata_algn(i) = WordOf(Received) /\ Received < Sent
<1>1. /\ memq \in Seq(Answer) /\ memq # <<>> /\ i.rdata = Head(memq).rdata
      /\ rsp_fifo \in Seq({0, 1}) /\ Len(rsp_fifo) = Len(memq)
  BY DEF NiceInv, BlockingInv, BurstAccounting, TypeOK, CoreTypeOK, StepWith
<1>2. rsp_fifo # <<>> /\ Head(rsp_fifo) = rsp_fifo[1] /\ Head(memq) = memq[1] /\ 1 \in 1 .. Len(memq)
      /\ Len(memq) \in Nat
  BY <1>1
<1>3. Received \in 0 .. 3 /\ Sent = Received + Len(memq)
  BY BurstStep DEF nice_mem_holdup
<1>4. memq[1].rdata[1 + rsp_fifo[1]] = WordOf(Received + 1 - 1)
  BY <1>2 DEF NiceInv, LaneTracked
<1>5. Received + 1 - 1 = Received
  BY <1>3
<1>6. nice_icb_rsp_rdata_algn(i) = WordOf(Received)
  BY <1>1, <1>2, <1>4, <1>5 DEF nice_icb_rsp_rdata_algn
<1> QED BY <1>2, <1>3, <1>6

\* The lane noted for an outstanding answer stays that of its address.
LEMMA LaneTrackedStep ==
  ASSUME NiceInv, NEW i, NEW a, StepWith(i, a)
  PROVE  LaneTracked'
<1> SUFFICES ASSUME state' \in {"LBUF", "ROWSUM"}, NEW n \in 1 .. Len(memq')
             PROVE  memq'[n].rdata[1 + rsp_fifo'[n]] = WordIn(jobs', Received' + n - 1)
  BY DEF LaneTracked, WordOf
<1> DEFINE d == IF i.rspVld THEN 1 ELSE 0
           c == IF nice_icb_cmd_hsked(i) THEN 1 ELSE 0
<1>1. FsmStep(i) /\ BlockingInv /\ state \in {"IDLE", "LBUF", "SBUF", "PIPE", "ROWSUM"}
  BY DEF StepWith, CoreStep, NiceInv, BlockingInv, TypeOK, CoreTypeOK
<1>2. /\ Len(memq') = Len(memq) - d + c /\ Len(memq) \in Nat /\ d <= Len(memq)
      /\ \A m \in 1 .. Len(memq) - d : memq'[m] = memq[m + d] /\ rsp_fifo'[m] = rsp_fifo[m + d]
      /\ nice_icb_cmd_hsked(i) =>
           memq'[Len(memq')] = a /\ rsp_fifo'[Len(memq')] = maddr % 2
  BY <1>1, FlightStep
<1>3. CASE ~nice_mem_holdup
  <2>1. memq = <<>> /\ ~nice_icb_cmd_hsked(i)
    BY <1>1, <1>3 DEF BlockingInv, BurstAccounting, nice_mem_holdup, nice_icb_cmd_hsked, nice_icb_cmd_valid
  <2>2. Len(memq') = 0
    BY <1>2, <2>1
  <2> QED BY <2>2
<1>4. CASE nice_mem_holdup
  <2>1. /\ state' = state /\ ~nice_rsp_hsked(i) /\ Sent' = Sent + c /\ Received' = Received + d
        /\ Sent = Received + Len(memq) /\ Sent \in 0 .. 3 /\ Received \in 0 .. 3
    BY <1>4, BurstStep
  <2>2. CASE n \in 1 .. Len(memq) - d
    <3>1. memq'[n] = memq[n + d] /\ rsp_fifo'[n] = rsp_fifo[n + d] /\ n + d \in 1 .. Len(memq)
      BY <1>2, <2>2
    <3>2. memq[n + d].rdata[1 + rsp_fifo[n + d]] = WordOf(Received + (n + d) - 1)
      BY <2>1, <3>1 DEF NiceInv, LaneTracked
    <3> DEFINE k == Received + (n + d) - 1
    <3>3. k \in 0 .. Sent - 1 /\ Received' + n - 1 = k
      BY <1>2, <2>1, <2>2
    <3>4. WordIn(jobs', k) = WordOf(k)
      BY <1>4, <2>1, <3>3, WordStep
    <3> QED BY <3>1, <3>2, <3>3, <3>4
  <2>3. CASE n \notin 1 .. Len(memq) - d
    <3>1. n = Len(memq') /\ nice_icb_cmd_hsked(i) /\ Received' + n - 1 = Sent
      BY <1>2, <2>1, <2>3
    <3>2. WordIn(jobs', Received' + n - 1) = CmdWord(a.rdata)
      BY <1>4, <2>1, <3>1, WordStep
    <3>3. CmdWord(a.rdata) = a.rdata[1 + (maddr % 2)]
      BY <2>1 DEF CmdWord, nice_icb_cmd_read
    <3> QED BY <1>2, <3>1, <3>2, <3>3
  <2> QED BY <2>2, <2>3
<1> QED BY <1>3, <1>4

\* Outside a burst only crowbuf touches the row buffer, and a burst starts with
\* nothing sent.
LEMMA ColsTrackedQuiet ==
  ASSUME NiceInv, NEW i, NEW a, StepWith(i, a), ~nice_mem_holdup
  PROVE  ColsTracked' /\ SumTracked'
<1>1. /\ FsmStep(i) /\ LbufStep(i) /\ SbufStep(i) /\ RowsumStep(i) /\ RowbufStep(i)
      /\ ColsStep(i, a.rdata) /\ BurstAccounting /\ ColsTracked
      /\ rowbuf \in [Idx -> Word] /\ cols \in [0 .. clonum -> Word]
      /\ state \in {"IDLE", "PIPE"}
  BY DEF StepWith, CoreStep, NiceInv, BlockingInv, TypeOK, CoreTypeOK, nice_mem_holdup
<1>2. ~rcv.vld /\ ~nice_icb_cmd_hsked(i)
  BY <1>1 DEF BurstAccounting, nice_icb_cmd_hsked, nice_icb_cmd_valid
<1>3. /\ lbuf'.cmd = 0 /\ sbuf'.cmd = 0 /\ rowsum'.cmd = 0 /\ rowsum'.cnt = 0
      /\ rcv'.idx = 0 /\ ~rcv'.vld
  BY <1>1, <1>2 DEF LbufStep, SbufStep, RowsumStep, Count, BurstAccounting, rowbuf_icb_rsp_hsked,
     nice_rsp_valid_rowsum
<1>4. /\ state' = "LBUF" => lbuf'.cmd = 0
      /\ state' = "ROWSUM" => Sent' = 0 /\ Received' = 0 /\ Added' = 0
  BY <1>3 DEF Sent, Received, Added, clonum
<1>5. state' = "LBUF" => lbuf'.cnt \in Nat
  <2>1. lbuf' \in Burst
    BY LbufType DEF NiceInv, BlockingInv, TypeOK, StepWith, CoreStep
  <2> QED BY <2>1 DEF Burst, Idx, ROWBUF_DP
<1>6. \A k \in 0 .. clonum : cols[k] = rowbuf[k]
  BY <1>1 DEF ColsTracked
<1>7. rowbuf[clonum + 1] = 0
  BY <1>1 DEF ColsTracked
<1>8. /\ \A k \in 0 .. clonum : cols'[k] = rowbuf'[k]
      /\ rowbuf'[clonum + 1] = 0
  <2>1. CASE Takes(i, "crowbuf")
    BY <1>1, <2>1 DEF RowbufStep, ColsStep, Idx, ROWBUF_DP, clonum
  <2>2. CASE ~Takes(i, "crowbuf")
    <3>1. rowbuf' = rowbuf /\ cols' = cols
      BY <1>1, <1>2, <2>2 DEF RowbufStep, ColsStep, lbuf_wr, rowsum_wr
    <3> QED BY <1>6, <1>7, <3>1
  <2> QED BY <2>1, <2>2
<1>9. ColsTracked'
  <2>1. ASSUME NEW k \in 0 .. clonum
        PROVE  /\ ~(state' = "LBUF" /\ lbuf'.cnt <= k /\ k < lbuf'.cmd)
               /\ ~(state' = "ROWSUM" /\ Added' <= k /\ k < Sent')
    BY <1>4, <1>5
  <2> QED BY <1>8, <2>1 DEF ColsTracked
<1>10. SumTracked'
  BY <1>3, <1>4 DEF SumTracked
<1> QED BY <1>9, <1>10

\* lbuf: each word that comes back goes to the column it was sent for.
LEMMA ColsTrackedLbuf ==
  ASSUME NiceInv, NEW i, NEW a, StepWith(i, a), state = "LBUF"
  PROVE  ColsTracked' /\ SumTracked'
<1> DEFINE d == IF i.rspVld THEN 1 ELSE 0
           c == IF nice_icb_cmd_hsked(i) THEN 1 ELSE 0
<1>1. /\ RowbufStep(i) /\ ColsStep(i, a.rdata) /\ BurstAccounting /\ ColsTracked
      /\ rowbuf \in [Idx -> Word] /\ cols \in [0 .. clonum -> Word] /\ ~rcv.vld
  BY DEF StepWith, CoreStep, NiceInv, BlockingInv, BurstAccounting, TypeOK, CoreTypeOK
<1>2. /\ lbuf.cmd \in 0 .. 3 /\ lbuf.cnt \in 0 .. 2 /\ lbuf.cnt <= lbuf.cmd
      /\ ~nice_rsp_hsked(i)
      /\ nice_icb_cmd_hsked(i) => lbuf.cmd <= 2
      /\ i.rspVld => lbuf.cnt < lbuf.cmd
      /\ \/ state' = "LBUF" /\ lbuf'.cmd = lbuf.cmd + c /\ lbuf'.cnt = lbuf.cnt + d
         \/ state' = "IDLE" /\ lbuf.cmd = 3 /\ ~nice_icb_cmd_hsked(i) /\ lbuf.cnt = 2 /\ i.rspVld
  <2>1. Sent = lbuf.cmd /\ Received = lbuf.cnt /\ nice_mem_holdup
    BY DEF Sent, Received, nice_mem_holdup
  <2>2. state' = "LBUF" => Sent' = lbuf'.cmd /\ Received' = lbuf'.cnt
    BY DEF Sent, Received
  <2>3. lbuf.cnt <= 2
    BY <1>1 DEF BurstAccounting, clonum
  <2>4. i.rspVld => lbuf.cnt < lbuf.cmd
    BY <2>1, AlignedWord
  <2>5. Len(memq) \in Nat
    BY DEF NiceInv, BlockingInv, TypeOK
  <2> QED BY <2>1, <2>2, <2>3, <2>4, <2>5, BurstStep
<1>3. ~Takes(i, "crowbuf")
  BY DEF Takes, nice_req_hsked, nice_req_ready
<1>4. rowbuf' = IF i.rspVld THEN [rowbuf EXCEPT ![lbuf.cnt] = WordOf(lbuf.cnt)] ELSE rowbuf
  <2>1. i.rspVld => nice_icb_rsp_rdata_algn(i) = WordOf(lbuf.cnt)
    BY AlignedWord DEF Received
  <2> QED BY <1>1, <1>3, <2>1 DEF RowbufStep, lbuf_wr, rowsum_wr
<1>5. cols' = IF nice_icb_cmd_hsked(i) THEN [cols EXCEPT ![lbuf.cmd] = CmdWord(a.rdata)] ELSE cols
  BY <1>1, <1>3 DEF ColsStep
<1>6. /\ \A k \in 0 .. lbuf.cmd - 1 : WordIn(jobs', k) = WordOf(k)
      /\ nice_icb_cmd_hsked(i) => WordIn(jobs', lbuf.cmd) = CmdWord(a.rdata)
  BY <1>2, WordStep DEF nice_mem_holdup, Sent
<1>7. \A k \in 0 .. 2 : IF lbuf.cnt <= k /\ k < lbuf.cmd THEN cols[k] = WordOf(k)
                        ELSE cols[k] = rowbuf[k]
  BY <1>1 DEF ColsTracked, clonum
<1>8. rowbuf'[3] = 0
  BY <1>1, <1>2, <1>4 DEF ColsTracked, clonum, Idx, ROWBUF_DP
<1>9. ASSUME NEW k \in 0 .. 2
      PROVE  IF state' = "LBUF" /\ lbuf'.cnt <= k /\ k < lbuf'.cmd
             THEN cols'[k] = WordIn(jobs', k)
             ELSE cols'[k] = rowbuf'[k]
  <2>1. CASE k < lbuf.cnt
    <3>1. cols'[k] = cols[k] /\ rowbuf'[k] = rowbuf[k]
      BY <1>1, <1>2, <1>4, <1>5, <2>1 DEF Idx, ROWBUF_DP, clonum
    <3> QED BY <1>2, <1>7, <2>1, <3>1
  <2>2. CASE k = lbuf.cnt /\ i.rspVld
    <3>1. cols'[k] = cols[k] /\ rowbuf'[k] = WordOf(k)
      BY <1>1, <1>2, <1>4, <1>5, <2>2 DEF Idx, ROWBUF_DP, clonum
    <3> QED BY <1>2, <1>7, <2>2, <3>1
  <2>3. CASE lbuf.cnt <= k /\ ~(k = lbuf.cnt /\ i.rspVld) /\ k < lbuf.cmd
    <3>1. cols'[k] = cols[k] /\ rowbuf'[k] = rowbuf[k] /\ k \in 0 .. lbuf.cmd - 1
      BY <1>1, <1>2, <1>4, <1>5, <2>3 DEF Idx, ROWBUF_DP, clonum
    <3>2. cols'[k] = WordIn(jobs', k)
      BY <1>6, <1>7, <2>3, <3>1
    <3>3. state' = "LBUF" /\ lbuf'.cnt <= k /\ k < lbuf'.cmd
      BY <1>2, <2>3
    <3> QED BY <3>2, <3>3
  <2>4. CASE k = lbuf.cmd /\ nice_icb_cmd_hsked(i)
    <3>1. cols'[k] = CmdWord(a.rdata)
      BY <1>1, <1>5, <2>4 DEF clonum
    <3>2. state' = "LBUF" /\ lbuf'.cnt <= k /\ k < lbuf'.cmd
      BY <1>2, <2>4
    <3> QED BY <1>6, <2>4, <3>1, <3>2
  <2>5. CASE k >= lbuf.cmd /\ ~(k = lbuf.cmd /\ nice_icb_cmd_hsked(i))
    <3>1. cols'[k] = cols[k] /\ rowbuf'[k] = rowbuf[k]
      BY <1>1, <1>2, <1>4, <1>5, <2>5 DEF Idx, ROWBUF_DP, clonum
    <3> QED BY <1>2, <1>7, <2>5, <3>1
  <2> QED BY <1>2, <2>1, <2>2, <2>3, <2>4, <2>5
<1>10. state' # "ROWSUM"
  BY <1>2
<1>11. ColsTracked'
  BY <1>8, <1>9, <1>10 DEF ColsTracked, WordOf, clonum
<1> QED BY <1>10, <1>11 DEF SumTracked

\* SBUF stores what the row buffer has and clears both with the last column.
LEMMA ColsTrackedSbuf ==
  ASSUME NiceInv, NEW i, NEW a, StepWith(i, a), state = "SBUF"
  PROVE  ColsTracked' /\ SumTracked'
<1>1. /\ RowbufStep(i) /\ ColsStep(i, a.rdata) /\ ColsTracked /\ ~rcv.vld
      /\ ~Takes(i, "crowbuf")
  BY DEF StepWith, CoreStep, NiceInv, BlockingInv, BurstAccounting, Takes, nice_req_hsked, nice_req_ready
<1>2. state' \in {"SBUF", "IDLE"}
  BY BurstStep DEF nice_mem_holdup
<1>3. rowbuf' = rowbuf /\ cols' = cols
  BY <1>1 DEF RowbufStep, ColsStep, lbuf_wr, rowsum_wr
<1>4. ColsTracked'
  BY <1>1, <1>2, <1>3 DEF ColsTracked
<1> QED BY <1>2, <1>4 DEF SumTracked

\* rowsum: the word in the receive register is added to its column and to the
\* accumulator in the cycle after it came back.
LEMMA ColsTrackedRowsum ==
  ASSUME NiceInv, NEW i, NEW a, StepWith(i, a), state = "ROWSUM"
  PROVE  ColsTracked' /\ SumTracked'
<1> DEFINE c == IF nice_icb_cmd_hsked(i) THEN 1 ELSE 0
<1>1. /\ RowbufStep(i) /\ ColsStep(i, a.rdata) /\ RowsumStep(i) /\ BurstAccounting
      /\ ColsTracked /\ SumTracked /\ nice_mem_holdup
      /\ rowbuf \in [Idx -> Word] /\ cols \in [0 .. clonum -> Word]
      /\ rcv.vld \in BOOLEAN /\ i.rspVld \in BOOLEAN
  BY DEF StepWith, CoreStep, NiceInv, BlockingInv, TypeOK, CoreTypeOK, nice_mem_holdup, Input
<1>2. ~Takes(i, "crowbuf")
  BY DEF Takes, nice_req_hsked, nice_req_ready
<1>3. /\ Sent \in 0 .. 3 /\ Received \in 0 .. 3 /\ Received <= Sent
      /\ Sent = rowsum.cmd
      /\ nice_icb_cmd_hsked(i) => Sent <= 2
      /\ \/ /\ state' = "ROWSUM" /\ ~nice_rsp_hsked(i) /\ Sent' = Sent + c
            /\ Received' = IF i.rspVld THEN Received + 1 ELSE Received
         \/ /\ state' = "IDLE" /\ Sent = 3 /\ Received = 3 /\ ~rcv.vld /\ ~nice_icb_cmd_hsked(i)
  <2>1. Len(memq) \in Nat
    BY DEF NiceInv, BlockingInv, TypeOK
  <2>2. Sent = rowsum.cmd
    BY DEF Sent
  <2> QED BY <1>1, <2>1, <2>2, BurstStep
<1>4. /\ rcv.vld => Received > 0 /\ rcv.dat = WordOf(Received - 1)
      /\ Received > 0 => rcv.idx = Received - 1
      /\ Added > 0 => rowsum_acc = SumOf(Added)
      /\ Added = IF rcv.vld THEN Received - 1 ELSE Received
  BY <1>1 DEF SumTracked, Added
<1>5. \A k \in 0 .. 2 : IF Added <= k /\ k < Sent THEN cols[k] = (rowbuf[k] + WordOf(k)) % WordMod
                        ELSE cols[k] = rowbuf[k]
  BY <1>1 DEF ColsTracked, clonum
<1>6. rowbuf' = IF rcv.vld
                THEN [rowbuf EXCEPT ![Received - 1] =
                        (rowbuf[Received - 1] + WordOf(Received - 1)) % WordMod]
                ELSE rowbuf
  BY <1>1, <1>2, <1>4 DEF RowbufStep, lbuf_wr, rowsum_wr
<1>7. cols' = IF nice_icb_cmd_hsked(i)
              THEN [cols EXCEPT ![Sent] = (cols[Sent] + CmdWord(a.rdata)) % WordMod] ELSE cols
  <2>1. Sent = rowsum.cmd
    BY <1>3
  <2> QED BY <1>1, <1>2, <2>1 DEF ColsStep
<1>8. CASE state' = "IDLE"
  <2>1. Sent = 3 /\ Received = 3 /\ ~rcv.vld /\ ~nice_icb_cmd_hsked(i)
    BY <1>3, <1>8
  <2>2. rowbuf' = rowbuf /\ cols' = cols
    BY <1>6, <1>7, <2>1
  <2>3. \A k \in 0 .. 2 : cols[k] = rowbuf[k]
    BY <1>4, <1>5, <2>1
  <2>4. ColsTracked'
    BY <1>1, <1>8, <2>2, <2>3 DEF ColsTracked, clonum
  <2> QED BY <1>8, <2>4 DEF SumTracked
<1>9. CASE state' = "ROWSUM"
  <2>1. /\ ~nice_rsp_hsked(i) /\ Sent' = Sent + c
        /\ Received' = IF i.rspVld THEN Received + 1 ELSE Received
    BY <1>3, <1>9
  <2>2. ~(nice_rsp_valid_rowsum /\ i.rspRdy)
    BY <2>1 DEF nice_rsp_hsked, nice_rsp_multicyc_valid
  <2>3. /\ rcv'.vld = i.rspVld
        /\ rcv'.idx = IF i.rspVld THEN rowsum.cnt ELSE rcv.idx
        /\ i.rspVld => rcv'.dat = WordOf(Received)
        /\ rowsum_acc' = IF ~rcv.vld THEN rowsum_acc ELSE IF rcv.idx = 0 THEN rcv.dat
                         ELSE (rcv.dat + rowsum_acc) % WordMod
    <3>1. i.rspVld => nice_icb_rsp_rdata_algn(i) = WordOf(Received)
      BY AlignedWord
    <3> QED BY <1>1, <2>2, <3>1 DEF RowsumStep, rowbuf_icb_rsp_hsked
  <2>4. Added' = Received
    BY <1>3, <2>1, <2>3 DEF Added
  <2>5. i.rspVld => Received < Sent /\ Received = rowsum.cnt
    <3>1. i.rspVld => Received < Sent
      BY AlignedWord
    <3>2. Received < 3 => rcv.idx # clonum
      BY DEF Received, clonum
    <3> QED BY <1>3, <3>1, <3>2 DEF Received, clonum
  <2>6. /\ \A k \in 0 .. Sent - 1 : WordIn(jobs', k) = WordOf(k) /\ WordOf(k) \in Word
        /\ nice_icb_cmd_hsked(i) => WordIn(jobs', Sent) = CmdWord(a.rdata)
    BY <1>1, <2>1, WordStep
  <2>7. rowbuf'[3] = 0
    BY <1>1, <1>3, <1>4, <1>6 DEF ColsTracked, clonum, Idx, ROWBUF_DP
  <2>8. ASSUME NEW k \in 0 .. 2
        PROVE  IF Received <= k /\ k < Sent'
               THEN cols'[k] = (rowbuf'[k] + WordIn(jobs', k)) % WordMod
               ELSE cols'[k] = rowbuf'[k]
    <3>1. CASE rcv.vld /\ k = Received - 1
      <4>1. /\ cols'[k] = cols[k] /\ rowbuf'[k] = (rowbuf[k] + WordOf(k)) % WordMod
            /\ Added <= k /\ k < Sent /\ ~(Received <= k)
        BY <1>1, <1>3, <1>4, <1>6, <1>7, <3>1 DEF Idx, ROWBUF_DP, clonum
      <4> QED BY <1>5, <4>1
    <3>2. CASE ~(rcv.vld /\ k = Received - 1)
      <4>1. rowbuf'[k] = rowbuf[k]
        BY <1>1, <1>3, <1>4, <1>6, <3>2 DEF Idx, ROWBUF_DP
      <4>2. Added <= k <=> Received <= k
        BY <1>3, <1>4, <3>2
      <4>3. CASE nice_icb_cmd_hsked(i) /\ k = Sent
        <5>1. /\ cols'[k] = (cols[k] + CmdWord(a.rdata)) % WordMod
              /\ Received <= k /\ k < Sent' /\ cols[k] = rowbuf[k]
          BY <1>1, <1>3, <1>5, <1>7, <2>1, <4>3 DEF clonum
        <5> QED BY <2>6, <4>1, <4>3, <5>1
      <4>4. CASE ~(nice_icb_cmd_hsked(i) /\ k = Sent)
        <5>1. cols'[k] = cols[k]
          BY <1>1, <1>3, <1>7, <4>4 DEF clonum
        <5>2. k < Sent' <=> k < Sent
          BY <1>3, <2>1, <4>4
        <5>3. k < Sent => WordIn(jobs', k) = WordOf(k)
          BY <1>3, <2>6
        <5> QED BY <1>5, <4>1, <4>2, <5>1, <5>2, <5>3
      <4> QED BY <4>3, <4>4
    <3> QED BY <3>1, <3>2
  <2>9. ColsTracked'
    BY <1>9, <2>4, <2>7, <2>8 DEF ColsTracked, WordOf, clonum
  <2>10. rcv'.vld => Received' > 0 /\ rcv'.dat = WordIn(jobs', Received' - 1)
    <3> SUFFICES ASSUME i.rspVld
                 PROVE  Received' > 0 /\ rcv'.dat = WordIn(jobs', Received' - 1)
      BY <2>3
    <3>1. Received' - 1 = Received /\ Received \in 0 .. Sent - 1
      BY <1>3, <2>1, <2>5
    <3> QED BY <1>3, <2>1, <2>3, <2>6, <3>1
  <2>11. Received' > 0 => rcv'.idx = Received' - 1
    BY <1>3, <1>4, <2>1, <2>3, <2>5
  <2>12. Received > 0 => rowsum_acc' = SumOf(Received)
    <3> SUFFICES ASSUME Received > 0 PROVE rowsum_acc' = SumOf(Received)
      OBVIOUS
    <3>1. CASE ~rcv.vld
      BY <1>4, <2>3, <3>1
    <3>2. CASE rcv.vld /\ Received = 1
      <4>1. rowsum_acc' = WordOf(0)
        BY <1>4, <2>3, <3>2
      <4> QED BY <3>2, <4>1 DEF SumOf
    <3>3. CASE rcv.vld /\ Received = 2
      <4>1. rowsum_acc' = (WordOf(1) + WordOf(0)) % WordMod
        BY <1>4, <2>3, <3>3 DEF SumOf
      <4>2. WordOf(0) \in Word /\ WordOf(1) \in Word
        BY <1>3, <2>6, <3>3
      <4>3. WordOf(1) + WordOf(0) = WordOf(0) + WordOf(1)
        BY <4>2 DEF Word
      <4> QED BY <3>3, <4>1, <4>3 DEF SumOf
    <3>4. CASE rcv.vld /\ Received = 3
      <4>1. rowsum_acc' = (WordOf(2) + ((WordOf(0) + WordOf(1)) % WordMod)) % WordMod
        BY <1>4, <2>3, <3>4 DEF SumOf
      <4>2. WordOf(0) \in Word /\ WordOf(1) \in Word /\ WordOf(2) \in Word
        BY <1>3, <2>6, <3>4
      <4>3. /\ WordOf(0) + WordOf(1) \in Nat /\ WordOf(2) \in Nat /\ WordOf(2) <= WordMod
            /\ WordMod \in Nat \ {0}
        BY <4>2, ModAssumption DEF Word
      <4>4. rowsum_acc' = (WordOf(2) + (WordOf(0) + WordOf(1))) % WordMod
        BY <4>1, <4>3, ModAdd
      <4>5. WordOf(2) + (WordOf(0) + WordOf(1)) = WordOf(0) + WordOf(1) + WordOf(2)
        BY <4>2 DEF Word
      <4> QED BY <3>4, <4>4, <4>5 DEF SumOf
    <3> QED BY <1>1, <1>3, <3>1, <3>2, <3>3, <3>4
  <2>13. Received > 0 => SumOf(Added)' = SumOf(Received)
    <3>1. Received > 0 => WordOf(0)' = WordOf(0)
      BY <1>3, <2>6 DEF WordOf
    <3>2. Received > 1 => WordOf(1)' = WordOf(1)
      BY <1>3, <2>6 DEF WordOf
    <3>3. Received > 2 => WordOf(2)' = WordOf(2)
      BY <1>3, <2>6 DEF WordOf
    <3> QED BY <1>3, <2>4, <3>1, <3>2, <3>3 DEF SumOf
  <2>14. SumTracked'
    BY <2>4, <2>10, <2>11, <2>12, <2>13 DEF SumTracked, WordOf
  <2> QED BY <2>9, <2>14
<1> QED BY <1>3, <1>8, <1>9

\* Every step keeps NiceInv.
LEMMA NiceInvStep ==
  ASSUME Blocking, NiceInv, [Next]_vars
  PROVE  NiceInv'
<1>1. CASE Next
  <2>1. PICK wb \in BOOLEAN, cmd \in BOOLEAN, rsp \in BOOLEAN : Cycle(wb, cmd, rsp)
    BY <1>1 DEF Next, IdleCycle, LbufCycle, SbufCycle, PipeCycle, RowsumCycle, InState
  <2>2. TypeOK /\ BlockingInv /\ state \in {"IDLE", "LBUF", "SBUF", "PIPE", "ROWSUM"}
    BY DEF NiceInv, BlockingInv, TypeOK, CoreTypeOK
  <2>3. PICK i, a : StepWith(i, a)
    BY <2>1, <2>2, CycleIsStep
  <2>4. BlockingInv'
    <3>1. TypeOK'
      BY <2>1, <2>2, CycleType
    <3>2. BurstAccounting'
      BY <2>2, <2>3, LbufAccounting, SbufAccounting, RowsumAccounting, FifoAccounting
         DEF BurstAccounting
    <3>3. MemRunsAlone'
      BY <2>2, <2>3, MemRunsAloneStep
    <3> QED BY <3>1, <3>2, <3>3 DEF BlockingInv
  <2>5. JobTracked'
    <3>1. CASE nice_mem_holdup
      BY <2>3, <3>1, JobTrackedBurst
    <3>2. CASE state = "IDLE"
      BY <2>3, <3>2, JobTrackedIdle
    <3>3. CASE state = "PIPE"
      BY <2>3, <3>3, PipeTrackedPipe
    <3> QED BY <2>2, <3>1, <3>2, <3>3 DEF nice_mem_holdup
  <2>6. ErrTracked'
    BY <2>3, ErrTrackedStep
  <2>7. PipeTracked'
    BY <2>3, PipeTrackedPipe, PipeTrackedOther
  <2>8. LaneTracked'
    BY <2>3, LaneTrackedStep
  <2>9. ColsTracked' /\ SumTracked'
    <3>1. CASE ~nice_mem_holdup
      BY <2>3, <3>1, ColsTrackedQuiet
    <3>2. CASE state = "LBUF"
      BY <2>3, <3>2, ColsTrackedLbuf
    <3>3. CASE state = "SBUF"
      BY <2>3, <3>3, ColsTrackedSbuf
    <3>4. CASE state = "ROWSUM"
      BY <2>3, <3>4, ColsTrackedRowsum
    <3> QED BY <3>1, <3>2, <3>3, <3>4 DEF nice_mem_holdup
  <2> QED BY <2>4, <2>5, <2>6, <2>7, <2>8, <2>9 DEF NiceInv
<1>2. CASE UNCHANGED vars
  <2>1. BlockingInv'
    BY <1>2 DEF vars, coreVars, NiceInv, BlockingInv, TypeOK, CoreTypeOK, BurstAccounting,
       MemRunsAlone, nice_mem_holdup
  <2>2. /\ Sent' = Sent /\ Received' = Received /\ Added' = Added
        /\ (nice_mem_holdup' <=> nice_mem_holdup) /\ (ErrInFlight' <=> ErrInFlight)
    BY <1>2 DEF vars, coreVars, Sent, Received, Added, nice_mem_holdup, ErrInFlight
  <2>3. JobTracked' /\ ErrTracked'
    BY <1>2, <2>2 DEF vars, coreVars, NiceInv, JobTracked, ErrTracked, Moved
  <2>4. PipeTracked'
    BY <1>2 DEF vars, coreVars, NiceInv, PipeTracked, Held
  <2>5. LaneTracked' /\ ColsTracked' /\ SumTracked'
    BY <1>2, <2>2 DEF vars, coreVars, NiceInv, LaneTracked, ColsTracked, SumTracked, WordOf,
       WordIn, SumOf
  <2> QED BY <2>1, <2>3, <2>4, <2>5 DEF NiceInv
<1> QED BY <1>1, <1>2

\* The registers of the unit stay tied to the jobs they work for, whatever the
\* widths, the requests, the addresses, the stalls and the errors of memory.
THEOREM NiceCorrect == Blocking /\ Spec => []NiceInv
<1> SUFFICES ASSUME Blocking PROVE Spec => []NiceInv
  OBVIOUS
<1>1. Init => NiceInv
  <2> SUFFICES ASSUME Init PROVE NiceInv
    OBVIOUS
  <2>1. BlockingInv
    <3>1. TypeOK
      BY ModAssumption, SysAssumption DEF Init, CoreInit, TypeOK, CoreTypeOK, Burst, Idx,
         ROWBUF_DP, Word, XWord, Addr, Requested, ITags, clonum
    <3>2. BurstAccounting
      BY DEF Init, CoreInit, BurstAccounting
    <3>3. MemRunsAlone
      BY DEF Init, CoreInit, MemRunsAlone, nice_mem_holdup, NoReq, MultiCycOps, MemOps
    <3> QED BY <3>1, <3>2, <3>3 DEF BlockingInv
  <2>2. JobTracked /\ ErrTracked /\ PipeTracked
    BY DEF Init, CoreInit, JobTracked, ErrTracked, PipeTracked, nice_mem_holdup
  <2>3. LaneTracked /\ ColsTracked /\ SumTracked
    BY DEF Init, CoreInit, LaneTracked, ColsTracked, SumTracked, clonum, Idx, ROWBUF_DP
  <2> QED BY <2>1, <2>2, <2>3 DEF NiceInv
<1>2. NiceInv /\ [Next]_vars => NiceInv'
  BY NiceInvStep
<1> QED BY <1>1, <1>2, PTL DEF Spec

\* The response on the multi-cycle channel is the one of the oldest unanswered
\* instruction: from its unit, after its three accesses to consecutive words,
\* with the sum that instruction has to deliver.
THEOREM ResponseCorrect == Blocking /\ Spec => []ResponseMatchesJob
<1>1. NiceInv => ResponseMatchesJob
  <2> SUFFICES ASSUME NiceInv, nice_rsp_multicyc_valid
               PROVE  /\ jobs # <<>>
                      /\ LET j == Head(jobs)
                         IN CASE j.op = "pipeadd" -> nice_rsp_valid_pipe /\ nice_rsp_multicyc_dat = j.sum
                              [] j.op = "rowsum"  ->
                                   /\ nice_rsp_valid_rowsum /\ BurstDone(j)
                                   /\ nice_rsp_multicyc_dat =
                                        (j.words[1].dat + j.words[2].dat + j.words[3].dat) % WordMod
                              [] j.op = "lbuf"    -> lbuf.vld /\ BurstDone(j)
                              [] j.op = "sbuf"    -> sbuf.vld /\ BurstDone(j)
    BY DEF ResponseMatchesJob
  <2>1. jobs \in Seq(JobRec) /\ (lbuf.vld \/ sbuf.vld => state = "IDLE")
    BY DEF NiceInv, BlockingInv, TypeOK, MemRunsAlone
  <2>2. \A op \in {"lbuf", "sbuf", "rowsum"} :
          Moved(op, 3) => jobs # <<>> /\ Head(jobs) = jobs[1] /\ jobs[1].op = op /\ BurstDone(jobs[1])
    <3> SUFFICES ASSUME NEW op, Moved(op, 3)
                 PROVE  jobs # <<>> /\ Head(jobs) = jobs[1] /\ jobs[1].op = op /\ BurstDone(jobs[1])
      OBVIOUS
    <3>1. Len(jobs) = 1 /\ jobs[1].op = op /\ Len(jobs[1].words) = 3
      BY DEF Moved
    <3>2. \A k \in 0 .. 2 : jobs[1].words[k + 1].addr = (jobs[1].base + k) % AddrMod
      BY DEF Moved
    <3>3. jobs # <<>> /\ Head(jobs) = jobs[1]
      BY <2>1, <3>1
    <3> QED BY <3>1, <3>2, <3>3 DEF BurstDone, clonum
  <2>3. CASE lbuf.vld
    <3>1. clonum + 1 = 3
      BY DEF clonum
    <3>2. Moved("lbuf", 3)
      BY <2>3, <3>1 DEF NiceInv, JobTracked
    <3> QED BY <2>2, <2>3, <3>2
  <2>4. CASE sbuf.vld
    <3>1. clonum + 1 = 3
      BY DEF clonum
    <3>2. Moved("sbuf", 3)
      BY <2>4, <3>1 DEF NiceInv, JobTracked
    <3> QED BY <2>2, <2>4, <3>2
  <2>5. CASE nice_rsp_valid_pipe
    <3>1. state = "PIPE" /\ pipe[2].vld /\ nice_rsp_multicyc_dat = pipe[2].dat
      BY <2>5 DEF nice_rsp_valid_pipe, nice_rsp_multicyc_dat
    <3>2. /\ Len(jobs) = Held(0) + Held(1) + Held(2) /\ jobs[1].sum = pipe[2].dat
          /\ \A n \in 1 .. Len(jobs) : jobs[n].op = "pipeadd"
      BY <3>1 DEF NiceInv, PipeTracked
    <3>3. Held(0) \in 0 .. 1 /\ Held(1) \in 0 .. 1 /\ Held(2) = 1
      BY <3>1 DEF Held
    <3>4. Len(jobs) >= 1 /\ jobs # <<>> /\ Head(jobs) = jobs[1] /\ jobs[1].op = "pipeadd"
      BY <2>1, <3>2, <3>3
    <3> QED BY <2>5, <3>1, <3>2, <3>4
  <2>6. CASE nice_rsp_valid_rowsum
    <3>1. /\ state = "ROWSUM" /\ rcv.idx = 2 /\ ~rcv.vld /\ nice_rsp_multicyc_dat = rowsum_acc
      BY <2>6 DEF nice_rsp_valid_rowsum, nice_rsp_multicyc_dat, rowsum_acc_flg, clonum
    <3>2. Received = 3 /\ Added = 3 /\ Sent = 3
      BY <3>1 DEF Received, Added, Sent, clonum, NiceInv, BlockingInv, BurstAccounting
    <3>3. Moved("rowsum", 3)
      <4>1. nice_mem_holdup /\ OpOf[state] = "rowsum"
        BY <3>1 DEF nice_mem_holdup, OpOf
      <4> QED BY <3>2, <4>1 DEF NiceInv, JobTracked
    <3>4. rowsum_acc = SumOf(3)
      BY <3>1, <3>2 DEF NiceInv, SumTracked
    <3>5. SumOf(3) = (jobs[1].words[1].dat + jobs[1].words[2].dat + jobs[1].words[3].dat) % WordMod
      BY DEF SumOf, WordOf, WordIn
    <3> QED BY <2>2, <2>6, <3>1, <3>3, <3>4, <3>5
  <2> QED BY <2>3, <2>4, <2>5, <2>6 DEF nice_rsp_multicyc_valid
<1> QED BY <1>1, NiceCorrect, PTL

\* A response carries an error exactly when an access of its own instruction
\* failed: none is lost and none is charged to another instruction.
THEOREM ErrorsCorrect == Blocking /\ Spec => []ErrorsReported
<1>1. NiceInv => ErrorsReported
  <2> SUFFICES ASSUME NiceInv, nice_rsp_multicyc_valid, jobs # <<>>
               PROVE  nice_rsp_multicyc_err = Head(jobs).err
    BY DEF ErrorsReported
  <2>1. /\ jobs \in Seq(JobRec) /\ (lbuf.vld \/ sbuf.vld => state = "IDLE") /\ ErrTracked
        /\ lbuf \in Burst /\ sbuf \in Burst
    BY DEF NiceInv, BlockingInv, TypeOK, CoreTypeOK, MemRunsAlone
  <2>2. Head(jobs) = jobs[1] /\ jobs[1] \in JobRec
    BY <2>1
  <2>3. jobs[1].err \in BOOLEAN
    BY <2>2 DEF JobRec
  <2>4. nice_rsp_multicyc_err <=> jobs[1].err
    <3>1. CASE lbuf.vld
      <4>1. ~sbuf.vld
        BY <3>1 DEF NiceInv, JobTracked, Moved
      <4> QED BY <2>1, <3>1, <4>1 DEF ErrTracked, nice_rsp_multicyc_err, nice_rsp_valid_rowsum
    <3>2. CASE sbuf.vld
      <4>1. ~lbuf.vld
        BY <3>2 DEF NiceInv, JobTracked, Moved
      <4> QED BY <2>1, <3>2, <4>1 DEF ErrTracked, nice_rsp_multicyc_err, nice_rsp_valid_rowsum
    <3>3. CASE nice_rsp_valid_pipe
      <4>1. state = "PIPE" /\ ~lbuf.vld /\ ~sbuf.vld
        BY <2>1, <3>3 DEF nice_rsp_valid_pipe
      <4>2. Len(jobs) >= 1
        BY <2>1
      <4>3. ~jobs[1].err
        BY <4>1, <4>2 DEF NiceInv, PipeTracked
      <4> QED BY <4>1, <4>3 DEF nice_rsp_multicyc_err, nice_rsp_valid_rowsum
    <3>4. CASE nice_rsp_valid_rowsum
      <4>1. state = "ROWSUM" /\ ~lbuf.vld /\ ~sbuf.vld /\ rcv.idx = clonum
        BY <2>1, <3>4 DEF nice_rsp_valid_rowsum
      <4>2. memq = <<>>
        BY <4>1 DEF NiceInv, BlockingInv, BurstAccounting, clonum
      <4>3. ~ErrInFlight
        BY <4>2 DEF ErrInFlight
      <4> QED BY <2>1, <3>4, <4>1, <4>3 DEF ErrTracked, nice_rsp_multicyc_err
    <3> QED BY <3>1, <3>2, <3>3, <3>4 DEF nice_rsp_multicyc_valid
  <2> QED BY <2>2, <2>3, <2>4 DEF nice_rsp_multicyc_err
<1> QED BY <1>1, NiceCorrect, PTL

\* Between instructions each column of the row buffer is what the loads, the
\* sums and the clears accepted so far make it.
THEOREM ColumnsCorrect == Blocking /\ Spec => []ColumnSums
<1>1. NiceInv => ColumnSums
  BY DEF NiceInv, ColsTracked, ColumnSums
<1> QED BY <1>1, NiceCorrect, PTL

\* The n-th store of an sbuf carries column n, to the n-th word after its base.
THEOREM StoresCorrect == Blocking /\ Spec => []StoresColumns
<1>1. NiceInv => StoresColumns
  <2> SUFFICES ASSUME NiceInv, state = "SBUF", nice_icb_cmd_valid
               PROVE  /\ jobs # <<>>
                      /\ nice_icb_cmd_wdata = cols[Len(jobs[Len(jobs)].words)]
                      /\ maddr = (jobs[Len(jobs)].base + Len(jobs[Len(jobs)].words)) % AddrMod
    BY DEF StoresColumns
  <2>1. Sent = sbuf.cmd /\ sbuf.cmd \in 0 .. 2 /\ nice_mem_holdup
    BY DEF Sent, nice_icb_cmd_valid, clonum, nice_mem_holdup, NiceInv, BlockingInv, TypeOK,
       CoreTypeOK, Burst, Idx, ROWBUF_DP
  <2>2. /\ Len(jobs) = 1 /\ Len(jobs[1].words) = sbuf.cmd
        /\ maddr = (jobs[1].base + sbuf.cmd) % AddrMod
    BY <2>1 DEF NiceInv, JobTracked, Moved
  <2>3. jobs # <<>>
    BY <2>2
  <2>4. nice_icb_cmd_wdata = cols[sbuf.cmd]
    BY <2>1 DEF nice_icb_cmd_wdata, NiceInv, ColsTracked, clonum
  <2> QED BY <2>2, <2>3, <2>4
<1> QED BY <1>1, NiceCorrect, PTL
===============================================================================
