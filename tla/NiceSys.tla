-------------------------------- MODULE NiceSys --------------------------------
(***************************************************************************)
(* The NICE coprocessor between the core that sends it instructions and the *)
(* core's load/store unit that serves its memory accesses.  The core side   *)
(* follows how the signals are used: a request stays on the channel until   *)
(* nice_req_ready, unless the core withdraws it (a flush, or the stage that  *)
(* would take a one-cycle result is busy); an instruction answered on the    *)
(* multi-cycle channel pushes a tag, responses meet tags in order (`jobs'); the *)
(* core can take a response only when a tag is waiting and its write-back    *)
(* port is free.  Memory answers in order, at least a cycle after a command. *)
(*                                                                         *)
(* A job carries, beside its instruction, what the memory really delivered  *)
(* or was given for it, so that a response can be compared with it.  `cols' *)
(* is what the row buffer has to contain once the current burst is over.    *)
(***************************************************************************)
EXTENDS NiceCore

CONSTANTS Requests,   \* requests the core may send: [op, rs1, rs2]
          Blocking,   \* TRUE: no multi-cycle request is put on the channel
                      \*   while a memory instruction is unanswered
          Stall,      \* TRUE: the write-back port may refuse a response
          MemErr,     \* TRUE: memory may answer with an error
          InitMem     \* contents of memory at reset

ASSUME SysAssumption ==
  /\ \A r \in Requests : r \in [op : Ops, rs1 : Nat, rs2 : Nat]
  /\ Blocking \in BOOLEAN /\ Stall \in BOOLEAN /\ MemErr \in BOOLEAN
  /\ InitMem \in [Addr -> Word]

ITags == 2   \* bound: the core's tags are abstracted to their parity

VARIABLES req,    \* what the core drives on nice_req_*
          itag,   \* tag of the next multi-cycle instruction
          jobs,   \* unanswered multi-cycle instructions, oldest first
          cols,   \* reference contents of row buffer words 0 .. clonum
          mem,    \* memory, by word
          memq    \* accesses accepted and not yet answered: [rdata, err]

vars == <<coreVars, req, itag, jobs, cols, mem, memq>>

Job(r) == [op |-> r.op, tag |-> itag, base |-> r.rs1 % AddrMod,
           sum |-> (r.rs1 + r.rs2) % XMod, words |-> <<>>, err |-> FALSE]

IsMemJob(j) == j.op \in MemOps

Init ==
  /\ CoreInit
  /\ req = NoReq
  /\ itag = 0
  /\ jobs = <<>>
  /\ cols = [k \in 0 .. clonum |-> 0]
  /\ mem = InitMem
  /\ memq = <<>>

(* ------------------------- the core side -------------------------------- *)

\* The inputs of the unit in a cycle in which the write-back port is free
\* (wb), memory can take a command (cmd) and memory answers (rsp).
Inputs(wb, cmd, rsp, stale) ==
  [req |-> req, rspRdy |-> wb /\ jobs # <<>>, cmdRdy |-> cmd, rspVld |-> rsp,
   rdata |-> IF rsp THEN Head(memq).rdata ELSE <<0, 0>>,
   rerr |-> rsp /\ Head(memq).err, stale |-> stale]

\* The word on the half of the bus that the current address selects.
CmdWord(rdata) == IF nice_icb_cmd_read THEN rdata[1 + (maddr % 2)] ELSE nice_icb_cmd_wdata

\* Job j with the access accepted in this cycle noted in it.
Note(j, rdata, err) ==
  [op |-> j.op, tag |-> j.tag, base |-> j.base, sum |-> j.sum,
   words |-> Append(j.words, [addr |-> maddr, dat |-> CmdWord(rdata)]),
   err |-> j.err \/ err]

\* The tag queue.  A memory access belongs to the newest instruction.
JobsStep(i, rdata, err) ==
  LET noted == IF nice_icb_cmd_hsked(i) /\ jobs # <<>>
               THEN [jobs EXCEPT ![Len(jobs)] = Note(jobs[Len(jobs)], rdata, err)]
               ELSE jobs
      left == IF nice_rsp_hsked(i) THEN Tail(noted) ELSE noted
      push == nice_req_hsked(i) /\ ~nice_rsp_1cyc_type(i)
  IN /\ jobs' = IF push THEN Append(left, Job(req)) ELSE left
     /\ itag' = IF push THEN (itag + 1) % ITags ELSE itag

ColsStep(i, rdata) ==
  cols' = IF Takes(i, "crowbuf") THEN [k \in 0 .. clonum |-> 0]
          ELSE IF ~nice_icb_cmd_hsked(i) THEN cols
          ELSE IF state = "LBUF" THEN [cols EXCEPT ![lbuf.cmd] = CmdWord(rdata)]
          ELSE IF state = "ROWSUM"
          THEN [cols EXCEPT ![rowsum.cmd] = (@ + CmdWord(rdata)) % WordMod]
          ELSE cols

\* The core may present `r' next, given the instructions then unanswered.
MayPresent(r, js) ==
  Blocking /\ r.op \in MultiCycOps => \A n \in 1 .. Len(js) : ~IsMemJob(js[n])

ReqStep(i) ==
  IF req # NoReq /\ ~nice_req_hsked(i)
  THEN req' \in {req, NoReq}
  ELSE req' \in {NoReq} \cup {r \in Requests : MayPresent(r, jobs')}

(* ------------------------- the memory side ------------------------------ *)

DoubleWord(a) == LET b == a - (a % 2) IN <<mem[b], mem[b + 1]>>

\* What memory answers to the command on the channel: on an error the data is
\* anything and a store is not performed.
Answers == [rdata : {DoubleWord(maddr)}, err : {FALSE}]
             \cup (IF MemErr THEN [rdata : Word \X Word, err : {TRUE}] ELSE {})

MemStep(i, a) ==
  LET rest == IF i.rspVld THEN Tail(memq) ELSE memq
      writes == nice_icb_cmd_hsked(i) /\ ~nice_icb_cmd_read /\ ~a.err
  IN /\ memq' = IF nice_icb_cmd_hsked(i) THEN Append(rest, a) ELSE rest
     /\ mem' = IF writes
               THEN [x \in Addr |->
                      IF x - (x % 2) = maddr - (maddr % 2) /\ x % 2 \in nice_icb_cmd_wmask
                      THEN nice_icb_cmd_wdata ELSE mem[x]]
               ELSE mem

(* ------------------------- the system ----------------------------------- *)

Cycle(wb, cmd, rsp) ==
  /\ wb \/ Stall
  /\ rsp => memq # <<>>
  /\ \E stale \in (IF rsp_fifo = <<>> /\ rsp THEN {0, 1} ELSE {0}) :
       LET i == Inputs(wb, cmd, rsp, stale)
       IN /\ CoreStep(i)
          /\ \E a \in (IF nice_icb_cmd_hsked(i) THEN Answers
                      ELSE {[rdata |-> <<0, 0>>, err |-> FALSE]}) :
               /\ JobsStep(i, a.rdata, a.err)
               /\ ColsStep(i, a.rdata)
               /\ MemStep(i, a)
          /\ ReqStep(i)

InState(s) == state = s /\ \E wb, cmd, rsp \in BOOLEAN : Cycle(wb, cmd, rsp)

IdleCycle == InState("IDLE")
LbufCycle == InState("LBUF")
SbufCycle == InState("SBUF")
PipeCycle == InState("PIPE")
RowsumCycle == InState("ROWSUM")

Next == IdleCycle \/ LbufCycle \/ SbufCycle \/ PipeCycle \/ RowsumCycle

Spec == Init /\ [][Next]_vars

\* The core takes a multi-cycle request back before it was accepted.
Withdraws == req.op \in MultiCycOps /\ req' = NoReq /\ itag' = itag

\* The core keeps a response waiting, and memory a command or an answer, only
\* for so long: other units release the write-back port and the LSU drains.
\* A memory instruction is also accepted only in a cycle with cmdRdy.  Nothing
\* makes the core withdraw a request.
WbFree == /\ nice_rsp_multicyc_valid
          /\ \E cmd, rsp \in BOOLEAN : Cycle(TRUE, cmd, rsp)
          /\ ~Withdraws
MemTakes == /\ nice_icb_cmd_valid \/ req.op \in MemOps
            /\ \E wb, rsp \in BOOLEAN : Cycle(wb, TRUE, rsp)
            /\ ~Withdraws
MemAnswers == (\E wb, cmd \in BOOLEAN : Cycle(wb, cmd, TRUE)) /\ ~Withdraws

FairSpec == /\ Spec
            /\ WF_vars(Next /\ ~Withdraws)
            /\ WF_vars(WbFree) /\ WF_vars(MemTakes) /\ WF_vars(MemAnswers)

(* ------------------------- properties ------------------------------------ *)

Requested == Requests \cup {NoReq}
Answer == [rdata : Word \X Word, err : BOOLEAN]
JobRec == [op : MultiCycOps, tag : 0 .. ITags - 1, base : Addr, sum : XWord,
           words : Seq([addr : Addr, dat : Word]), err : BOOLEAN]

\* Every register of the unit holds a value of its width, and the core and
\* memory exchange well-formed requests, jobs and answers with it.
TypeOK ==
  /\ CoreTypeOK
  /\ req \in Requested
  /\ itag \in 0 .. ITags - 1
  /\ jobs \in Seq(JobRec)
  /\ cols \in [0 .. clonum -> Word]
  /\ mem \in [Addr -> Word]
  /\ memq \in Seq(Answer)

\* The job has moved its three words, from consecutive addresses.
BurstDone(j) ==
  /\ Len(j.words) = clonum + 1
  /\ \A k \in 0 .. clonum : j.words[k + 1].addr = (j.base + k) % AddrMod

\* A response on the multi-cycle channel is the response of the oldest
\* unanswered instruction: it comes from the unit that instruction runs on,
\* after all its memory accesses, and carries its result - the sum of the two
\* registers for pipeadd, the sum of the three words of the row for rowsum.
ResponseMatchesJob ==
  nice_rsp_multicyc_valid =>
    /\ jobs # <<>>
    /\ LET j == Head(jobs)
       IN CASE j.op = "pipeadd" -> nice_rsp_valid_pipe /\ nice_rsp_multicyc_dat = j.sum
            [] j.op = "rowsum"  ->
                 /\ nice_rsp_valid_rowsum /\ BurstDone(j)
                 /\ nice_rsp_multicyc_dat =
                      (j.words[1].dat + j.words[2].dat + j.words[3].dat) % WordMod
            [] j.op = "lbuf"    -> lbuf.vld /\ BurstDone(j)
            [] j.op = "sbuf"    -> sbuf.vld /\ BurstDone(j)

\* A response carries an error exactly when one of the memory accesses of its
\* own instruction failed: no error is lost, or charged to a later instruction
\* because nice_rsp_err_* was not cleared in time.
ErrorsReported ==
  nice_rsp_multicyc_valid /\ jobs # <<>> => nice_rsp_multicyc_err = Head(jobs).err

\* Between instructions the row buffer holds the last row loaded by lbuf plus,
\* column by column, every row summed since (zero after crowbuf), and word 3,
\* which no instruction addresses, is still zero.
ColumnSums ==
  state \in {"IDLE", "PIPE"} => /\ \A k \in 0 .. clonum : rowbuf[k] = cols[k]
                               /\ rowbuf[clonum + 1] = 0

\* The n-th store of an sbuf writes column n of the row buffer, on the half of
\* the bus the address selects.
StoresColumns ==
  state = "SBUF" /\ nice_icb_cmd_valid =>
    /\ jobs # <<>>
    /\ LET j == jobs[Len(jobs)]
       IN /\ nice_icb_cmd_wdata = cols[Len(j.words)]
          /\ maddr = (j.base + Len(j.words)) % AddrMod

\* nice_mem_holdup, which keeps the core's own loads and stores back, is high
\* as long as an access of the unit is on its way.
HoldupCoversAccess == memq # <<>> => nice_mem_holdup

\* rowbuf_wdat_mux and rowbuf_idx_mux OR the ports of lbuf and rowsum together:
\* they never write in the same cycle, nor while crowbuf can clear the buffer.
RowbufPortExclusive == rcv.vld => state = "ROWSUM"

\* Commands sent, answers received and accesses in flight add up for the burst
\* that is running, each unit is back at zero when it is not running, and the
\* lane FIFO has one entry per access in flight (so never a fifth).
BurstAccounting ==
  /\ state = "LBUF" => lbuf.cnt <= clonum /\ lbuf.cmd = lbuf.cnt + Len(memq)
  /\ state # "LBUF" => lbuf.cmd = 0
  /\ state = "SBUF" => sbuf.cnt <= clonum /\ sbuf.cmd = sbuf.cnt + Len(memq)
  /\ state # "SBUF" => sbuf.cmd = 0 /\ sbuf.cnt = 0
  /\ state = "ROWSUM" =>
       \/ rcv.idx < clonum /\ rowsum.cnt <= clonum /\ rowsum.cmd = rowsum.cnt + Len(memq)
       \/ rcv.idx = clonum /\ rowsum.cnt = 0 /\ rowsum.cmd = clonum + 1 /\ memq = <<>>
  /\ state # "ROWSUM" => rowsum.cmd = 0 /\ rowsum.cnt = 0 /\ rcv.idx = 0 /\ ~rcv.vld
  /\ state \in {"IDLE", "PIPE"} => memq = <<>>
  /\ Len(rsp_fifo) = Len(memq)

\* A memory instruction runs alone: while one runs or waits for its response to
\* be taken it has a job, no other multi-cycle request is on the channel, and a
\* held lbuf/sbuf response finds the state machine idle.
MemRunsAlone ==
  /\ nice_mem_holdup \/ lbuf.vld \/ sbuf.vld => \E n \in 1 .. Len(jobs) : IsMemJob(jobs[n])
  /\ req.op \in MultiCycOps => \A n \in 1 .. Len(jobs) : ~IsMemJob(jobs[n])
  /\ lbuf.vld \/ sbuf.vld => state = "IDLE"

\* The inductive invariant behind HoldupCoversAccess and RowbufPortExclusive.
BlockingInv == TypeOK /\ BurstAccounting /\ MemRunsAlone

\* Every multi-cycle instruction that was accepted gets its response.
EveryJobAnswered ==
  \A t \in 0 .. ITags - 1 :
    (jobs # <<>> /\ Head(jobs).tag = t) ~> (jobs = <<>> \/ Head(jobs).tag # t)

\* Every multi-cycle request that the core does not withdraw is accepted,
\* whatever the unit was doing when it was made.
EveryRequestTaken ==
  \A t \in 0 .. ITags - 1 :
    (req.op \in MultiCycOps /\ itag = t) ~> (itag # t \/ req = NoReq)

===============================================================================
