------------------------------- MODULE CdcTxRx --------------------------------
(***************************************************************************)
(* One crossing of the asynchronous AXI bridge: e603_gnrl_cdc_tx_rx in       *)
(* design/soc/e603_subsys_axi2axi_async.v, which joins e603_gnrl_cdc_tx to   *)
(* e603_gnrl_cdc_rx (generic library in design/core/e603_core_wrapper.v; the  *)
(* sender stands at its line 154249, and again, with other wire names, as      *)
(* sdio_gnrl_cdc_tx at line 1501 of design/soc/nuclei_sdio_top.v).            *)
(* The bridge has five of them, one per AXI channel, that share nothing but   *)
(* the two clocks.                                                          *)
(*                                                                         *)
(* The sender raises vld and keeps the word in dat; the receiver sees vld     *)
(* through SYNC_DP flops, copies the word, raises i_rdy, which the sender    *)
(* sees through SYNC_DP flops, and both sides fall back in the same order.   *)
(* IClk and OClk are rising edges of the two clocks, in any order: a          *)
(* synchroniser's first flop that samples a changing input settles to the   *)
(* old or to the new value, which is the edge falling before or after the    *)
(* change.  The word itself is not synchronised: it must not move while it   *)
(* is copied (DataStable).                                                  *)
(***************************************************************************)
EXTENDS Integers, Sequences

CONSTANTS Words,     \* payloads
          NoWord,    \* the writer offers nothing, the reader sees nothing
          SYNC_DP    \* flops of a synchroniser

ASSUME CdcAssumption ==
  /\ NoWord \notin Words
  /\ SYNC_DP \in Nat \ {0}

VARIABLES vld_r, dat_r, nrdy_r,     \* sender: request, word, not ready
          o_rdy_s, o_rdy_sync_r,    \* sender: synchroniser of i_rdy, its last output
          i_vld_s, i_vld_sync_r,    \* receiver: synchroniser of vld, its last output
          i_rdy_r,                  \* receiver: acknowledge
          buf_vld_r, buf_dat_r,     \* receiver: word for the reader
          inflight                  \* words accepted and not taken (history)

txVars == <<vld_r, dat_r, nrdy_r, o_rdy_s, o_rdy_sync_r>>
rxVars == <<i_vld_s, i_vld_sync_r, i_rdy_r, buf_vld_r, buf_dat_r>>
cdcVars == <<txVars, rxVars, inflight>>

Stages == 1 .. SYNC_DP

CdcTypeOK ==
  /\ vld_r \in BOOLEAN /\ nrdy_r \in BOOLEAN /\ i_rdy_r \in BOOLEAN
  /\ dat_r \in Words \cup {NoWord} /\ buf_dat_r \in Words \cup {NoWord}
  /\ o_rdy_s \in [Stages -> BOOLEAN] /\ i_vld_s \in [Stages -> BOOLEAN]
  /\ o_rdy_sync_r \in BOOLEAN /\ i_vld_sync_r \in BOOLEAN
  /\ buf_vld_r \in BOOLEAN
  /\ inflight \in Seq(Words)

\* Both resets have been released; a word register resets to a value nobody reads.
CdcInit ==
  /\ vld_r = FALSE /\ dat_r = NoWord /\ nrdy_r = FALSE
  /\ o_rdy_s = [k \in Stages |-> FALSE] /\ o_rdy_sync_r = FALSE
  /\ i_vld_s = [k \in Stages |-> FALSE] /\ i_vld_sync_r = FALSE
  /\ i_rdy_r = FALSE /\ buf_vld_r = FALSE /\ buf_dat_r = NoWord
  /\ inflight = <<>>

\* e603_gnrl_sync: a shift register fed by the asynchronous input.
Shifted(chain, din) == [k \in Stages |-> IF k = 1 THEN din ELSE chain[k - 1]]

(* -------------------------------- sender -------------------------------- *)

o_rdy_nedge == ~o_rdy_s[SYNC_DP] /\ o_rdy_sync_r

\* Ready for the next word once the acknowledge has been seen to fall.
i_rdy_on_ack == ~nrdy_r \/ ~vld_r
i_rdy == ~nrdy_r \/ o_rdy_nedge

vld_clr == vld_r /\ o_rdy_s[SYNC_DP]

\* Rising edge of i_clk; w is what the writer offers, NoWord for nothing.
IClk(w) ==
  LET vld_set == w # NoWord /\ i_rdy
  IN /\ vld_r' = (vld_set \/ (vld_r /\ ~vld_clr))
     /\ dat_r' = IF vld_set THEN w ELSE dat_r
     /\ nrdy_r' = (vld_set \/ (nrdy_r /\ ~o_rdy_nedge))
     /\ o_rdy_s' = Shifted(o_rdy_s, i_rdy_r)
     /\ o_rdy_sync_r' = o_rdy_s[SYNC_DP]
     /\ inflight' = IF vld_set THEN Append(inflight, w) ELSE inflight
     /\ UNCHANGED rxVars

(* ------------------------------- receiver ------------------------------- *)

i_vld_sync_nedge_no_flop == ~i_vld_s[SYNC_DP] /\ i_vld_s[SYNC_DP]
i_vld_sync_nedge == ~i_vld_s[SYNC_DP] /\ i_vld_sync_r

\* The word is copied when the request is seen, the buffer is free and the word
\* has not been copied before (READY_THROUGH = 0).
i_rdy_set_again == ~buf_vld_r /\ i_vld_s[SYNC_DP]
i_rdy_set == ~buf_vld_r /\ i_vld_s[SYNC_DP] /\ ~i_rdy_r

\* Rising edge of o_clk; o_rdy says whether the reader takes what it is shown.
OClk(o_rdy) ==
  LET buf_vld_clr == buf_vld_r /\ o_rdy
  IN /\ i_vld_s' = Shifted(i_vld_s, vld_r)
     /\ i_vld_sync_r' = i_vld_s[SYNC_DP]
     /\ i_rdy_r' = (i_rdy_set \/ (i_rdy_r /\ ~i_vld_sync_nedge))
     /\ buf_dat_r' = IF i_rdy_set THEN dat_r ELSE buf_dat_r
     /\ buf_vld_r' = (i_rdy_set \/ (buf_vld_r /\ ~buf_vld_clr))
     /\ inflight' = IF buf_vld_clr THEN Tail(inflight) ELSE inflight
     /\ UNCHANGED txVars

CdcNext ==
  \/ \E w \in Words \cup {NoWord} : IClk(w)
  \/ \E o_rdy \in BOOLEAN : OClk(o_rdy)

CdcSpec == CdcInit /\ [][CdcNext]_cdcVars

\* Both clocks run; the writer is never obliged to write nor the reader to take.
CdcFairSpec ==
  /\ CdcSpec
  /\ WF_cdcVars(\E w \in Words \cup {NoWord} : IClk(w))
  /\ WF_cdcVars(\E o_rdy \in BOOLEAN : OClk(o_rdy))

(* ------------------------------ properties ------------------------------ *)

\* The word register cannot change while the receiver is about to copy it: the
\* two clocks may tick at the same instant and dat_r is not synchronised.
DataStable == i_rdy_set => nrdy_r /\ ~o_rdy_nedge

\* The words under way are exactly the one in the buffer and the one that waits
\* in the sender: nothing is copied twice or dropped between the two clocks.
Waiting == vld_r /\ ~i_rdy_r
WordsAccounted ==
  inflight = IF buf_vld_r
             THEN IF Waiting THEN <<buf_dat_r, dat_r>> ELSE <<buf_dat_r>>
             ELSE IF Waiting THEN <<dat_r>> ELSE <<>>

(* The four phases of the handshake.  A synchroniser in the middle of a change *)
(* has the new value up to some flop and the old one after it.                *)

AllFlops(s, b) == \A k \in Stages : s[k] = b
Rising(s) == \A j, k \in Stages : j <= k /\ s[k] => s[j]
Falling(s) == \A j, k \in Stages : j <= k /\ s[j] => s[k]

Idle ==
  /\ ~vld_r /\ ~nrdy_r /\ ~i_rdy_r /\ ~o_rdy_sync_r /\ ~i_vld_sync_r
  /\ AllFlops(o_rdy_s, FALSE) /\ AllFlops(i_vld_s, FALSE)
Asking ==
  /\ vld_r /\ nrdy_r /\ ~i_rdy_r /\ ~o_rdy_sync_r
  /\ AllFlops(o_rdy_s, FALSE)
  /\ Rising(i_vld_s) /\ (i_vld_sync_r => i_vld_s[SYNC_DP])
Acknowledged ==
  /\ vld_r /\ nrdy_r /\ i_rdy_r /\ ~o_rdy_sync_r /\ i_vld_sync_r
  /\ AllFlops(i_vld_s, TRUE) /\ Rising(o_rdy_s)
Withdrawn ==
  /\ ~vld_r /\ nrdy_r /\ i_rdy_r /\ o_rdy_sync_r /\ i_vld_sync_r
  /\ AllFlops(o_rdy_s, TRUE) /\ Falling(i_vld_s)
Draining ==
  /\ ~vld_r /\ nrdy_r /\ ~i_rdy_r /\ o_rdy_sync_r /\ ~i_vld_sync_r
  /\ AllFlops(i_vld_s, FALSE) /\ Falling(o_rdy_s)

\* The registers of the two clock domains, read together, are always in one of the
\* five phases, and the words in them are the words under way.  Inductive.
CdcInv ==
  /\ CdcTypeOK
  /\ vld_r => dat_r \in Words
  /\ buf_vld_r => buf_dat_r \in Words
  /\ WordsAccounted
  /\ Idle \/ Asking \/ Acknowledged \/ Withdrawn \/ Draining

\* The crossing implements the abstract channel (refinement mapping: the history
\* of accepted words is its queue, the receiver's buffer is what the reader sees).
Channel == INSTANCE AsyncChannel
             WITH Capacity <- 2,
                  q <- inflight,
                  shown <- IF buf_vld_r THEN buf_dat_r ELSE NoWord
ImplementsChannel == Channel!ChanSpec

\* The writer is not locked out: as long as the reader takes what it is shown the
\* four phases complete and the sender becomes ready again.
SenderRecovers == []<>~buf_vld_r => []<>i_rdy

===============================================================================
