------------------------------- MODULE SramCtrl -------------------------------
(***************************************************************************)
(* A single-cycle RAM behind a one-entry response stage:                     *)
(* e603_dlm_icb2sram_noecc (design/soc/e603_subsys_dlm_icb2sram.v), whose two  *)
(* banks are selected by the access, and e603_1cyc_sram_ctrl, which is the     *)
(* same with one bank that every access selects.  The response carries no      *)
(* data of its own: read data is the output of the RAM (e603_sim_ram in       *)
(* e603_soc_misc.v), which is whatever its address register points at.       *)
(* ClockEdge is a rising edge of clk.                                       *)
(***************************************************************************)
EXTENDS Integers, Sequences

CONSTANTS Banks,    \* ram0 and ram1, or the one RAM
          DP,       \* words of a bank
          Span,     \* 2^AW, the addresses AW bits can name
          Values    \* contents of a word

ASSUME SramAssumption == /\ Banks # {}
                         /\ DP \in Nat \ {0} /\ Span \in Nat /\ Span >= DP

Addrs == 0 .. DP - 1

\* A command: what it reads or writes, and the banks its size and address select.
Cmds == [read : BOOLEAN, addr : Addrs, sel : SUBSET Banks \ {{}},
         wdata : [Banks -> Values]]
NoCmd == [read |-> TRUE, addr |-> 0, sel |-> {}, wdata |-> <<>>]

VARIABLES mem_r,     \* contents of each bank
          addr_r,    \* address register of each bank
          rsp,       \* u_e1_stage: <<>> or <<command>>
          want,      \* what the banks held when the waiting read was accepted (history)
          cmd        \* command on the channel, NoCmd for none

sramVars == <<mem_r, addr_r, rsp, want, cmd>>

SramInit ==
  /\ \E v \in Values : /\ mem_r = [b \in Banks |-> [a \in Addrs |-> v]]
                       /\ want = [b \in Banks |-> v]
  /\ addr_r = [b \in Banks |-> 0]
  /\ rsp = <<>>
  /\ cmd = NoCmd

(* --------------------------------- wires -------------------------------- *)

i_cmd_ready(rsp_ready) == rsp = <<>> \/ rsp_ready   \* pipe stage, CUT_READY = 0

cmd_ready(stall, rsp_ready) == ~stall /\ i_cmd_ready(rsp_ready)

\* A RAM is clocked and selected only by a command that is accepted.
ram_cs_on_valid(b, stall, rsp_ready) == cmd # NoCmd /\ b \in cmd.sel
ram_cs(b, stall, rsp_ready) ==
  cmd # NoCmd /\ b \in cmd.sel /\ cmd_ready(stall, rsp_ready)

rdata(b) == mem_r[b][addr_r[b]]

\* After a write the address register points elsewhere: at the inverted address,
\* folded back when it is beyond the last word.
Mirror(a) == IF Span - 1 - a >= DP THEN DP - 1 - a ELSE Span - 1 - a

(* -------------------------------- actions ------------------------------- *)

\* The master raises a command.
Issue ==
  /\ cmd = NoCmd
  /\ \E c \in Cmds : cmd' = c
  /\ UNCHANGED <<mem_r, addr_r, rsp, want>>

\* The clock edge.  stall: stall_uop_cmd; rsp_ready: the master takes a response.
ClockEdge(stall, rsp_ready) ==
  LET taken == cmd # NoCmd /\ cmd_ready(stall, rsp_ready)
      cs(b) == ram_cs(b, stall, rsp_ready)
  IN /\ mem_r' = [b \in Banks |->
           IF cs(b) /\ ~cmd.read THEN [mem_r[b] EXCEPT ![cmd.addr] = cmd.wdata[b]]
                                 ELSE mem_r[b]]
     /\ addr_r' = [b \in Banks |->
           IF ~cs(b) THEN addr_r[b]
           ELSE IF cmd.read THEN cmd.addr ELSE Mirror(cmd.addr)]
     /\ rsp' = IF taken THEN <<cmd>> ELSE IF rsp_ready THEN <<>> ELSE rsp
     /\ want' = IF taken /\ cmd.read
                THEN [b \in Banks |-> mem_r[b][cmd.addr]] ELSE want
     /\ cmd' = IF taken THEN NoCmd ELSE cmd

SramNext == Issue \/ \E stall, rsp_ready \in BOOLEAN : ClockEdge(stall, rsp_ready)

\* The clock runs, and neither a stall nor the refusal of a response lasts for ever.
SramSpec ==
  /\ SramInit /\ [][SramNext]_sramVars
  /\ WF_sramVars(ClockEdge(FALSE, TRUE))

(* ------------------------------ properties ------------------------------ *)

\* Read data survives a response that waits: the banks the read selected still
\* show what they held when it was accepted, although a later command may stand
\* on the channel and the data is not registered.
ReadDataHeld ==
  rsp # <<>> /\ rsp[1].read => \A b \in rsp[1].sel : rdata(b) = want[b]


===============================================================================
