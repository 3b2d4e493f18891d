------------------------------- MODULE HartBoot -------------------------------
(***************************************************************************)
(* Start-up of the harts and interrupt dispatch of the SDK                   *)
(* (nuclei-sdk/SoC/evalsoc/Common/Source/system_evalsoc.c, started by          *)
(* GCC/startup_evalsoc.S or IAR/startup_evalsoc.c).  The boot hart loads the   *)
(* data sections, releases the others through their MSIP bits, sets up the      *)
(* tables and enters main, where it registers an interrupt handler; the others *)
(* initialise their own interrupt mode and wait.  Every access to memory that   *)
(* another hart reads or writes is a step of its own.                         *)
(*                                                                         *)
(* Two interrupt modes: with Plic the handlers are in tables in memory that    *)
(* Interrupt_Init of every hart fills; without it (ECLIC) they are in the       *)
(* vector table, and Interrupt_Init writes only the hart's own CSRs.           *)
(***************************************************************************)
EXTENDS Integers, FiniteSets

CONSTANTS Harts,      \* the hart ids there may be
          Boot,       \* BOOT_HARTID
          Sources,    \* external interrupts
          Builds,     \* builds of the SDK: [harts, plic], the harts present and the mode
          Punctual    \* TRUE: the others are in __sync_harts before the boot hart

ASSUME BootAssumption ==
  /\ \A b \in Builds : Boot \in b.harts /\ b.harts \subseteq Harts /\ b.plic \in BOOLEAN
  /\ Punctual \in BOOLEAN

VARIABLES build,      \* the build that runs (never changes)
          pc,         \* where each hart is
          msip,       \* CLINT_MSIP of each hart
          todo,       \* MSIP bits the boot hart has not cleared yet
          base,       \* CpuIRegionBase: "junk", "unset" (0xFFFFFFFF) or "set"
          exc,        \* SystemExceptionHandlers (all entries alike)
          entry,      \* system_core_interrupt_handler
          core,       \* SystemCoreInterruptHandlers of the external interrupt
          table,      \* handler of each source: SystemMExtInterruptHandlers or vector_base
          enabled,    \* sources the boot hart has enabled
          pending,    \* sources that request service
          served      \* last interrupt taken: its source and who handled it (history)

bootVars == <<build, pc, msip, todo, base, exc, entry, core, table, enabled, pending, served>>

Present == build.harts    \* 0 .. SMP_CPU_CNT - 1
Plic == build.plic

NoIrq == [src |-> "none", by |-> "nobody"]

\* Reset: memory holds anything (SRAM), the MSIP registers are clear.
BootInit ==
  /\ build \in Builds
  /\ pc = [h \in Harts |-> "start"]
  /\ msip = [h \in Harts |-> 0] /\ todo = build.harts
  /\ base = "junk" /\ exc = "junk" /\ entry = "junk" /\ core = "junk"
  /\ table = [s \in Sources |-> "junk"]
  /\ enabled = {} /\ pending = {} /\ served = NoIrq

Goto(h, l) == pc' = [pc EXCEPT ![h] = l]

(* ------------------------- _start and __sync_harts ----------------------- *)

\* _start: the boot hart falls through to __init_common, the others skip it.
Start_in_sync(h) ==
  /\ pc[h] = "start" /\ h \in Present
  /\ Goto(h, IF h = Boot THEN "clear" ELSE "ask")
  /\ UNCHANGED <<msip, todo, base, exc, entry, core, table, enabled, pending, served>>
Start(h) ==
  /\ pc[h] = "start" /\ h \in Present
  /\ Goto(h, IF h = Boot THEN "load" ELSE "ask")
  /\ UNCHANGED <<msip, todo, base, exc, entry, core, table, enabled, pending, served>>

\* Copy .data and clear .bss: CpuIRegionBase starts at 0xFFFFFFFF, the handler
\* tables are empty, the vector table has its default entries.
LoadSections ==
  /\ pc[Boot] = "load"
  /\ base' = "unset" /\ exc' = "null" /\ entry' = "null" /\ core' = "null"
  /\ table' = [s \in Sources |-> IF Plic THEN "null" ELSE "default"]
  /\ Goto(Boot, "libc")
  /\ UNCHANGED <<msip, todo, enabled, pending, served>>

\* SystemInit and __libc_init_array touch none of this.
LibcInit ==
  /\ pc[Boot] = "libc"
  /\ Goto(Boot, "clear")
  /\ UNCHANGED <<msip, todo, base, exc, entry, core, table, enabled, pending, served>>

ClearMsip(i) ==
  /\ pc[Boot] = "clear"
  /\ Punctual => \A h \in Present \ {Boot} : pc[h] \notin {"start", "ask"}
  /\ i \in todo /\ \A j \in todo : i <= j
  /\ msip' = [msip EXCEPT ![i] = 0]
  /\ todo' = todo \ {i}
  /\ IF todo' = {} THEN Goto(Boot, "base") ELSE UNCHANGED pc
  /\ UNCHANGED <<base, exc, entry, core, table, enabled, pending, served>>

\* __sync_harts, any other hart: raise the own bit and wait for it to be cleared.
AskRelease(h) ==
  /\ pc[h] = "ask"
  /\ msip' = [msip EXCEPT ![h] = 1]
  /\ Goto(h, "wait")
  /\ UNCHANGED <<todo, base, exc, entry, core, table, enabled, pending, served>>

Released(h) ==
  /\ pc[h] = "wait" /\ msip[h] = 0
  /\ Goto(h, "base")
  /\ UNCHANGED <<msip, todo, base, exc, entry, core, table, enabled, pending, served>>

(* ------------------------------ _premain_init ---------------------------- *)

\* The boot hart publishes the region's base; the others wait until it is there.
IRegionBase(h) ==
  /\ pc[h] = "base"
  /\ IF h = Boot THEN base' = "set" /\ Goto(h, "tables")
                 ELSE base # "unset" /\ UNCHANGED base /\ Goto(h, "clint")
  /\ UNCHANGED <<msip, todo, exc, entry, core, table, enabled, pending, served>>

\* Exception_Init, boot hart only.
ExceptionInit ==
  /\ pc[Boot] = "tables"
  /\ exc' = "default"
  /\ Goto(Boot, "clint")
  /\ UNCHANGED <<msip, todo, base, entry, core, table, enabled, pending, served>>

\* Interrupt_Init of every hart, as far as it goes in ECLIC mode: CSRs only.
ECLIC_Interrupt_Init(h) ==
  /\ ~Plic /\ pc[h] = "clint"
  /\ Goto(h, "main")
  /\ UNCHANGED <<msip, todo, base, exc, entry, core, table, enabled, pending, served>>

\* CLINT_Interrupt_Init, the first half of PLIC_Interrupt_Init: the common entry,
\* then the table of core interrupts.
CLINT_Interrupt_Init(h) ==
  /\ Plic
  /\ \/ pc[h] = "clint" /\ entry' = "default" /\ Goto(h, "core") /\ UNCHANGED core
     \/ pc[h] = "core" /\ core' = "default" /\ Goto(h, "ext") /\ UNCHANGED entry
  /\ UNCHANGED <<msip, todo, base, exc, table, enabled, pending, served>>

\* Second half of PLIC_Interrupt_Init: default handlers for the sources, then the
\* dispatcher of external interrupts.
PLIC_Interrupt_Init(h) ==
  /\ \/ /\ pc[h] = "ext" /\ Goto(h, "extirq")
        /\ table' = [s \in Sources |-> "default"] /\ UNCHANGED core
     \/ pc[h] = "extirq" /\ core' = "extirq" /\ Goto(h, "main") /\ UNCHANGED table
  /\ UNCHANGED <<msip, todo, base, exc, entry, enabled, pending, served>>

(* ---------------------- main: registration and interrupts ---------------- *)

\* PLIC_Register_IRQ / ECLIC_Register_IRQ: priority (and trigger, level), then the
\* handler, then the enable bit.  The other harts wait in smp_main.
Register_IRQ_enable_first(s) ==
  /\ \/ /\ pc[Boot] = "main" /\ s \notin enabled /\ Goto(Boot, "enable")
        /\ enabled' = enabled \cup {s} /\ UNCHANGED table
     \/ /\ pc[Boot] = "enable" /\ s \in enabled /\ table[s] # "user" /\ Goto(Boot, "run")
        /\ table' = [table EXCEPT ![s] = "user"] /\ UNCHANGED enabled
  /\ UNCHANGED <<msip, todo, base, exc, entry, core, pending, served>>
Register_IRQ(s) ==
  /\ \/ /\ pc[Boot] = "main" /\ s \notin enabled /\ Goto(Boot, "enable")
        /\ table' = [table EXCEPT ![s] = "user"] /\ UNCHANGED enabled
     \/ /\ pc[Boot] = "enable" /\ table[s] = "user" /\ s \notin enabled /\ Goto(Boot, "run")
        /\ enabled' = enabled \cup {s} /\ UNCHANGED table
  /\ UNCHANGED <<msip, todo, base, exc, entry, core, pending, served>>

\* Back in main for the next registration.
MainLoop ==
  /\ pc[Boot] = "run" /\ enabled # Sources
  /\ Goto(Boot, "main")
  /\ UNCHANGED <<msip, todo, base, exc, entry, core, table, enabled, pending, served>>

Raise(s) ==
  /\ s \notin pending
  /\ pending' = pending \cup {s}
  /\ UNCHANGED <<pc, msip, todo, base, exc, entry, core, table, enabled, served>>

\* An interrupt is taken in main once it is enabled.  core_exception_handler,
\* core_interrupt_handler and system_mmode_extirq_handler look the handler up and
\* call it; a missing entry on the way is skipped.
Handler(s) ==
  IF ~Plic THEN table[s]
  ELSE IF entry = "null" \/ core = "null" THEN "nobody"
  ELSE IF core = "extirq" THEN table[s] ELSE core

TakeIrq(s) ==
  /\ pc[Boot] \in {"main", "run", "enable"}
  /\ s \in pending \cap enabled
  /\ served' = [src |-> s, by |-> Handler(s)]
  /\ pending' = pending \ {s}
  /\ UNCHANGED <<pc, msip, todo, base, exc, entry, core, table, enabled>>

BootNext ==
  /\ \/ LoadSections \/ LibcInit \/ ExceptionInit \/ MainLoop
     \/ \E h \in Harts : \/ Start(h) \/ AskRelease(h) \/ Released(h) \/ IRegionBase(h)
                         \/ ECLIC_Interrupt_Init(h) \/ CLINT_Interrupt_Init(h)
                         \/ PLIC_Interrupt_Init(h) \/ ClearMsip(h)
     \/ \E s \in Sources : Register_IRQ(s) \/ Raise(s) \/ TakeIrq(s)
  /\ UNCHANGED build

BootSpec == BootInit /\ [][BootNext]_bootVars

\* Every hart keeps executing: a step of the start-up code that can be taken is
\* taken.  (Interrupts and registrations may or may not come.)
BootFairSpec ==
  /\ BootSpec
  /\ WF_bootVars(/\ LoadSections \/ LibcInit \/ ExceptionInit \/ \E i \in Harts : ClearMsip(i)
                 /\ UNCHANGED build)
  /\ \A h \in Harts :
       WF_bootVars(/\ \/ Start(h) \/ AskRelease(h) \/ Released(h) \/ IRegionBase(h)
                      \/ ECLIC_Interrupt_Init(h) \/ CLINT_Interrupt_Init(h)
                      \/ PLIC_Interrupt_Init(h)
                   /\ UNCHANGED build)

(* ------------------------------ properties ------------------------------ *)

InMain(h) == pc[h] \in {"main", "enable", "run"}

\* No hart runs C code on uninitialised memory: a hart that has passed the
\* synchronisation finds the data sections loaded, and in main the region's base.
SectionsReady ==
  \A h \in Harts \ {Boot} :
    /\ pc[h] \notin {"start", "ask", "wait"} => base # "junk" /\ entry # "junk"
    /\ InMain(h) => base = "set"

\* An interrupt that a hart has registered a handler for and enabled is served by
\* that handler.
ServedByRegistered == served # NoIrq => served.by = "user"


===============================================================================
