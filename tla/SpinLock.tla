------------------------------- MODULE SpinLock -------------------------------
(***************************************************************************)
(* vPortRecursiveLock of the FreeRTOS port (OS/FreeRTOS/Source/portable/port.c): *)
(* the recursive spin locks of the multi-core kernel, one statement that reads or  *)
(* writes shared memory per step.  A core executes one call at a time: the callers *)
(* mask the interrupts that use the locks.  Memory is sequentially consistent.    *)
(***************************************************************************)
EXTENDS Integers, FiniteSets, TLC

CONSTANTS Cores, Locks,
          MaxDepth      \* bound: how often a core takes a lock it has

ASSUME SpinLockAssumption == MaxDepth \in Nat /\ 0 < MaxDepth /\ MaxDepth <= 255

VARIABLES lock,     \* *pxSpinLock of each lock
          rec,      \* ucRecursionCountByLock
          owned,    \* ucOwnedByCore: the pairs <<core, lock>> whose bit is set
          pc, arg,  \* where each core is in vPortRecursiveLock, and its ulLockNum
          depth     \* the calls to take a lock that returned, less those to give it

lockVars == <<lock, rec, owned, pc, arg, depth>>

Taking == {"look", "spin", "swap", "rec", "own"}
Giving == {"dec", "drop", "clear"}

SpinTypeOK ==
  /\ lock \in [Locks -> {0, 1}] /\ rec \in [Locks -> 0 .. 255]
  /\ owned \subseteq Cores \X Locks
  /\ pc \in [Cores -> Taking \cup Giving \cup {"out"}] /\ arg \in [Cores -> Locks]
  /\ depth \in [Cores \X Locks -> 0 .. MaxDepth]

SpinInit ==
  /\ lock = [l \in Locks |-> 0] /\ rec = [l \in Locks |-> 0] /\ owned = {}
  /\ pc = [c \in Cores |-> "out"] /\ arg \in [Cores -> Locks]
  /\ depth = [x \in Cores \X Locks |-> 0]

Goto(c, next) == pc' = [pc EXCEPT ![c] = next]

(* ------------------------------- uxAcquire ------------------------------- *)

CallAcquire(c, l) ==
  /\ pc[c] = "out" /\ depth[<<c, l>>] < MaxDepth
  /\ Goto(c, "look") /\ arg' = [arg EXCEPT ![c] = l]
  /\ UNCHANGED <<lock, rec, owned, depth>>

\* The lock is taken, by this core: count, and return.
Recurse(c) ==
  LET l == arg[c]
  IN /\ pc[c] = "look" /\ lock[l] # 0 /\ <<c, l>> \in owned
     /\ rec' = [rec EXCEPT ![l] = (rec[l] + 1) % 256]
     /\ depth' = [depth EXCEPT ![<<c, l>>] = depth[<<c, l>>] + 1]
     /\ Goto(c, "out")
     /\ UNCHANGED <<lock, owned, arg>>

\* Taken by another core: spin until it looks free; else go and swap.
LooksTaken(c) ==
  /\ pc[c] = "look" /\ lock[arg[c]] # 0 /\ <<c, arg[c]>> \notin owned
  /\ Goto(c, "spin")
  /\ UNCHANGED <<lock, rec, owned, arg, depth>>

LooksFree(c) ==
  /\ pc[c] \in {"look", "spin"} /\ lock[arg[c]] = 0
  /\ Goto(c, "swap")
  /\ UNCHANGED <<lock, rec, owned, arg, depth>>

\* __AMOSWAP_W that found 0; one that found 1 changes nothing and is tried again.
Swap_blindly(c) ==
  /\ pc[c] = "swap"
  /\ lock' = [lock EXCEPT ![arg[c]] = 1]
  /\ Goto(c, "rec")
  /\ UNCHANGED <<rec, owned, arg, depth>>
Swap(c) ==
  /\ pc[c] = "swap" /\ lock[arg[c]] = 0
  /\ lock' = [lock EXCEPT ![arg[c]] = 1]
  /\ Goto(c, "rec")
  /\ UNCHANGED <<rec, owned, arg, depth>>

SetRecursion(c) ==
  /\ pc[c] = "rec"
  /\ rec' = [rec EXCEPT ![arg[c]] = 1]
  /\ Goto(c, "own")
  /\ UNCHANGED <<lock, owned, arg, depth>>

SetOwner(c) ==
  /\ pc[c] = "own"
  /\ owned' = owned \cup {<<c, arg[c]>>}
  /\ depth' = [depth EXCEPT ![<<c, arg[c]>>] = depth[<<c, arg[c]>>] + 1]
  /\ Goto(c, "out")
  /\ UNCHANGED <<lock, rec, arg>>

(* -------------------------------- release -------------------------------- *)

CallRelease(c, l) ==
  /\ pc[c] = "out" /\ depth[<<c, l>>] > 0
  /\ Goto(c, "dec") /\ arg' = [arg EXCEPT ![c] = l]
  /\ UNCHANGED <<lock, rec, owned, depth>>

Decrement(c) ==
  LET l == arg[c]
  IN /\ pc[c] = "dec"
     /\ rec' = [rec EXCEPT ![l] = (rec[l] - 1) % 256]
     /\ IF rec[l] = 1 THEN Goto(c, "drop") /\ UNCHANGED depth
        ELSE Goto(c, "out") /\ depth' = [depth EXCEPT ![<<c, l>>] = depth[<<c, l>>] - 1]
     /\ UNCHANGED <<lock, owned, arg>>

DropOwner_forgotten(c) ==
  /\ pc[c] = "drop" /\ Goto(c, "clear")
  /\ UNCHANGED <<lock, rec, owned, arg, depth>>
DropOwner(c) ==
  /\ pc[c] = "drop"
  /\ owned' = owned \ {<<c, arg[c]>>}
  /\ Goto(c, "clear")
  /\ UNCHANGED <<lock, rec, arg, depth>>

Clear(c) ==
  /\ pc[c] = "clear"
  /\ lock' = [lock EXCEPT ![arg[c]] = 0]
  /\ depth' = [depth EXCEPT ![<<c, arg[c]>>] = depth[<<c, arg[c]>>] - 1]
  /\ Goto(c, "out")
  /\ UNCHANGED <<rec, owned, arg>>

\* The steps inside vPortRecursiveLock.
LockStep(c) ==
  \/ Recurse(c) \/ LooksTaken(c) \/ LooksFree(c) \/ Swap(c) \/ SetRecursion(c) \/ SetOwner(c)
  \/ Decrement(c) \/ DropOwner(c) \/ Clear(c)

SpinNext ==
  \E c \in Cores : LockStep(c) \/ \E l \in Locks : CallAcquire(c, l) \/ CallRelease(c, l)

SpinSpec == SpinInit /\ [][SpinNext]_lockVars

(* ------------------------------ properties ------------------------------ *)

\* Between the return of a call that takes a lock and the call that gives it back for
\* the last time no other core gets the lock (vPortRecursiveLock).
MutualExclusion ==
  \A c, e \in Cores, l \in Locks : depth[<<c, l>>] > 0 /\ depth[<<e, l>>] > 0 => c = e

\* The assertions of vPortRecursiveLock hold wherever they are evaluated.
AssertsHold ==
  \A c \in Cores : LET l == arg[c] IN
    /\ pc[c] = "look" /\ lock[l] # 0 /\ <<c, l>> \in owned => rec[l] # 255
    /\ pc[c] = "rec" => rec[l] = 0
    /\ pc[c] = "dec" => <<c, l>> \in owned /\ rec[l] # 0

(* The inductive invariant behind both. *)

Has(c, l) == depth[<<c, l>>] > 0 \/ (pc[c] \in {"rec", "own"} /\ arg[c] = l)
InCall(c, l, where) == pc[c] \in where /\ arg[c] = l

OneHas == \A c, e \in Cores, l \in Locks : Has(c, l) /\ Has(e, l) => c = e
HasLocks == \A c \in Cores, l \in Locks : Has(c, l) => lock[l] = 1
OwnedIffHas ==
  \A c \in Cores, l \in Locks :
    <<c, l>> \in owned <=> depth[<<c, l>>] > 0 /\ ~InCall(c, l, {"clear"})
RecursionCount(c, l) ==
  /\ lock[l] = 0 => rec[l] = 0
  /\ InCall(c, l, {"rec"}) => rec[l] = 0 /\ depth[<<c, l>>] = 0
  /\ InCall(c, l, {"own"}) => rec[l] = 1 /\ depth[<<c, l>>] = 0
  /\ InCall(c, l, {"dec"}) => depth[<<c, l>>] > 0
  /\ InCall(c, l, {"drop", "clear"}) => rec[l] = 0 /\ depth[<<c, l>>] = 1
  /\ InCall(c, l, {"look"}) => depth[<<c, l>>] < MaxDepth
  /\ depth[<<c, l>>] > 0 /\ ~InCall(c, l, {"drop", "clear"}) => rec[l] = depth[<<c, l>>]
RecursionCounts == \A c \in Cores, l \in Locks : RecursionCount(c, l)

SpinInv == SpinTypeOK /\ OneHas /\ HasLocks /\ OwnedIffHas /\ RecursionCounts

===============================================================================
