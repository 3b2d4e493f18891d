-------------------------------- MODULE SmpProofs --------------------------------
(***************************************************************************)
(* Proofs about SpinLock and SmpCritical, for any number of cores, any nesting and   *)
(* depth up to 255.  First the spin locks: the invariant SpinInv, and from it mutual  *)
(* exclusion and the assertions of vPortRecursiveLock.  The kernel uses the locks as  *)
(* SpinLock allows, so both hold in it.  The rest is the invariant SmpInv, which     *)
(* says at every step of every function what the core has: interrupt threshold,       *)
(* nesting count, locks.  From it follow CriticalAlone, SuspendedAlone,             *)
(* SwitchAsserts and NoCircularWait.                                            *)
(***************************************************************************)
EXTENDS SmpCritical, SequenceTheorems, TLAPS

(* ------------------------------ the spin locks ------------------------------ *)

\* SpinInv holds initially (all statics of vPortRecursiveLock are zero).
LEMMA SpinInvInit == SpinInit => SpinInv
<1> SUFFICES ASSUME SpinInit PROVE SpinInv
  OBVIOUS
<1> USE SpinLockAssumption DEF SpinInit, Has, InCall, Taking, Giving
<1>1. SpinTypeOK BY DEF SpinTypeOK
<1>2. \A c \in Cores, l \in Locks : ~Has(c, l) /\ depth[<<c, l>>] = 0 OBVIOUS
<1>3. OneHas /\ HasLocks BY <1>2 DEF OneHas, HasLocks
<1>4. OwnedIffHas BY <1>2 DEF OwnedIffHas
<1>5. RecursionCounts BY <1>2 DEF RecursionCounts, RecursionCount
<1> QED BY <1>1, <1>3, <1>4, <1>5 DEF SpinInv

\* The recursion count does not wrap within its bounds.
LEMMA CountUp == \A n \in 0 .. 254 : (n + 1) % 256 = n + 1
  OBVIOUS

\* Nor does it below one.
LEMMA CountDown == \A n \in 1 .. 255 : (n - 1) % 256 = n - 1
  OBVIOUS

\* The steps that only move the program counter, between places where the core does
\* not have the lock of its call.
LEMMA LookKeeps ==
  ASSUME SpinInv, NEW c \in Cores, LooksTaken(c) \/ LooksFree(c)
  PROVE SpinInv'
<1> USE SpinLockAssumption DEF Goto, Has, InCall, Taking, Giving, LooksTaken, LooksFree
<1>1. SpinTypeOK' BY DEF SpinInv, SpinTypeOK
<1>2. OneHas' BY DEF SpinInv, SpinTypeOK, OneHas
<1>3. HasLocks' BY DEF SpinInv, SpinTypeOK, HasLocks
<1>4. OwnedIffHas' BY DEF SpinInv, SpinTypeOK, OwnedIffHas
<1>5. RecursionCounts'
  <2> SUFFICES ASSUME NEW d \in Cores, NEW m \in Locks PROVE RecursionCount(d, m)'
    BY DEF RecursionCounts
  <2>1. RecursionCount(d, m) /\ RecursionCount(c, m) /\ RecursionCount(c, arg[c])
    BY DEF SpinInv, SpinTypeOK, RecursionCounts
  <2>2. (Has(c, m) /\ Has(d, m) => c = d) /\ (Has(c, m) \/ Has(d, m) => lock[m] = 1)
    BY DEF SpinInv, OneHas, HasLocks
  <2>3. CASE d = c
    BY <2>1, <2>2, <2>3 DEF SpinInv, SpinTypeOK, RecursionCount
  <2>4. CASE d # c
    BY <2>1, <2>2, <2>4 DEF SpinInv, SpinTypeOK, RecursionCount
  <2> QED BY <2>3, <2>4
<1> QED BY <1>1, <1>2, <1>3, <1>4, <1>5 DEF SpinInv

\* The calls.
LEMMA CallKeeps ==
  ASSUME SpinInv, NEW c \in Cores, NEW l \in Locks, CallAcquire(c, l) \/ CallRelease(c, l)
  PROVE SpinInv'
<1> USE SpinLockAssumption DEF Goto, Has, InCall, Taking, Giving, CallAcquire, CallRelease
<1>1. SpinTypeOK' BY DEF SpinInv, SpinTypeOK
<1>2. OneHas'
  <2>1. ASSUME NEW d \in Cores, NEW m \in Locks, Has(d, m)' PROVE Has(d, m) BY <2>1 DEF SpinInv, SpinTypeOK
  <2> QED BY <2>1 DEF SpinInv, OneHas
<1>3. HasLocks' BY DEF SpinInv, SpinTypeOK, HasLocks
<1>4. OwnedIffHas'
  <2>1. owned' = owned /\ depth' = depth OBVIOUS
  <2>2. ASSUME NEW d \in Cores, NEW m \in Locks PROVE InCall(d, m, {"clear"})' <=> InCall(d, m, {"clear"})
    BY DEF SpinInv, SpinTypeOK
  <2> QED BY <2>1, <2>2 DEF SpinInv, OwnedIffHas
<1>5. RecursionCounts'
  <2> SUFFICES ASSUME NEW d \in Cores, NEW m \in Locks PROVE RecursionCount(d, m)'
    BY DEF RecursionCounts
  <2>1. RecursionCount(d, m) /\ RecursionCount(c, m) /\ RecursionCount(c, arg[c])
    BY DEF SpinInv, SpinTypeOK, RecursionCounts
  <2>2. (Has(c, m) /\ Has(d, m) => c = d) /\ (Has(c, m) \/ Has(d, m) => lock[m] = 1)
    BY DEF SpinInv, OneHas, HasLocks
  <2>3. CASE d = c
    BY <2>1, <2>2, <2>3 DEF SpinInv, SpinTypeOK, RecursionCount
  <2>4. CASE d # c
    BY <2>1, <2>2, <2>4 DEF SpinInv, SpinTypeOK, RecursionCount
  <2> QED BY <2>3, <2>4
<1> QED BY <1>1, <1>2, <1>3, <1>4, <1>5 DEF SpinInv

\* The swap that wins: the lock was free, so nobody had it.
LEMMA SwapKeeps ==
  ASSUME SpinInv, NEW c \in Cores, Swap(c)
  PROVE SpinInv'
<1> USE SpinLockAssumption DEF Goto, Has, InCall, Taking, Giving, Swap
<1>1. SpinTypeOK' BY DEF SpinInv, SpinTypeOK
<1>2. \A e \in Cores : ~Has(e, arg[c])
  BY DEF SpinInv, SpinTypeOK, HasLocks
<1>3. OneHas' BY <1>2 DEF SpinInv, SpinTypeOK, OneHas
<1>4. HasLocks' BY DEF SpinInv, SpinTypeOK, HasLocks
<1>5. OwnedIffHas' BY DEF SpinInv, SpinTypeOK, OwnedIffHas
<1>6. RecursionCounts'
  <2> SUFFICES ASSUME NEW d \in Cores, NEW m \in Locks PROVE RecursionCount(d, m)'
    BY DEF RecursionCounts
  <2>1. RecursionCount(d, m) /\ RecursionCount(c, m) /\ RecursionCount(c, arg[c])
    BY DEF SpinInv, SpinTypeOK, RecursionCounts
  <2>2. (Has(c, m) /\ Has(d, m) => c = d) /\ (Has(c, m) \/ Has(d, m) => lock[m] = 1)
    BY DEF SpinInv, OneHas, HasLocks
  <2>3. CASE d = c
    BY <1>2, <2>1, <2>2, <2>3 DEF SpinInv, SpinTypeOK, RecursionCount
  <2>4. CASE d # c
    BY <1>2, <2>1, <2>2, <2>4 DEF SpinInv, SpinTypeOK, RecursionCount
  <2> QED BY <2>3, <2>4
<1> QED BY <1>1, <1>3, <1>4, <1>5, <1>6 DEF SpinInv

\* The first count after the swap.
LEMMA SetRecursionKeeps ==
  ASSUME SpinInv, NEW c \in Cores, SetRecursion(c)
  PROVE SpinInv'
<1> USE SpinLockAssumption DEF Goto, Has, InCall, Taking, Giving, SetRecursion
<1>1. SpinTypeOK' BY DEF SpinInv, SpinTypeOK
<1>2. OneHas' BY DEF SpinInv, SpinTypeOK, OneHas
<1>3. HasLocks' BY DEF SpinInv, SpinTypeOK, HasLocks
<1>4. OwnedIffHas' BY DEF SpinInv, SpinTypeOK, OwnedIffHas
<1>5. RecursionCounts'
  <2> SUFFICES ASSUME NEW d \in Cores, NEW m \in Locks PROVE RecursionCount(d, m)'
    BY DEF RecursionCounts
  <2>1. RecursionCount(d, m) /\ RecursionCount(c, m) /\ RecursionCount(c, arg[c])
    BY DEF SpinInv, SpinTypeOK, RecursionCounts
  <2>2. (Has(c, m) /\ Has(d, m) => c = d) /\ (Has(c, m) \/ Has(d, m) => lock[m] = 1)
    BY DEF SpinInv, OneHas, HasLocks
  <2>3. CASE d = c
    BY <2>1, <2>2, <2>3 DEF SpinInv, SpinTypeOK, RecursionCount
  <2>4. CASE d # c
    BY <2>1, <2>2, <2>4 DEF SpinInv, SpinTypeOK, RecursionCount
  <2> QED BY <2>3, <2>4
<1> QED BY <1>1, <1>2, <1>3, <1>4, <1>5 DEF SpinInv

\* The owner's bit, with which the call returns.
LEMMA SetOwnerKeeps ==
  ASSUME SpinInv, NEW c \in Cores, SetOwner(c)
  PROVE SpinInv'
<1> USE SpinLockAssumption DEF Goto, Has, InCall, Taking, Giving, SetOwner
<1>0. arg[c] \in Locks /\ depth[<<c, arg[c]>>] = 0 /\ rec[arg[c]] = 1
  BY DEF SpinInv, SpinTypeOK, RecursionCounts, RecursionCount
<1>1. SpinTypeOK' BY <1>0 DEF SpinInv, SpinTypeOK
<1>2. OneHas' BY <1>0 DEF SpinInv, SpinTypeOK, OneHas
<1>3. HasLocks' BY <1>0 DEF SpinInv, SpinTypeOK, HasLocks
<1>4. OwnedIffHas'
  <2> SUFFICES ASSUME NEW d \in Cores, NEW m \in Locks
               PROVE (<<d, m>> \in owned <=> depth[<<d, m>>] > 0 /\ ~InCall(d, m, {"clear"}))'
    BY DEF OwnedIffHas
  <2>1. <<d, m>> \in owned <=> depth[<<d, m>>] > 0 /\ ~InCall(d, m, {"clear"})
    BY DEF SpinInv, OwnedIffHas
  <2>2. CASE d = c /\ m = arg[c] BY <1>0, <2>1, <2>2 DEF SpinInv, SpinTypeOK
  <2>3. CASE ~(d = c /\ m = arg[c]) BY <1>0, <2>1, <2>3 DEF SpinInv, SpinTypeOK
  <2> QED BY <2>2, <2>3
<1>5. RecursionCounts'
  <2> SUFFICES ASSUME NEW d \in Cores, NEW m \in Locks PROVE RecursionCount(d, m)'
    BY DEF RecursionCounts
  <2>1. RecursionCount(d, m) /\ RecursionCount(c, m) /\ RecursionCount(c, arg[c])
    BY DEF SpinInv, SpinTypeOK, RecursionCounts
  <2>2. (Has(c, m) /\ Has(d, m) => c = d) /\ (Has(c, m) \/ Has(d, m) => lock[m] = 1)
    BY DEF SpinInv, OneHas, HasLocks
  <2>3. CASE d = c
    BY <1>0, <2>1, <2>2, <2>3 DEF SpinInv, SpinTypeOK, RecursionCount
  <2>4. CASE d # c
    BY <1>0, <2>1, <2>2, <2>4 DEF SpinInv, SpinTypeOK, RecursionCount
  <2> QED BY <2>3, <2>4
<1> QED BY <1>1, <1>2, <1>3, <1>4, <1>5 DEF SpinInv

\* Taking again a lock the core has.
LEMMA RecurseKeeps ==
  ASSUME SpinInv, NEW c \in Cores, Recurse(c)
  PROVE SpinInv'
<1> USE SpinLockAssumption DEF Goto, Has, InCall, Taking, Giving, Recurse
<1>a. /\ arg[c] \in Locks /\ depth[<<c, arg[c]>>] \in 1 .. MaxDepth - 1
      /\ rec[arg[c]] = depth[<<c, arg[c]>>]
  BY DEF SpinInv, SpinTypeOK, RecursionCounts, RecursionCount, OwnedIffHas
<1>b. (rec[arg[c]] + 1) % 256 = rec[arg[c]] + 1
  BY <1>a, CountUp
<1>0. /\ arg[c] \in Locks /\ depth[<<c, arg[c]>>] \in 1 .. MaxDepth - 1
      /\ rec[arg[c]] = depth[<<c, arg[c]>>] /\ rec' = [rec EXCEPT ![arg[c]] = rec[arg[c]] + 1]
      /\ depth' = [depth EXCEPT ![<<c, arg[c]>>] = depth[<<c, arg[c]>>] + 1]
      /\ pc[c] = "look" /\ pc' = [pc EXCEPT ![c] = "out"] /\ UNCHANGED <<lock, owned, arg>>
  BY <1>a, <1>b
<1> HIDE DEF Recurse
<1>1. SpinTypeOK'
  <2>0. rec[arg[c]] + 1 \in 0 .. 255 BY <1>0
  <2>1. rec' \in [Locks -> 0 .. 255] BY <1>0, <2>0 DEF SpinInv, SpinTypeOK
  <2>2. depth' \in [Cores \X Locks -> 0 .. MaxDepth] BY <1>0 DEF SpinInv, SpinTypeOK
  <2>3. pc' \in [Cores -> Taking \cup Giving \cup {"out"}] BY <1>0 DEF SpinInv, SpinTypeOK
  <2> QED BY <1>0, <2>1, <2>2, <2>3 DEF SpinInv, SpinTypeOK
<1>2. OneHas' BY <1>0 DEF SpinInv, SpinTypeOK, OneHas
<1>3. HasLocks' BY <1>0 DEF SpinInv, SpinTypeOK, HasLocks
<1>4. OwnedIffHas'
  <2> SUFFICES ASSUME NEW d \in Cores, NEW m \in Locks
               PROVE (<<d, m>> \in owned <=> depth[<<d, m>>] > 0 /\ ~InCall(d, m, {"clear"}))'
    BY DEF OwnedIffHas
  <2>1. <<d, m>> \in owned <=> depth[<<d, m>>] > 0 /\ ~InCall(d, m, {"clear"})
    BY DEF SpinInv, OwnedIffHas
  <2>2. CASE d = c /\ m = arg[c] BY <1>0, <2>1, <2>2 DEF SpinInv, SpinTypeOK
  <2>3. CASE ~(d = c /\ m = arg[c]) BY <1>0, <2>1, <2>3 DEF SpinInv, SpinTypeOK
  <2> QED BY <2>2, <2>3
<1>5. RecursionCounts'
  <2> SUFFICES ASSUME NEW d \in Cores, NEW m \in Locks PROVE RecursionCount(d, m)'
    BY DEF RecursionCounts
  <2>1. RecursionCount(d, m) /\ RecursionCount(c, m) /\ RecursionCount(c, arg[c])
    BY DEF SpinInv, SpinTypeOK, RecursionCounts
  <2>2. (Has(c, m) /\ Has(d, m) => c = d) /\ (Has(c, m) \/ Has(d, m) => lock[m] = 1)
    BY DEF SpinInv, OneHas, HasLocks
  <2>3. CASE d = c
    BY <1>0, <2>1, <2>2, <2>3 DEF SpinInv, SpinTypeOK, RecursionCount
  <2>4. CASE d # c
    BY <1>0, <2>1, <2>2, <2>4 DEF SpinInv, SpinTypeOK, RecursionCount
  <2> QED BY <2>3, <2>4
<1> QED BY <1>1, <1>2, <1>3, <1>4, <1>5 DEF SpinInv

\* Giving back once: the last time, or not.
LEMMA DecrementKeeps ==
  ASSUME SpinInv, NEW c \in Cores, Decrement(c)
  PROVE SpinInv'
<1> USE SpinLockAssumption DEF Goto, Has, InCall, Taking, Giving, Decrement
<1>a. /\ arg[c] \in Locks /\ depth[<<c, arg[c]>>] \in 1 .. MaxDepth
      /\ rec[arg[c]] = depth[<<c, arg[c]>>] /\ lock[arg[c]] = 1
  BY DEF SpinInv, SpinTypeOK, RecursionCounts, RecursionCount, HasLocks
<1>b. (rec[arg[c]] - 1) % 256 = rec[arg[c]] - 1
  BY <1>a, CountDown
<1>c. /\ pc[c] = "dec" /\ UNCHANGED <<lock, owned, arg>>
      /\ rec' = [rec EXCEPT ![arg[c]] = (rec[arg[c]] - 1) % 256]
      /\ IF rec[arg[c]] = 1 THEN pc' = [pc EXCEPT ![c] = "drop"] /\ UNCHANGED depth
         ELSE /\ pc' = [pc EXCEPT ![c] = "out"]
              /\ depth' = [depth EXCEPT ![<<c, arg[c]>>] = depth[<<c, arg[c]>>] - 1]
  OBVIOUS
<1> HIDE DEF Decrement
<1>d. rec[arg[c]] = 1 \/ rec[arg[c]] > 1
  BY <1>a
<1>0. /\ arg[c] \in Locks /\ depth[<<c, arg[c]>>] \in 1 .. MaxDepth
      /\ rec[arg[c]] = depth[<<c, arg[c]>>] /\ lock[arg[c]] = 1
      /\ rec' = [rec EXCEPT ![arg[c]] = rec[arg[c]] - 1]
      /\ pc[c] = "dec" /\ UNCHANGED <<lock, owned, arg>>
      /\ \/ rec[arg[c]] = 1 /\ pc' = [pc EXCEPT ![c] = "drop"] /\ UNCHANGED depth
         \/ /\ rec[arg[c]] > 1 /\ pc' = [pc EXCEPT ![c] = "out"]
            /\ depth' = [depth EXCEPT ![<<c, arg[c]>>] = depth[<<c, arg[c]>>] - 1]
  BY <1>a, <1>b, <1>c, <1>d
<1>1. SpinTypeOK'
  <2>1. rec' \in [Locks -> 0 .. 255] BY <1>0 DEF SpinInv, SpinTypeOK
  <2>2. depth' \in [Cores \X Locks -> 0 .. MaxDepth] BY <1>0 DEF SpinInv, SpinTypeOK
  <2>3. pc' \in [Cores -> Taking \cup Giving \cup {"out"}] BY <1>0 DEF SpinInv, SpinTypeOK
  <2> QED BY <1>0, <2>1, <2>2, <2>3 DEF SpinInv, SpinTypeOK
<1>2. OneHas' BY <1>0 DEF SpinInv, SpinTypeOK, OneHas
<1>3. HasLocks' BY <1>0 DEF SpinInv, SpinTypeOK, HasLocks
<1>4. OwnedIffHas'
  <2> SUFFICES ASSUME NEW d \in Cores, NEW m \in Locks
               PROVE (<<d, m>> \in owned <=> depth[<<d, m>>] > 0 /\ ~InCall(d, m, {"clear"}))'
    BY DEF OwnedIffHas
  <2>1. <<d, m>> \in owned <=> depth[<<d, m>>] > 0 /\ ~InCall(d, m, {"clear"})
    BY DEF SpinInv, OwnedIffHas
  <2>2. CASE d = c /\ m = arg[c] BY <1>0, <2>1, <2>2 DEF SpinInv, SpinTypeOK
  <2>3. CASE ~(d = c /\ m = arg[c]) BY <1>0, <2>1, <2>3 DEF SpinInv, SpinTypeOK
  <2> QED BY <2>2, <2>3
<1>5. RecursionCounts'
  <2> SUFFICES ASSUME NEW d \in Cores, NEW m \in Locks PROVE RecursionCount(d, m)'
    BY DEF RecursionCounts
  <2>1. RecursionCount(d, m) /\ RecursionCount(c, m) /\ RecursionCount(c, arg[c])
    BY DEF SpinInv, SpinTypeOK, RecursionCounts
  <2>2. (Has(c, m) /\ Has(d, m) => c = d) /\ (Has(c, m) \/ Has(d, m) => lock[m] = 1)
    BY DEF SpinInv, OneHas, HasLocks
  <2>3. CASE d = c
    BY <1>0, <2>1, <2>2, <2>3 DEF SpinInv, SpinTypeOK, RecursionCount
  <2>4. CASE d # c
    BY <1>0, <2>1, <2>2, <2>4 DEF SpinInv, SpinTypeOK, RecursionCount
  <2> QED BY <2>3, <2>4
<1> QED BY <1>1, <1>2, <1>3, <1>4, <1>5 DEF SpinInv

\* The end of a release: the bit, then the lock.
LEMMA DropKeeps ==
  ASSUME SpinInv, NEW c \in Cores, DropOwner(c)
  PROVE SpinInv'
<1> USE SpinLockAssumption DEF Goto, Has, InCall, Taking, Giving, DropOwner
<1>0. arg[c] \in Locks /\ depth[<<c, arg[c]>>] = 1 /\ rec[arg[c]] = 0
  BY DEF SpinInv, SpinTypeOK, RecursionCounts, RecursionCount
<1>1. SpinTypeOK' BY <1>0 DEF SpinInv, SpinTypeOK
<1>2. OneHas' BY <1>0 DEF SpinInv, SpinTypeOK, OneHas
<1>3. HasLocks' BY <1>0 DEF SpinInv, SpinTypeOK, HasLocks
<1>4. OwnedIffHas'
  <2> SUFFICES ASSUME NEW d \in Cores, NEW m \in Locks
               PROVE (<<d, m>> \in owned <=> depth[<<d, m>>] > 0 /\ ~InCall(d, m, {"clear"}))'
    BY DEF OwnedIffHas
  <2>1. <<d, m>> \in owned <=> depth[<<d, m>>] > 0 /\ ~InCall(d, m, {"clear"})
    BY DEF SpinInv, OwnedIffHas
  <2>2. CASE d = c /\ m = arg[c] BY <1>0, <2>1, <2>2 DEF SpinInv, SpinTypeOK
  <2>3. CASE ~(d = c /\ m = arg[c]) BY <1>0, <2>1, <2>3 DEF SpinInv, SpinTypeOK
  <2> QED BY <2>2, <2>3
<1>5. RecursionCounts'
  <2> SUFFICES ASSUME NEW d \in Cores, NEW m \in Locks PROVE RecursionCount(d, m)'
    BY DEF RecursionCounts
  <2>1. RecursionCount(d, m) /\ RecursionCount(c, m) /\ RecursionCount(c, arg[c])
    BY DEF SpinInv, SpinTypeOK, RecursionCounts
  <2>2. (Has(c, m) /\ Has(d, m) => c = d) /\ (Has(c, m) \/ Has(d, m) => lock[m] = 1)
    BY DEF SpinInv, OneHas, HasLocks
  <2>3. CASE d = c
    BY <1>0, <2>1, <2>2, <2>3 DEF SpinInv, SpinTypeOK, RecursionCount
  <2>4. CASE d # c
    BY <1>0, <2>1, <2>2, <2>4 DEF SpinInv, SpinTypeOK, RecursionCount
  <2> QED BY <2>3, <2>4
<1> QED BY <1>1, <1>2, <1>3, <1>4, <1>5 DEF SpinInv

\* The store that frees the lock.
LEMMA ClearKeeps ==
  ASSUME SpinInv, NEW c \in Cores, Clear(c)
  PROVE SpinInv'
<1> USE SpinLockAssumption DEF Goto, Has, InCall, Taking, Giving, Clear
<1>0. arg[c] \in Locks /\ depth[<<c, arg[c]>>] = 1 /\ rec[arg[c]] = 0
  BY DEF SpinInv, SpinTypeOK, RecursionCounts, RecursionCount
<1>1. SpinTypeOK' BY <1>0 DEF SpinInv, SpinTypeOK
<1>2. OneHas' BY <1>0 DEF SpinInv, SpinTypeOK, OneHas
<1>3. HasLocks' BY <1>0 DEF SpinInv, SpinTypeOK, HasLocks, OneHas
<1>4. OwnedIffHas'
  <2> SUFFICES ASSUME NEW d \in Cores, NEW m \in Locks
               PROVE (<<d, m>> \in owned <=> depth[<<d, m>>] > 0 /\ ~InCall(d, m, {"clear"}))'
    BY DEF OwnedIffHas
  <2>1. <<d, m>> \in owned <=> depth[<<d, m>>] > 0 /\ ~InCall(d, m, {"clear"})
    BY DEF SpinInv, OwnedIffHas
  <2>2. CASE d = c /\ m = arg[c] BY <1>0, <2>1, <2>2 DEF SpinInv, SpinTypeOK
  <2>3. CASE ~(d = c /\ m = arg[c]) BY <1>0, <2>1, <2>3 DEF SpinInv, SpinTypeOK
  <2> QED BY <2>2, <2>3
<1>5. RecursionCounts'
  <2> SUFFICES ASSUME NEW d \in Cores, NEW m \in Locks PROVE RecursionCount(d, m)'
    BY DEF RecursionCounts
  <2>1. RecursionCount(d, m) /\ RecursionCount(c, m) /\ RecursionCount(c, arg[c])
    BY DEF SpinInv, SpinTypeOK, RecursionCounts
  <2>2. (Has(c, m) /\ Has(d, m) => c = d) /\ (Has(c, m) \/ Has(d, m) => lock[m] = 1)
    BY DEF SpinInv, OneHas, HasLocks
  <2>3. CASE d = c
    BY <1>0, <2>1, <2>2, <2>3 DEF SpinInv, SpinTypeOK, RecursionCount
  <2>4. CASE d # c
    BY <1>0, <2>1, <2>2, <2>4 DEF SpinInv, SpinTypeOK, RecursionCount
  <2> QED BY <2>3, <2>4
<1> QED BY <1>1, <1>2, <1>3, <1>4, <1>5 DEF SpinInv

\* Every step of every core keeps SpinInv.
LEMMA SpinInvNext == SpinInv /\ [SpinNext]_lockVars => SpinInv'
<1> SUFFICES ASSUME SpinInv, [SpinNext]_lockVars PROVE SpinInv'
  OBVIOUS
<1>1. CASE UNCHANGED lockVars
  BY <1>1 DEF lockVars, SpinInv, SpinTypeOK, OneHas, HasLocks, OwnedIffHas, RecursionCounts, RecursionCount, Has, InCall
<1>2. ASSUME NEW c \in Cores, LockStep(c) PROVE SpinInv'
  BY <1>2, LookKeeps, SwapKeeps, SetRecursionKeeps, SetOwnerKeeps, RecurseKeeps, DecrementKeeps,
     DropKeeps, ClearKeeps DEF LockStep
<1>3. ASSUME NEW c \in Cores, NEW l \in Locks, CallAcquire(c, l) \/ CallRelease(c, l) PROVE SpinInv'
  BY <1>3, CallKeeps
<1> QED BY <1>1, <1>2, <1>3 DEF SpinNext

\* The lock, its recursion count and the owners' bits always agree with what the
\* cores have taken (vPortRecursiveLock).
THEOREM SpinLockCorrect == SpinSpec => []SpinInv
<1>1. SpinInit => SpinInv BY SpinInvInit
<1>2. SpinInv /\ [SpinNext]_lockVars => SpinInv' BY SpinInvNext
<1> QED BY <1>1, <1>2, PTL DEF SpinSpec

\* No two cores have taken the same lock.
THEOREM SpinLockExcludes == SpinSpec => []MutualExclusion
<1>1. SpinInv => MutualExclusion BY DEF SpinInv, OneHas, Has, MutualExclusion
<1> QED BY <1>1, SpinLockCorrect, PTL

\* No assertion of vPortRecursiveLock fails, the bound of the recursion count included.
THEOREM SpinLockAsserts == SpinSpec => []AssertsHold
<1>1. SpinInv => AssertsHold
  BY SpinLockAssumption
  DEF SpinInv, SpinTypeOK, OwnedIffHas, RecursionCounts, RecursionCount, InCall, AssertsHold
<1> QED BY <1>1, SpinLockCorrect, PTL

(* ------------------------- the kernel that uses them ------------------------- *)

\* A step of a core is a step of vPortRecursiveLock, a call of it, or leaves the locks
\* alone.
LEMMA SmpStepOfLock ==
  ASSUME NEW c \in Cores, Step(c) \/ CallTask(c) \/ TakeInterrupt(c)
  PROVE [SpinNext]_lockVars
<1>1. CASE InLock(c)
  BY <1>1 DEF InLock, SpinNext
<1>2. CASE CallLock(c)
  <2>1. Gets(c) \subseteq Locks /\ Rels(c) \subseteq Locks
    BY SmpAssumption DEF Gets, Rels
  <2> QED BY <1>2, <2>1 DEF CallLock, SpinNext
<1>3. CASE TakeSwi(c) \/ TakeInterrupt(c) \/ CallTask(c)
  BY <1>3 DEF TakeSwi, TakeInterrupt, CallTask, CallResume, Call
<1>4. CASE Mask(c) \/ Unmask(c) \/ SkipLock(c) \/ Enter(c) \/ Leave(c) \/ Check(c)
  BY <1>4 DEF Mask, Unmask, SkipLock, Enter, Leave, Check
<1>5. CASE LeaveForYield(c) \/ Again(c) \/ Body(c) \/ Suspend(c) \/ Resume(c)
  BY <1>5 DEF LeaveForYield, Again, Body, Suspend, Resume
<1>6. CASE Yield(c) \/ ClearSwi(c) \/ vTaskSwitchContext(c)
  BY <1>6 DEF Yield, ClearSwi, vTaskSwitchContext
<1> QED BY <1>1, <1>2, <1>3, <1>4, <1>5, <1>6 DEF Step

\* The critical sections, the suspension of the scheduler and the context switch are
\* clients of the spin locks (SmpCritical implements SpinLock).
THEOREM SmpUsesLocks == SmpSpec => SpinSpec
<1>1. SmpInit => SpinInit BY DEF SmpInit
<1>2. [SmpNext]_smpVars => [SpinNext]_lockVars
  <2> SUFFICES ASSUME [SmpNext]_smpVars PROVE [SpinNext]_lockVars
    OBVIOUS
  <2>1. CASE UNCHANGED smpVars BY <2>1 DEF smpVars, lockVars
  <2>2. CASE SmpNext
    <3>1. PICK c \in Cores : Step(c) \/ CallTask(c) \/ TakeInterrupt(c) BY <2>2 DEF SmpNext
    <3> QED BY <3>1, SmpStepOfLock
  <2> QED BY <2>1, <2>2
<1> QED BY <1>1, <1>2, PTL DEF SmpSpec, SpinSpec

\* In the kernel no two cores have taken the same lock.
THEOREM SmpExcludes == SmpSpec => []MutualExclusion
  BY SmpUsesLocks, SpinLockExcludes, PTL

\* In the kernel no assertion of vPortRecursiveLock fails.
THEOREM SmpLocksAssert == SmpSpec => []AssertsHold
  BY SmpUsesLocks, SpinLockAsserts, PTL


(***************************************************************************)
(* Where a core is in its functions fixes what it holds.  Place describes the frame  *)
(* on top: is the interrupt threshold raised, how often has the function taken the   *)
(* TASK lock (beyond one for every suspension of the scheduler) and the ISR lock,     *)
(* and what did it add to the nesting count.  A frame below the top is a critical     *)
(* section around a nested one, or was interrupted where it had nothing.             *)
(***************************************************************************)

At(f, fn, places) == f.fn = fn /\ f.pos \in places

Frames == [fn : {"critical", "suspend", "resume", "isr", "switch"}, pos : 1 .. 20,
           yield : BOOLEAN, saved : {FALSE}]
FrameOK(f) ==
  /\ f \in Frames
  /\ \/ At(f, "critical", (1 .. 20) \ {12}) \/ At(f, "suspend", (1 .. 15) \ {8})
     \/ At(f, "resume", 1 .. 11) \/ At(f, "isr", 1 .. 8) \/ At(f, "switch", 1 .. 8)

Open(f) ==
  \/ At(f, "critical", {1, 11, 17}) \/ At(f, "suspend", {1, 11}) \/ At(f, "resume", {1, 11})
  \/ At(f, "switch", {1}) \/ At(f, "isr", {1, 8})
TaskHeld(f) ==
  IF At(f, "resume", {6}) THEN 2
  ELSE IF \/ At(f, "critical", {3, 4, 5, 6, 7, 8, 9, 13, 14, 15, 19, 20})
          \/ At(f, "suspend", {3, 4, 5, 9, 13, 14, 15})
          \/ At(f, "resume", {3, 4, 5, 7, 8, 9}) \/ At(f, "switch", {4, 5, 6, 7})
  THEN 1 ELSE 0
IsrHeld(f) ==
  IF \/ At(f, "critical", {4, 5, 6, 7, 8, 13, 14, 20}) \/ At(f, "suspend", {5, 6, 14})
     \/ At(f, "resume", {4, 5, 6, 7, 8}) \/ At(f, "switch", {5, 6}) \/ At(f, "isr", {3, 4, 5, 6})
  THEN 1 ELSE 0
NestIn(f) ==
  IF At(f, "critical", {5, 6, 7, 13}) \/ At(f, "resume", {5, 6, 7}) \/ At(f, "isr", {4, 5})
  THEN 1 ELSE 0

\* f is the frame on top of a critical section.
Deep(n, f) == n > 1 /\ f.fn = "critical"

\* A frame of a nested critical section is in the section's straight part.
Straight(n, f) == Deep(n, f) => f.pos \in 1 .. 10 /\ ~f.yield

Covers(i, f, g) ==
  \/ g.fn = "critical" /\ At(f, "critical", {6})
  \/ /\ Open(f) /\ (f.fn = "critical" => i = 1)
     /\ \/ g.fn = "switch" /\ f.fn \in {"critical", "suspend", "resume"}
        \/ g.fn = "isr" /\ f.fn # "isr"
Shape(s) ==
  /\ s \in Seq(Frames)
  /\ \A i \in 1 .. Len(s) : FrameOK(s[i])
  /\ \A i \in 1 .. Len(s) - 1 : Covers(i, s[i], s[i + 1])
  /\ \A i \in 1 .. Len(s) - 1 : Open(s[i]) \/ s[Len(s)].fn = "critical"
  /\ \A i \in 1 .. Len(s) : Straight(i, s[i])

\* m: masked, k: nesting count, t, l: holdings of the TASK and the ISR lock.
TopPlace(n, f, m, k, t, l) ==
  IF Deep(n, f) THEN m /\ k = (n - 1) + NestIn(f) /\ t = 1 /\ l = 1
  ELSE (m <=> ~Open(f)) /\ k = NestIn(f) /\ t = TaskHeld(f) /\ l = IsrHeld(f)
Place(s, m, k, t, l) ==
  IF s = <<>> THEN ~m /\ k = 0 /\ t = 0 /\ l = 0
  ELSE TopPlace(Len(s), s[Len(s)], m, k, t, l)

Holds(c, l) == depth[<<c, l>>]
CoreOK(c) ==
  /\ Shape(stack[c])
  /\ Place(stack[c], mask[c], nest[c], Holds(c, "TASK") - mine[c], Holds(c, "ISR"))

\* A call of vPortRecursiveLock is the one the top frame is about.
LockCall(c) ==
  pc[c] # "out" =>
    /\ stack[c] # <<>> /\ ~Nested(c)
    /\ pc[c] \in Taking => arg[c] \in Gets(c)
    /\ pc[c] \in Giving => arg[c] \in Rels(c)

\* The core that suspended the scheduler did it alone; the loop of
\* prvCheckForRunStateChange is entered, and resuming ended, by one that has not.
Suspensions ==
  /\ susp \in Nat /\ \A c \in Cores : mine[c] = 0 \/ mine[c] = susp
  /\ susp > 0 => \E c \in Cores : mine[c] = susp
TaskFrame(f, k) ==
  /\ At(f, "resume", 1 .. 5) => k > 0
  /\ At(f, "critical", 13 .. 20) \/ At(f, "suspend", 9 .. 15) => k = 0
TaskPart(c) == \A i \in 1 .. Len(stack[c]) : TaskFrame(stack[c][i], mine[c])

\* A task that was asked to yield is going to be switched: the interrupt is pending, or
\* on its way to vTaskSwitchContext, or put off to the end of xTaskResumeAll.
Resuming(f) == At(f, "resume", 6 .. 11) /\ (f.pos >= 8 => f.yield)
Asked(c) ==
  asked[c] =>
    \/ swi[c]
    \/ Busy(c) /\ At(Top(c), "switch", 3 .. 5)
    \/ pending[c] /\ (mine[c] > 0 \/ (Busy(c) /\ Resuming(stack[c][1])))

SmpTypeOK ==
  /\ stack \in [Cores -> Seq(Frames)]
  /\ mask \in [Cores -> BOOLEAN] /\ nest \in [Cores -> Nat] /\ mine \in [Cores -> Nat]
  /\ swi \in [Cores -> BOOLEAN] /\ asked \in [Cores -> BOOLEAN] /\ pending \in [Cores -> BOOLEAN]

SmpInv ==
  /\ SpinInv /\ SmpTypeOK /\ Suspensions
  /\ \A c \in Cores : CoreOK(c) /\ LockCall(c) /\ TaskPart(c) /\ Asked(c)


\* The step a frame is at, and the frame one step on.
OpOf(f) == Prog(f.fn)[f.pos]
On(f) == [f EXCEPT !.pos = @ + 1]

\* The frames whose next step is the end of the function.
Last(f) ==
  \/ At(f, "critical", {11}) \/ At(f, "suspend", {7}) \/ At(f, "resume", {11})
  \/ At(f, "isr", {8}) \/ At(f, "switch", {8})
  \/ ~f.yield /\ (At(f, "critical", {10}) \/ At(f, "resume", {10}) \/ At(f, "isr", {7}))

\* What is kept from a frame to the next one of the same call.
Along(f, g) ==
  /\ g.fn = f.fn /\ FrameOK(g)
  /\ At(f, "critical", 1 .. 10) /\ ~f.yield => g.pos \in 1 .. 10 /\ ~g.yield
  /\ \A k \in Nat : TaskFrame(f, k) => TaskFrame(g, k)
  /\ At(f, "switch", 3 .. 5) => At(g, "switch", 3 .. 5)
  /\ Resuming(f) => Resuming(g)

(* ------------------------------ the programs ------------------------------ *)

\* Advance: the frame is popped after its last step, and moves to the next one otherwise.
LEMMA NextStep ==
  ASSUME NEW c \in Cores, FrameOK(Top(c)), OpOf(Top(c)) # "again", Advance(c)
  PROVE  IF Last(Top(c)) THEN stack' = Popped(c) ELSE stack' = WithTop(c, On(Top(c)))
<1> DEFINE f == Top(c)
<1>1. Last(f) <=> \/ Prog(f.fn)[f.pos + 1] = "end"
                  \/ Prog(f.fn)[f.pos + 1] = "yield" /\ ~f.yield
  BY DEF OpOf, Last, Prog, vTaskEnterExitCritical, vTaskSuspendAll, xTaskResumeAll,
         InterruptHandler, xPortTaskSwitch, FrameOK, At, Frames
<1> QED BY <1>1 DEF Advance, AdvanceTo, On

\* The fields of a frame with some of them changed.
LEMMA FrameOn ==
  ASSUME NEW f \in Frames, f.pos < 20
  PROVE  /\ On(f) \in Frames /\ On(f).fn = f.fn /\ On(f).pos = f.pos + 1
         /\ On(f).yield = f.yield /\ On(f).saved = f.saved
<1>1. On(f).fn = f.fn /\ On(f).pos = f.pos + 1 /\ On(f).yield = f.yield /\ On(f).saved = f.saved
  BY DEF On, Frames
<1>2. f.pos + 1 \in 1 .. 20 BY DEF Frames
<1> QED BY <1>1, <1>2 DEF On, Frames

\* The next frame of a step that ends neither a section nor a loop.
LEMMA OnAlong ==
  ASSUME NEW f, FrameOK(f), ~Last(f), OpOf(f) \notin {"again", "leave", "switch"}
  PROVE  Along(f, On(f))
<1>0. /\ At(f, "critical", 1 .. 10) /\ ~f.yield => f.pos \in 1 .. 9
      /\ ~At(f, "critical", {11, 12, 20}) /\ ~At(f, "suspend", {7, 8, 15}) /\ ~At(f, "resume", {7, 11})
      /\ ~At(f, "switch", {5, 8}) /\ ~At(f, "isr", {8})
  BY DEF OpOf, Last, Prog, vTaskEnterExitCritical, vTaskSuspendAll, xTaskResumeAll,
         InterruptHandler, xPortTaskSwitch, FrameOK, At, Frames
<1>a. f \in Frames BY DEF FrameOK
<1>b. f.pos \in 1 .. 19 BY <1>0 DEF FrameOK, At
<1>c. On(f).fn = f.fn /\ On(f).pos = f.pos + 1 /\ On(f).yield = f.yield /\ On(f) \in Frames
  BY <1>a, <1>b, FrameOn
<1>1. /\ On(f).fn = f.fn /\ On(f).pos = f.pos + 1 /\ On(f).yield = f.yield /\ FrameOK(On(f))
      /\ f.pos \in 1 .. 19
  BY <1>0, <1>b, <1>c DEF FrameOK, At
<1>2. \A k \in Nat : TaskFrame(f, k) => TaskFrame(On(f), k)
  BY <1>0, <1>1 DEF At, TaskFrame
<1>3. Resuming(f) => Resuming(On(f))
  BY <1>0, <1>1 DEF At, Resuming
<1> QED BY <1>0, <1>1, <1>2, <1>3 DEF At, Along

\* The steps that raise the interrupt threshold, and where they lead.
LEMMA AtMask ==
  ASSUME NEW f, FrameOK(f), OpOf(f) \in {"mask", "save"}
  PROVE  /\ ~Last(f) /\ Open(f) /\ ~Open(On(f)) /\ NestIn(On(f)) = 0 /\ NestIn(f) = 0
         /\ TaskHeld(On(f)) = 0 /\ TaskHeld(f) = 0 /\ IsrHeld(On(f)) = 0 /\ IsrHeld(f) = 0
  BY DEF OpOf, Last, Prog, vTaskEnterExitCritical, vTaskSuspendAll, xTaskResumeAll, On, Along,
         InterruptHandler, xPortTaskSwitch, FrameOK, At, Frames, Open, NestIn, TaskHeld, IsrHeld

\* The steps that lower it.
LEMMA AtUnmask ==
  ASSUME NEW f, FrameOK(f), OpOf(f) \in {"unmask", "restore"}
  PROVE  /\ ~Open(f) /\ NestIn(f) = 0 /\ TaskHeld(f) = 0 /\ IsrHeld(f) = 0
         /\ OpOf(f) = "restore" => f.fn # "critical"
         /\ ~Last(f) => /\ Open(On(f)) /\ NestIn(On(f)) = 0
                        /\ TaskHeld(On(f)) = 0 /\ IsrHeld(On(f)) = 0
  BY DEF OpOf, Last, Prog, vTaskEnterExitCritical, vTaskSuspendAll, xTaskResumeAll, On, Along,
         InterruptHandler, xPortTaskSwitch, FrameOK, At, Frames, Open, NestIn, TaskHeld, IsrHeld

\* The steps that take a lock; none takes the TASK lock with the ISR lock held.
LEMMA AtGet ==
  ASSUME NEW f, FrameOK(f), OpOf(f) \in {"getTASK", "getISR"}
  PROVE  /\ ~Last(f) /\ ~Open(f) /\ ~Open(On(f)) /\ NestIn(f) = 0 /\ NestIn(On(f)) = 0
         /\ TaskHeld(On(f)) = TaskHeld(f) + (IF OpOf(f) = "getTASK" THEN 1 ELSE 0)
         /\ IsrHeld(On(f)) = IsrHeld(f) + (IF OpOf(f) = "getISR" THEN 1 ELSE 0)
         /\ OpOf(f) = "getTASK" => IsrHeld(f) = 0
  BY DEF OpOf, Last, Prog, vTaskEnterExitCritical, vTaskSuspendAll, xTaskResumeAll, On, Along,
         InterruptHandler, xPortTaskSwitch, FrameOK, At, Frames, Open, NestIn, TaskHeld, IsrHeld

\* The steps that give a lock.
LEMMA AtRel ==
  ASSUME NEW f, FrameOK(f), OpOf(f) \in {"relTASK", "relISR"}
  PROVE  /\ ~Last(f) /\ ~Open(f) /\ ~Open(On(f)) /\ NestIn(f) = NestIn(On(f))
         /\ f.fn # "resume" => NestIn(f) = 0
         /\ TaskHeld(f) = TaskHeld(On(f)) + (IF OpOf(f) = "relTASK" THEN 1 ELSE 0)
         /\ IsrHeld(f) = IsrHeld(On(f)) + (IF OpOf(f) = "relISR" THEN 1 ELSE 0)
  BY DEF OpOf, Last, Prog, vTaskEnterExitCritical, vTaskSuspendAll, xTaskResumeAll, On, Along,
         InterruptHandler, xPortTaskSwitch, FrameOK, At, Frames, Open, NestIn, TaskHeld, IsrHeld

\* The step that counts a critical section.
LEMMA AtEnter ==
  ASSUME NEW f, FrameOK(f), OpOf(f) = "enter"
  PROVE  /\ ~Last(f) /\ ~Open(f) /\ ~Open(On(f)) /\ NestIn(f) = 0 /\ NestIn(On(f)) = 1
         /\ TaskHeld(f) = TaskHeld(On(f)) /\ IsrHeld(f) = IsrHeld(On(f))
  BY DEF OpOf, Last, Prog, vTaskEnterExitCritical, vTaskSuspendAll, xTaskResumeAll, On, Along,
         InterruptHandler, xPortTaskSwitch, FrameOK, At, Frames, Open, NestIn, TaskHeld, IsrHeld

\* The steps between the locks, and those that only move on.
LEMMA AtWork ==
  ASSUME NEW f, FrameOK(f), OpOf(f) \in {"body", "clear", "switch", "check"}
  PROVE  /\ ~Last(f) /\ ~Open(f) /\ ~Open(On(f)) /\ NestIn(f) = NestIn(On(f))
         /\ TaskHeld(f) = TaskHeld(On(f)) /\ IsrHeld(f) = IsrHeld(On(f))
         /\ OpOf(f) = "body" => (f.fn = "critical" => f.pos = 6) /\ f.fn \in {"critical", "isr"}
         /\ OpOf(f) = "clear" => At(f, "switch", {2})
         /\ OpOf(f) = "switch" => At(f, "switch", {5})
         /\ OpOf(f) = "check" => At(f, "critical", {5}) \/ At(f, "suspend", {3})
  BY DEF OpOf, Last, Prog, vTaskEnterExitCritical, vTaskSuspendAll, xTaskResumeAll, On, Along,
         InterruptHandler, xPortTaskSwitch, FrameOK, At, Frames, Open, NestIn, TaskHeld, IsrHeld

\* The remaining steps.
LEMMA AtOthers ==
  ASSUME NEW f, FrameOK(f)
  PROVE  /\ OpOf(f) = "leave" =>
              ~Last(f) /\ (At(f, "critical", {7}) \/ At(f, "resume", {7}) \/ At(f, "isr", {5}))
         /\ OpOf(f) = "nest0" => ~Last(f) /\ At(f, "critical", {13})
         /\ OpOf(f) = "again" => ~Last(f) /\ (At(f, "critical", {20}) \/ At(f, "suspend", {15}))
         /\ OpOf(f) = "suspend" => ~Last(f) /\ At(f, "suspend", {5})
         /\ OpOf(f) = "resume" => ~Last(f) /\ At(f, "resume", {5})
         /\ OpOf(f) = "yield" =>
              /\ Last(f) /\ Open(f)
              /\ At(f, "critical", {11}) \/ At(f, "resume", {11}) \/ At(f, "isr", {8})
         /\ OpOf(f) # "task"
         /\ Open(f) => /\ OpOf(f) \in {"mask", "save", "yield"}
                       /\ NestIn(f) = 0 /\ TaskHeld(f) = 0 /\ IsrHeld(f) = 0
  BY DEF OpOf, Last, Prog, vTaskEnterExitCritical, vTaskSuspendAll, xTaskResumeAll, On, Along,
         InterruptHandler, xPortTaskSwitch, FrameOK, At, Frames, Open, NestIn, TaskHeld, IsrHeld

\* Where prvCheckForRunStateChange starts and where it goes back to.
LEMMA LoopPlaces ==
  /\ EndOf("critical") = 12 /\ CheckOf("critical") = 5
  /\ EndOf("suspend") = 8 /\ CheckOf("suspend") = 3
<1>1. DOMAIN Prog("critical") = 1 .. 20 /\ DOMAIN Prog("suspend") = 1 .. 15
  BY DEF Prog, vTaskEnterExitCritical, vTaskSuspendAll
<1>2. \A i \in 1 .. 20 : (Prog("critical")[i] = "end" <=> i = 12) /\ (Prog("critical")[i] = "check" <=> i = 5)
  BY DEF Prog, vTaskEnterExitCritical
<1>3. \A i \in 1 .. 15 : (Prog("suspend")[i] = "end" <=> i = 8) /\ (Prog("suspend")[i] = "check" <=> i = 3)
  BY DEF Prog, vTaskSuspendAll
<1> QED BY <1>1, <1>2, <1>3 DEF EndOf, CheckOf

(* ------------------------------- the stacks ------------------------------- *)

\* The top frame replaced by one of the same function.
LEMMA ShapeMove ==
  ASSUME NEW s, Shape(s), s # <<>>, NEW g, FrameOK(g), g.fn = s[Len(s)].fn, Straight(Len(s), g),
         NEW u \in Seq(Frames), Len(u) = Len(s), u[Len(s)] = g,
         \A i \in 1 .. Len(s) - 1 : u[i] = s[i]
  PROVE  Shape(u)
<1>1. PICK n : n = Len(s) /\ n \in Nat \ {0} BY EmptySeq DEF Shape
<1>2. u \in Seq(Frames) /\ Len(u) = n /\ u[n] = g /\ \A i \in 1 .. n - 1 : u[i] = s[i]
  BY <1>1
<1>3. \A i \in 1 .. n : i = n \/ i \in 1 .. n - 1 BY <1>1
<1>4. ASSUME NEW i \in 1 .. n
      PROVE  FrameOK(u[i]) /\ u[i].fn = s[i].fn /\ Straight(i, u[i])
  <2>1. CASE i = n BY <1>1, <1>2, <2>1
  <2>2. CASE i \in 1 .. n - 1
    <3>1. u[i] = s[i] BY <1>2, <2>2
    <3> QED BY <1>1, <3>1 DEF Shape
  <2> QED BY <1>3, <2>1, <2>2
<1>5. ASSUME NEW i \in 1 .. n - 1
      PROVE  Covers(i, u[i], u[i + 1]) /\ (Open(u[i]) \/ u[n].fn = "critical")
  <2>1. Covers(i, s[i], s[i + 1]) /\ (Open(s[i]) \/ s[n].fn = "critical") /\ u[i] = s[i]
    BY <1>1, <1>2 DEF Shape
  <2>2. i + 1 \in 1 .. n /\ n \in 1 .. n BY <1>1
  <2>3. u[i + 1].fn = s[i + 1].fn /\ u[n].fn = s[n].fn BY <1>4, <2>2
  <2> QED BY <2>1, <2>3 DEF Covers
<1> QED BY <1>2, <1>4, <1>5 DEF Shape

\* The top frame removed.
LEMMA ShapePop ==
  ASSUME NEW s, Shape(s), s # <<>>, NEW u, u = SubSeq(s, 1, Len(s) - 1)
  PROVE  /\ Shape(u) /\ Len(u) = Len(s) - 1 /\ (Len(s) > 1 => u # <<>>)
         /\ (Len(s) = 1 => u = <<>>)
         /\ \A i \in 1 .. Len(s) - 1 : u[i] = s[i]
<1>1. PICK n : n = Len(s) /\ n \in Nat \ {0} BY EmptySeq DEF Shape
<1>2. u \in Seq(Frames) /\ Len(u) = n - 1 /\ \A i \in 1 .. n - 1 : u[i] = s[i]
  <2>1. \A i \in 1 .. n - 1 : s[i] \in Frames BY <1>1, ElementOfSeq DEF Shape
  <2>2. u = [i \in 1 .. n - 1 |-> s[i]] /\ n - 1 \in Nat BY <1>1 DEF Shape
  <2> HIDE <1>1
  <2> QED BY <2>1, <2>2
<1>3. (n > 1 => u # <<>>) /\ (n = 1 => u = <<>>)
  <2>1. n > 1 => Len(u) # 0 BY <1>1, <1>2
  <2>2. n = 1 => Len(u) = 0 BY <1>1, <1>2
  <2> QED BY <1>2, <2>1, <2>2, EmptySeq
<1> SUFFICES Shape(u) BY <1>1, <1>2, <1>3
<1>4. \A i \in 1 .. n - 1 : FrameOK(u[i]) /\ Straight(i, u[i])
  <2> SUFFICES ASSUME NEW i \in 1 .. n - 1
               PROVE  FrameOK(u[i]) /\ Straight(i, u[i])
    OBVIOUS
  <2>1. u[i] = s[i] /\ i \in 1 .. n BY <1>1, <1>2
  <2> QED BY <1>1, <2>1 DEF Shape
<1>5. ASSUME NEW i \in 1 .. (n - 1) - 1
      PROVE  Covers(i, u[i], u[i + 1]) /\ (Open(u[i]) \/ u[n - 1].fn = "critical")
  <2>1. i \in 1 .. n - 1 /\ i + 1 \in 1 .. n - 1 /\ n - 1 \in 1 .. n - 1 BY <1>1
  <2>2. u[i] = s[i] /\ u[i + 1] = s[i + 1] /\ u[n - 1] = s[n - 1] BY <1>2, <2>1
  <2>3. Covers(i, s[i], s[i + 1]) /\ (Open(s[i]) \/ s[n].fn = "critical") BY <1>1, <2>1 DEF Shape
  <2>4. Covers(n - 1, s[n - 1], s[(n - 1) + 1]) /\ (n - 1) + 1 = n BY <1>1, <2>1 DEF Shape
  <2>5. s[n].fn = "critical" => s[n - 1].fn = "critical" BY <2>4 DEF Covers, At
  <2> QED BY <2>2, <2>3, <2>5
<1> QED BY <1>2, <1>4, <1>5 DEF Shape

\* A frame put on top.
LEMMA ShapePush ==
  ASSUME NEW s, Shape(s), NEW g, FrameOK(g), g.pos = 1, ~g.yield,
         s # <<>> => Covers(Len(s), s[Len(s)], g),
         NEW u \in Seq(Frames), Len(u) = Len(s) + 1, u[Len(s) + 1] = g,
         \A i \in 1 .. Len(s) : u[i] = s[i]
  PROVE  Shape(u)
<1> DEFINE n == Len(s)
<1>1. s \in Seq(Frames) /\ n \in Nat /\ g \in Frames BY DEF Shape, FrameOK
<1>2. u \in Seq(Frames) /\ Len(u) = n + 1 /\ u[n + 1] = g /\ \A i \in 1 .. n : u[i] = s[i]
  OBVIOUS
<1>4. \A i \in 1 .. n + 1 : FrameOK(u[i]) BY <1>1, <1>2 DEF Shape
<1>5. \A i \in 1 .. (n + 1) - 1 : Covers(i, u[i], u[i + 1])
  <2> SUFFICES ASSUME NEW i \in 1 .. n PROVE Covers(i, u[i], u[i + 1])
    BY <1>1
  <2>1. CASE i = n
    <3>1. s # <<>> BY <1>1, <2>1
    <3> QED BY <1>1, <1>2, <2>1, <3>1
  <2>2. CASE i < n BY <1>1, <1>2, <2>2 DEF Shape
  <2> QED BY <1>1, <2>1, <2>2
<1>6. \A i \in 1 .. (n + 1) - 1 : Open(u[i]) \/ u[n + 1].fn = "critical"
  <2> SUFFICES ASSUME NEW i \in 1 .. n, ~Open(u[i]) PROVE g.fn = "critical"
    BY <1>1, <1>2
  <2>1. s # <<>> /\ u[i] = s[i] /\ i <= n BY <1>1, <1>2
  <2>2. Covers(n, s[n], g) BY <2>1
  <2>3. CASE i = n BY <2>1, <2>2, <2>3 DEF Covers
  <2>4. CASE i < n
    <3>1. s[n].fn = "critical" /\ n # 1 BY <1>1, <2>1, <2>4 DEF Shape
    <3> QED BY <2>2, <3>1 DEF Covers
  <2> QED BY <1>1, <2>1, <2>3, <2>4
<1>7. \A i \in 1 .. n + 1 : Straight(i, u[i])
  <2>1. Straight(n + 1, g) BY DEF Straight
  <2> QED BY <1>1, <1>2, <2>1 DEF Shape
<1> HIDE DEF n
<1> QED BY <1>1, <1>2, <1>4, <1>5, <1>6, <1>7 DEF Shape, n

(* ------------------------------ steps of a core ------------------------------ *)

\* What a step of core c leaves to the other cores: they may only be asked to yield.
Elsewhere(c) ==
  /\ mask' \in [Cores -> BOOLEAN] /\ nest' \in [Cores -> Nat] /\ mine' \in [Cores -> Nat]
  /\ swi' \in [Cores -> BOOLEAN] /\ asked' \in [Cores -> BOOLEAN] /\ pending' \in [Cores -> BOOLEAN]
  /\ \A d \in Cores \ {c} :
       /\ mask'[d] = mask[d] /\ nest'[d] = nest[d] /\ mine'[d] = mine[d] /\ pending'[d] = pending[d]
       /\ pc'[d] = pc[d] /\ arg'[d] = arg[d]
       /\ depth'[<<d, "TASK">>] = depth[<<d, "TASK">>] /\ depth'[<<d, "ISR">>] = depth[<<d, "ISR">>]
       /\ swi[d] => swi'[d]
       /\ asked'[d] => asked[d] \/ swi'[d]

\* A core that is in a function, and one that is not.
LEMMA TopFacts ==
  ASSUME SmpInv, NEW c \in Cores, Busy(c)
  PROVE  /\ Shape(stack[c]) /\ Len(stack[c]) \in Nat \ {0} /\ FrameOK(Top(c)) /\ Op(c) = OpOf(Top(c))
         /\ TopPlace(Len(stack[c]), Top(c), mask[c], nest[c],
                     depth[<<c, "TASK">>] - mine[c], depth[<<c, "ISR">>])
         /\ TaskFrame(Top(c), mine[c])
         /\ Straight(Len(stack[c]), Top(c))
<1>1. Shape(stack[c]) /\ CoreOK(c) /\ TaskPart(c) BY DEF SmpInv, CoreOK
<1>2. Len(stack[c]) \in Nat \ {0} BY <1>1, EmptySeq DEF Busy, Shape
<1>3. Len(stack[c]) \in 1 .. Len(stack[c]) BY <1>2
<1>4. FrameOK(Top(c)) BY <1>1, <1>3 DEF Shape, Top
<1>5. Op(c) = OpOf(Top(c)) BY DEF Op, OpOf
<1>6. TaskFrame(Top(c), mine[c]) BY <1>1, <1>3 DEF TaskPart, Top
<1>7. Straight(Len(stack[c]), Top(c))
  BY <1>1, <1>3 DEF Shape, Top
<1>8. TopPlace(Len(stack[c]), Top(c), mask[c], nest[c],
               depth[<<c, "TASK">>] - mine[c], depth[<<c, "ISR">>])
  BY <1>1 DEF CoreOK, Place, Holds, Busy, Top
<1> QED BY <1>1, <1>2, <1>4, <1>5, <1>6, <1>7, <1>8

\* A core that is in no function has no lock and no raised threshold.
LEMMA IdleFacts ==
  ASSUME SmpInv, NEW c \in Cores, ~Busy(c)
  PROVE  /\ stack[c] = <<>> /\ ~mask[c] /\ nest[c] = 0
         /\ depth[<<c, "TASK">>] - mine[c] = 0 /\ depth[<<c, "ISR">>] = 0
         /\ Op(c) = "task" /\ pc[c] = "out"
  BY DEF SmpInv, CoreOK, Place, Holds, Busy, LockCall, Op

\* The invariant from its parts: those of the core that moved and the shared ones.
LEMMA Assemble ==
  ASSUME SmpInv, NEW c \in Cores, SpinInv', Elsewhere(c), Suspensions',
         stack' \in [Cores -> Seq(Frames)], \A d \in Cores \ {c} : stack'[d] = stack[d],
         CoreOK(c)', LockCall(c)', TaskPart(c)', Asked(c)'
  PROVE  SmpInv'
<1>1. SmpTypeOK' BY DEF Elsewhere, SmpTypeOK
<1>2. ASSUME NEW d \in Cores, d # c PROVE CoreOK(d)' /\ LockCall(d)' /\ TaskPart(d)' /\ Asked(d)'
  <2>0. CoreOK(d) /\ LockCall(d) /\ TaskPart(d) /\ Asked(d) BY DEF SmpInv
  <2>1. /\ stack'[d] = stack[d] /\ mask'[d] = mask[d] /\ nest'[d] = nest[d] /\ mine'[d] = mine[d]
        /\ pending'[d] = pending[d] /\ pc'[d] = pc[d] /\ arg'[d] = arg[d]
        /\ depth'[<<d, "TASK">>] = depth[<<d, "TASK">>] /\ depth'[<<d, "ISR">>] = depth[<<d, "ISR">>]
        /\ swi[d] => swi'[d]
        /\ asked'[d] => asked[d] \/ swi'[d]
    BY <1>2 DEF Elsewhere
  <2>2. CoreOK(d)' BY <2>0, <2>1 DEF CoreOK, Holds
  <2>3. LockCall(d)' BY <2>0, <2>1 DEF LockCall, Nested, Gets, Rels, Op, Top, Busy
  <2>4. TaskPart(d)' BY <2>0, <2>1 DEF TaskPart
  <2>5. Asked(d)' BY <2>0, <2>1 DEF Asked, Busy, Top
  <2> QED BY <2>2, <2>3, <2>4, <2>5
<1> QED BY <1>1, <1>2 DEF SmpInv

\* Core c goes on with frame g on top, and what it says of the core is so.
GoesTo(c, g) ==
  LET n == Len(stack[c])
  IN /\ stack' = WithTop(c, g) /\ g.fn = Top(c).fn /\ FrameOK(g) /\ Straight(n, g)
     /\ n = 1 \/ mine'[c] = mine[c]
     /\ TaskFrame(g, mine'[c])
     /\ TopPlace(n, g, mask'[c], nest'[c], depth'[<<c, "TASK">>] - mine'[c], depth'[<<c, "ISR">>])
     /\ asked'[c] => \/ swi'[c] \/ At(g, "switch", 3 .. 5)
                     \/ pending'[c] /\ mine'[c] > 0
                     \/ pending'[c] /\ n = 1 /\ Resuming(g)
                     \/ pending'[c] /\ n # 1 /\ Resuming(stack[c][1])

\* A frame that moves to g keeps the invariant if g has what the place calls for.
LEMMA MoveKeeps ==
  ASSUME SmpInv, NEW c \in Cores, Busy(c), NEW g, GoesTo(c, g),
         SpinInv', Elsewhere(c), Suspensions', pc'[c] = "out"
  PROVE  SmpInv'
<1>1. PICK n \in Nat \ {0} : n = Len(stack[c]) BY TopFacts
<1>2. Shape(stack[c]) /\ stack \in [Cores -> Seq(Frames)] BY TopFacts DEF SmpInv, SmpTypeOK
<1>3. stack'[c] = [stack[c] EXCEPT ![Len(stack[c])] = g] /\ \A d \in Cores \ {c} : stack'[d] = stack[d]
  BY <1>2 DEF WithTop, GoesTo
<1>4. /\ Shape(stack'[c]) /\ stack'[c] # <<>> /\ Len(stack'[c]) = n /\ stack'[c][n] = g
      /\ \A i \in 1 .. n - 1 : stack'[c][i] = stack[c][i]
  <2>1. stack[c] # <<>> /\ g.fn = stack[c][Len(stack[c])].fn BY DEF Busy, Top, GoesTo
  <2>2. PICK s : s = stack[c] OBVIOUS
  <2>3. PICK u : u = stack'[c] OBVIOUS
  <2>4. Shape(s) /\ s # <<>> /\ g.fn = s[Len(s)].fn /\ Straight(Len(s), g) /\ FrameOK(g)
    BY <1>2, <2>1, <2>2 DEF GoesTo
  <2>5. /\ u \in Seq(Frames) /\ Len(u) = Len(s) /\ u[Len(s)] = g /\ u # <<>>
        /\ \A i \in 1 .. Len(s) - 1 : u[i] = s[i]
    <3>1. s \in Seq(Frames) /\ g \in Frames /\ Len(s) \in Nat \ {0} BY <1>1, <2>2, <2>4 DEF Shape, FrameOK
    <3>2. u = [s EXCEPT ![Len(s)] = g] BY <1>3, <2>2, <2>3
    <3>3. u \in Seq(Frames) /\ Len(u) = Len(s) BY <3>1, <3>2
    <3>4. u[Len(s)] = g /\ \A i \in 1 .. Len(s) - 1 : u[i] = s[i] BY <3>1, <3>2
    <3>5. u # <<>> BY <3>1, <3>3
    <3> QED BY <3>3, <3>4, <3>5
  <2>6. Shape(u) BY <2>4, <2>5, ShapeMove
  <2> QED BY <1>1, <2>2, <2>3, <2>5, <2>6
<1>5. stack' \in [Cores -> Seq(Frames)]
  <2>1. stack'[c] \in Seq(Frames) BY <1>4 DEF Shape
  <2>2. stack' = [stack EXCEPT ![c] = stack'[c]] BY <1>2 DEF WithTop, GoesTo
  <2> QED BY <1>2, <2>1, <2>2
<1>6. CoreOK(c)' BY <1>1, <1>4 DEF CoreOK, Place, Holds, GoesTo
<1>7. LockCall(c)' BY DEF LockCall
<1>8. TaskPart(c)'
  <2> SUFFICES ASSUME NEW i \in 1 .. n PROVE TaskFrame(stack'[c][i], mine'[c])
    BY <1>4 DEF TaskPart
  <2>1. CASE i = n BY <1>4, <2>1 DEF GoesTo
  <2>2. CASE i \in 1 .. n - 1
    <3>1. stack'[c][i] = stack[c][i] /\ i \in 1 .. Len(stack[c]) /\ n # 1 BY <1>1, <1>4, <2>2
    <3>2. TaskFrame(stack[c][i], mine[c]) BY <3>1 DEF SmpInv, TaskPart
    <3> QED BY <1>1, <3>1, <3>2 DEF GoesTo
  <2> QED BY <1>1, <2>1, <2>2
<1>9. Asked(c)'
  <2>1. Busy(c)' /\ Top(c)' = g BY <1>4 DEF Busy, Top
  <2>2. n # 1 => stack'[c][1] = stack[c][1]
    <3>1. n # 1 => 1 \in 1 .. n - 1 OBVIOUS
    <3> QED BY <1>4, <3>1
  <2> QED BY <1>1, <1>4, <2>1, <2>2 DEF Asked, GoesTo
<1> QED BY <1>3, <1>5, <1>6, <1>7, <1>8, <1>9, Assemble


\* The top frame is removed: a nested critical section gives back to the one around it
\* what that has, anything else leaves the core with nothing.
Ends(c) ==
  LET n == Len(stack[c])
  IN /\ stack' = Popped(c) /\ Last(Top(c)) /\ UNCHANGED <<susp, mine>>
     /\ IF Deep(n, Top(c))
        THEN /\ mask'[c] /\ nest'[c] = n - 1
             /\ depth'[<<c, "TASK">>] - mine[c] = 1 /\ depth'[<<c, "ISR">>] = 1
        ELSE /\ ~mask'[c] /\ nest'[c] = 0
             /\ depth'[<<c, "TASK">>] - mine[c] = 0 /\ depth'[<<c, "ISR">>] = 0
     /\ asked'[c] => asked[c]
     /\ swi[c] \/ Resuming(Top(c)) => swi'[c]
     /\ pending[c] => pending'[c]

\* So does a frame that ends.
LEMMA PopKeeps ==
  ASSUME SmpInv, NEW c \in Cores, Busy(c), Ends(c), SpinInv', Elsewhere(c), pc'[c] = "out"
  PROVE  SmpInv'
<1>1. PICK n \in Nat \ {0} : n = Len(stack[c]) BY TopFacts
<1>2. Shape(stack[c]) /\ stack \in [Cores -> Seq(Frames)] BY TopFacts DEF SmpInv, SmpTypeOK
<1>3. stack'[c] = SubSeq(stack[c], 1, Len(stack[c]) - 1) /\ \A d \in Cores \ {c} : stack'[d] = stack[d]
  BY <1>2 DEF Popped, Ends
<1>4. /\ Shape(stack'[c]) /\ Len(stack'[c]) = n - 1
      /\ n > 1 => stack'[c] # <<>>
      /\ n = 1 => stack'[c] = <<>>
      /\ \A i \in 1 .. n - 1 : stack'[c][i] = stack[c][i]
  <2>1. PICK s : s = stack[c] OBVIOUS
  <2>2. PICK u : u = stack'[c] OBVIOUS
  <2>3. Shape(s) /\ s # <<>> /\ u = SubSeq(s, 1, Len(s) - 1) BY <1>2, <1>3, <2>1, <2>2 DEF Busy
  <2>4. /\ Shape(u) /\ Len(u) = Len(s) - 1 /\ (Len(s) > 1 => u # <<>>)
        /\ (Len(s) = 1 => u = <<>>)
        /\ \A i \in 1 .. Len(s) - 1 : u[i] = s[i]
    BY <2>3, ShapePop
  <2> QED BY <1>1, <2>1, <2>2, <2>4
<1>5. stack' \in [Cores -> Seq(Frames)]
  <2>1. stack'[c] \in Seq(Frames) BY <1>4 DEF Shape
  <2>2. stack' = [stack EXCEPT ![c] = stack'[c]] BY <1>2 DEF Popped, Ends
  <2> QED BY <1>2, <2>1, <2>2
<1>6. CoreOK(c)'
  <2>1. CASE n = 1
    <3>1. ~Deep(Len(stack[c]), Top(c)) BY <1>1, <2>1 DEF Deep
    <3> QED BY <1>4, <2>1, <3>1 DEF CoreOK, Place, Holds, Ends
  <2>2. CASE n # 1
    <3>1. n - 1 \in 1 .. n - 1 /\ n > 1 /\ n - 1 \in Nat BY <2>2
    <3>2. PICK g : g = stack[c][n - 1] OBVIOUS
    <3>3. stack'[c][n - 1] = g BY <1>4, <3>1, <3>2
    <3>4. Covers(n - 1, g, Top(c)) /\ FrameOK(g) /\ FrameOK(Top(c))
      <4>1. Covers(n - 1, stack[c][n - 1], stack[c][(n - 1) + 1]) BY <1>1, <1>2, <3>1 DEF Shape
      <4>2. (n - 1) + 1 = n /\ n \in 1 .. n /\ n - 1 \in 1 .. n BY <3>1
      <4>3. FrameOK(stack[c][n - 1]) /\ FrameOK(stack[c][n]) BY <1>1, <1>2, <4>2 DEF Shape
      <4> QED BY <1>1, <3>2, <4>1, <4>2, <4>3 DEF Top
    <3>5. TopPlace(n - 1, g, mask'[c], nest'[c], depth'[<<c, "TASK">>] - mine'[c], depth'[<<c, "ISR">>])
      <4>1. CASE Deep(n, Top(c))
        <5>1. At(g, "critical", {6}) BY <3>4, <4>1 DEF Covers, Deep, At
        <5>2. NestIn(g) = 1 /\ TaskHeld(g) = 1 /\ IsrHeld(g) = 1 /\ ~Open(g)
          BY <5>1 DEF At, NestIn, TaskHeld, IsrHeld, Open
        <5>3. /\ mask'[c] /\ nest'[c] = n - 1
              /\ depth'[<<c, "TASK">>] - mine'[c] = 1 /\ depth'[<<c, "ISR">>] = 1
          BY <1>1, <4>1 DEF Ends
        <5>4. ~Deep(n - 1, g) => n - 1 = 1 BY <3>1, <5>1 DEF Deep, At
        <5>5. nest'[c] = ((n - 1) - 1) + 1 BY <3>1, <5>3
        <5> QED BY <5>2, <5>3, <5>4, <5>5 DEF TopPlace
      <4>2. CASE ~Deep(n, Top(c))
        <5>1. Top(c).fn # "critical" BY <3>1, <4>2 DEF Deep
        <5>2. Open(g) /\ (g.fn = "critical" => n - 1 = 1) BY <3>4, <5>1 DEF Covers
        <5>3. NestIn(g) = 0 /\ TaskHeld(g) = 0 /\ IsrHeld(g) = 0 BY <3>4, <5>2, AtOthers
        <5>4. ~Deep(n - 1, g) BY <3>1, <5>2 DEF Deep
        <5>5. /\ ~mask'[c] /\ nest'[c] = 0
              /\ depth'[<<c, "TASK">>] - mine'[c] = 0 /\ depth'[<<c, "ISR">>] = 0
          BY <1>1, <4>2 DEF Ends
        <5> QED BY <5>2, <5>3, <5>4, <5>5 DEF TopPlace
      <4> QED BY <4>1, <4>2
    <3> QED BY <1>4, <3>1, <3>3, <3>5 DEF CoreOK, Place, Holds
  <2> QED BY <2>1, <2>2
<1>7. LockCall(c)' BY DEF LockCall
<1>8. TaskPart(c)'
  <2> SUFFICES ASSUME NEW i \in 1 .. n - 1 PROVE TaskFrame(stack'[c][i], mine'[c])
    BY <1>4 DEF TaskPart
  <2>1. stack'[c][i] = stack[c][i] /\ i \in 1 .. Len(stack[c]) BY <1>1, <1>4
  <2>2. TaskFrame(stack[c][i], mine[c]) BY <2>1 DEF SmpInv, TaskPart
  <2> QED BY <2>1, <2>2 DEF Ends
<1>9. Asked(c)'
  <2>1. Asked(c) /\ ~At(Top(c), "switch", 3 .. 5)
    <3>1. Last(Top(c)) BY DEF Ends
    <3> QED BY <3>1 DEF SmpInv, Last, At
  <2>2. n = 1 => stack[c][1] = Top(c) BY <1>1 DEF Top
  <2>3. n # 1 => Busy(c)' /\ stack'[c][1] = stack[c][1]
    <3>1. n # 1 => 1 \in 1 .. n - 1 /\ n > 1 OBVIOUS
    <3> QED BY <1>4, <3>1 DEF Busy
  <2> QED BY <2>1, <2>2, <2>3 DEF Asked, Ends
<1>10. Suspensions' BY DEF SmpInv, Suspensions, Ends
<1> QED BY <1>3, <1>5, <1>6, <1>7, <1>8, <1>9, <1>10, Assemble

\* A function is called, or an interrupt comes in: nothing else changes.
LEMMA PushKeeps ==
  ASSUME SmpInv, NEW c \in Cores, NEW fn \in {"critical", "suspend", "resume", "isr", "switch"},
         Push(c, fn), UNCHANGED <<lockVars, mask, nest, swi, kernelVars>>,
         pc[c] = "out", TaskFrame(Frame(fn), mine[c]),
         Busy(c) => /\ Covers(Len(stack[c]), Top(c), Frame(fn))
                    /\ (fn = "critical" <=> ~Open(Top(c)))
  PROVE  SmpInv'
<1>1. PICK n \in Nat : n = Len(stack[c]) BY DEF SmpInv, CoreOK, Shape
<1>2. Shape(stack[c]) /\ stack \in [Cores -> Seq(Frames)] BY DEF SmpInv, SmpTypeOK, CoreOK
<1>3. stack'[c] = Append(stack[c], Frame(fn)) /\ \A d \in Cores \ {c} : stack'[d] = stack[d]
  BY <1>2 DEF Push
<1>4. PICK g : g = Frame(fn) OBVIOUS
<1>5. g.fn = fn /\ g.pos = 1 /\ ~g.yield /\ FrameOK(g) /\ Open(g) /\ OpOf(g) # "check"
  <2>1. g \in Frames /\ g.fn = fn /\ g.pos = 1 /\ g.yield = FALSE BY <1>4 DEF Frame, Frames
  <2>2. FrameOK(g) BY <2>1 DEF FrameOK, At
  <2>3. Open(g) BY <2>1 DEF Open, At
  <2> QED BY <2>1, <2>2, <2>3, AtOthers
<1>6. /\ Shape(stack'[c]) /\ stack'[c] # <<>> /\ Len(stack'[c]) = n + 1 /\ stack'[c][n + 1] = g
      /\ \A i \in 1 .. n : stack'[c][i] = stack[c][i]
  <2>1. PICK s : s = stack[c] OBVIOUS
  <2>2. PICK u : u = stack'[c] OBVIOUS
  <2>3. Shape(s) /\ u = Append(s, g) /\ (s # <<>> => Covers(Len(s), s[Len(s)], g))
    BY <1>2, <1>3, <1>4, <2>1, <2>2 DEF Busy, Top
  <2>4. s \in Seq(Frames) /\ g \in Frames BY <1>5, <2>3 DEF Shape, FrameOK
  <2>5. /\ u \in Seq(Frames) /\ u # <<>> /\ Len(u) = Len(s) + 1 /\ u[Len(s) + 1] = g
        /\ \A i \in 1 .. Len(s) : u[i] = s[i]
    BY <2>3, <2>4, AppendProperties
  <2>6. Shape(u) BY <1>5, <2>3, <2>5, ShapePush
  <2> QED BY <1>1, <2>1, <2>2, <2>5, <2>6
<1>7. stack' \in [Cores -> Seq(Frames)]
  <2>1. stack'[c] \in Seq(Frames) BY <1>6 DEF Shape
  <2>2. stack' = [stack EXCEPT ![c] = stack'[c]] BY <1>2 DEF Push
  <2> QED BY <1>2, <2>1, <2>2
<1>8. CoreOK(c)'
  <2>1. TopPlace(n + 1, g, mask[c], nest[c], depth[<<c, "TASK">>] - mine[c], depth[<<c, "ISR">>])
    <3>0. NestIn(g) = 0 /\ TaskHeld(g) = 0 /\ IsrHeld(g) = 0 BY <1>5, AtOthers
    <3>1. CASE ~Busy(c)
      <4>1. n = 0 BY <1>1, <3>1 DEF Busy
      <4>2. ~Deep(n + 1, g) BY <4>1 DEF Deep
      <4> QED BY <1>5, <3>0, <3>1, <4>2, IdleFacts DEF TopPlace
    <3>2. CASE Busy(c) /\ fn # "critical"
      <4>1. Open(Top(c)) /\ Covers(n, Top(c), g) BY <1>1, <1>4, <3>2
      <4>2. /\ n \in Nat \ {0} /\ FrameOK(Top(c))
            /\ TopPlace(n, Top(c), mask[c], nest[c], depth[<<c, "TASK">>] - mine[c], depth[<<c, "ISR">>])
        BY <1>1, <3>2, TopFacts
      <4>3. NestIn(Top(c)) = 0 /\ TaskHeld(Top(c)) = 0 /\ IsrHeld(Top(c)) = 0 BY <4>1, <4>2, AtOthers
      <4>4. ~Deep(n, Top(c)) BY <1>5, <3>2, <4>1, <4>2 DEF Covers, Deep
      <4>5. ~Deep(n + 1, g) BY <1>5, <3>2 DEF Deep
      <4> QED BY <1>5, <3>0, <4>1, <4>2, <4>3, <4>4, <4>5 DEF TopPlace
    <3>3. CASE Busy(c) /\ fn = "critical"
      <4>1. At(Top(c), "critical", {6}) BY <1>4, <1>5, <3>3 DEF Covers
      <4>2. /\ n \in Nat \ {0}
            /\ TopPlace(n, Top(c), mask[c], nest[c], depth[<<c, "TASK">>] - mine[c], depth[<<c, "ISR">>])
        BY <1>1, <3>3, TopFacts
      <4>3. NestIn(Top(c)) = 1 /\ TaskHeld(Top(c)) = 1 /\ IsrHeld(Top(c)) = 1 /\ ~Open(Top(c))
        BY <4>1 DEF At, NestIn, TaskHeld, IsrHeld, Open
      <4>4. /\ mask[c] /\ nest[c] = n /\ depth[<<c, "TASK">>] - mine[c] = 1 /\ depth[<<c, "ISR">>] = 1
        <5>1. ~Deep(n, Top(c)) => n = 1 BY <4>1, <4>2 DEF Deep, At
        <5>2. (n - 1) + 1 = n BY <4>2
        <5> QED BY <4>2, <4>3, <5>1, <5>2 DEF TopPlace
      <4>5. Deep(n + 1, g) /\ ((n + 1) - 1) + 0 = n BY <1>5, <3>3, <4>2 DEF Deep
      <4> QED BY <3>0, <4>4, <4>5 DEF TopPlace
    <3> QED BY <3>1, <3>2, <3>3
  <2> QED BY <1>6, <2>1 DEF CoreOK, Place, Holds, kernelVars, lockVars
<1>9. LockCall(c)' BY DEF LockCall, lockVars
<1>10. TaskPart(c)'
  <2> SUFFICES ASSUME NEW i \in 1 .. n + 1 PROVE TaskFrame(stack'[c][i], mine[c])
    BY <1>6 DEF TaskPart, kernelVars
  <2>1. CASE i = n + 1 BY <1>4, <1>6, <2>1
  <2>2. CASE i \in 1 .. n
    <3>1. stack'[c][i] = stack[c][i] /\ i \in 1 .. Len(stack[c]) BY <1>1, <1>6, <2>2
    <3> QED BY <3>1 DEF SmpInv, TaskPart
  <2> QED BY <2>1, <2>2
<1>11. Asked(c)'
  <2>1. Asked(c) BY DEF SmpInv
  <2>2. Busy(c) => ~At(Top(c), "switch", 3 .. 5) /\ stack'[c][1] = stack[c][1]
    <3>0. Busy(c) => n # 0 BY <1>1, TopFacts
    <3>1. Busy(c) => 1 \in 1 .. n BY <3>0
    <3>2. Busy(c) => Open(Top(c)) \/ Top(c).fn = "critical" BY DEF Covers, At
    <3> QED BY <1>6, <3>1, <3>2 DEF Open, At
  <2> QED BY <1>6, <2>1, <2>2 DEF Asked, Busy, kernelVars
<1>12. Suspensions' BY DEF SmpInv, Suspensions, kernelVars
<1>13. SpinInv' BY SpinInvNext DEF SmpInv
<1>14. Elsewhere(c) BY DEF SmpInv, SmpTypeOK, Elsewhere, lockVars, kernelVars
<1> QED BY <1>3, <1>7, <1>8, <1>9, <1>10, <1>11, <1>12, <1>13, <1>14, Assemble


\* A core outside the steps that take and give locks is not in vPortRecursiveLock.
LEMMA NotInLock ==
  ASSUME SmpInv, NEW c \in Cores, Op(c) \notin {"getTASK", "getISR", "relTASK", "relISR"}
  PROVE  pc[c] = "out"
<1>1. LockCall(c) /\ pc[c] \in Taking \cup Giving \cup {"out"} BY DEF SmpInv, SpinInv, SpinTypeOK
<1>2. Gets(c) = {} /\ Rels(c) = {} BY DEF Gets, Rels
<1> QED BY <1>1, <1>2 DEF LockCall

\* A core that does a step is at it, and outside of vPortRecursiveLock.
LEMMA DoingFacts ==
  ASSUME SmpInv, NEW c \in Cores, NEW op, op # "task", Doing(c, op)
  PROVE  Busy(c) /\ OpOf(Top(c)) = op /\ (op \notin {"getTASK", "getISR", "relTASK", "relISR"} => pc[c] = "out")
<1>1. Busy(c) /\ Op(c) = op BY DEF Doing, Op
<1> QED BY <1>1, TopFacts, NotInLock

\* The step of the top frame is done, with all that does not touch the kernel's data.
Advances(c) ==
  LET n == Len(stack[c])
      f == Top(c)
  IN /\ IF Last(f) THEN stack' = Popped(c) ELSE stack' = WithTop(c, On(f))
     /\ OpOf(f) \notin {"again", "leave", "switch"} /\ UNCHANGED <<susp, mine>>
     /\ asked'[c] => asked[c]
     /\ pending[c] => pending'[c]
     /\ swi[c] => OpOf(f) = "clear" \/ swi'[c]
     /\ OpOf(f) = "yield" => swi'[c]
     /\ ~Last(f) =>
          TopPlace(n, On(f), mask'[c], nest'[c], depth'[<<c, "TASK">>] - mine[c], depth'[<<c, "ISR">>])
     /\ Last(f) =>
          IF Deep(n, f)
          THEN /\ mask'[c] /\ nest'[c] = n - 1
               /\ depth'[<<c, "TASK">>] - mine[c] = 1 /\ depth'[<<c, "ISR">>] = 1
          ELSE /\ ~mask'[c] /\ nest'[c] = 0
               /\ depth'[<<c, "TASK">>] - mine[c] = 0 /\ depth'[<<c, "ISR">>] = 0

\* A step that advances keeps the invariant if the locks and counts follow the place.
LEMMA AdvanceKeeps ==
  ASSUME SmpInv, NEW c \in Cores, Busy(c), Advances(c), SpinInv', Elsewhere(c), pc'[c] = "out"
  PROVE  SmpInv'
<1>1. PICK n \in Nat \ {0} : n = Len(stack[c]) BY TopFacts
<1>2. PICK f : f = Top(c) OBVIOUS
<1>3. FrameOK(f) /\ TaskFrame(f, mine[c]) /\ Straight(n, f) /\ mine[c] \in Nat
  BY <1>1, <1>2, TopFacts DEF SmpInv, SmpTypeOK
<1>4. IF Last(f) THEN stack' = Popped(c) ELSE stack' = WithTop(c, On(f))
  BY <1>2 DEF Advances
<1>5. CASE Last(f)
  <2>1. OpOf(f) # "clear" BY <1>3, <1>5, AtWork
  <2>2. Resuming(f) => OpOf(f) = "yield"
    <3>1. Resuming(f) => At(f, "resume", {11}) BY <1>5 DEF Resuming, Last, At
    <3>2. At(f, "resume", {11}) => OpOf(f) = "yield" BY DEF At, OpOf, Prog, xTaskResumeAll
    <3> QED BY <3>1, <3>2
  <2>3. Ends(c) BY <1>2, <1>4, <1>5, <2>1, <2>2 DEF Ends, Advances
  <2> QED BY <2>3, PopKeeps
<1>6. CASE ~Last(f)
  <2>1. Along(f, On(f)) BY <1>2, <1>3, <1>6, OnAlong DEF Advances
  <2>2. PICK g : g = On(f) OBVIOUS
  <2>3. g.fn = f.fn /\ FrameOK(g) /\ TaskFrame(g, mine[c]) BY <1>3, <2>1, <2>2 DEF Along
  <2>4. Straight(n, g)
    <3>1. Deep(n, g) => At(f, "critical", 1 .. 10) /\ ~f.yield BY <1>3, <2>3 DEF Straight, Deep, At
    <3> QED BY <2>1, <2>2, <3>1 DEF Along, Straight
  <2>5. At(f, "switch", 3 .. 5) => At(g, "switch", 3 .. 5) BY <2>1, <2>2 DEF Along
  <2>6. Resuming(f) => Resuming(g) BY <2>1, <2>2 DEF Along
  <2>7. OpOf(f) = "clear" => At(g, "switch", 3 .. 5)
    <3>1. OpOf(f) = "clear" => At(f, "switch", {2}) BY <1>3, AtWork
    <3>2. At(f, "switch", {2}) => f.pos < 20 /\ f.pos = 2 /\ f.fn = "switch" BY DEF At
    <3>3. f \in Frames BY <1>3 DEF FrameOK
    <3>4. At(f, "switch", {2}) => g.pos = 2 + 1 BY <2>2, <3>2, <3>3, FrameOn
    <3> QED BY <2>3, <3>1, <3>2, <3>4 DEF At
  <2>8. Asked(c) /\ (n = 1 => stack[c][1] = f) BY <1>1, <1>2 DEF SmpInv, Top
  <2>9. asked'[c] => \/ swi'[c] \/ At(g, "switch", 3 .. 5)
                     \/ pending'[c] /\ mine'[c] > 0
                     \/ pending'[c] /\ n = 1 /\ Resuming(g)
                     \/ pending'[c] /\ n # 1 /\ Resuming(stack[c][1])
    BY <1>2, <2>5, <2>6, <2>7, <2>8 DEF Asked, Advances
  <2>10. /\ UNCHANGED <<susp, mine>>
         /\ TopPlace(n, g, mask'[c], nest'[c], depth'[<<c, "TASK">>] - mine'[c], depth'[<<c, "ISR">>])
    BY <1>1, <1>2, <1>6, <2>2 DEF Advances
  <2>11. stack' = WithTop(c, g) BY <1>4, <1>6, <2>2
  <2>12. GoesTo(c, g)
    BY <1>1, <1>2, <2>3, <2>4, <2>9, <2>10, <2>11 DEF GoesTo
  <2>13. Suspensions' BY <2>10 DEF SmpInv, Suspensions
  <2> QED BY <2>12, <2>13, MoveKeeps
<1> QED BY <1>5, <1>6

\* What a step of c does to its own part of the state only.
LEMMA OwnStep ==
  ASSUME SmpInv, NEW c \in Cores, UNCHANGED <<lockVars, kernelVars>>,
         UNCHANGED mask \/ \E x \in BOOLEAN : mask' = [mask EXCEPT ![c] = x],
         UNCHANGED nest \/ \E x \in Nat : nest' = [nest EXCEPT ![c] = x],
         UNCHANGED swi \/ \E x \in BOOLEAN : swi' = [swi EXCEPT ![c] = x]
  PROVE  Elsewhere(c) /\ SpinInv'
<1>1. SpinInv' BY SpinInvNext DEF SmpInv
<1>2. Elsewhere(c) BY DEF SmpInv, SmpTypeOK, Elsewhere, lockVars, kernelVars
<1> QED BY <1>1, <1>2

\* Moving on does not leave the function.
LEMMA OnDeep ==
  ASSUME NEW f, FrameOK(f), ~Last(f), OpOf(f) # "again", NEW n
  PROVE  (Deep(n, On(f)) <=> Deep(n, f)) /\ On(f).fn = f.fn
<1>1. f \in Frames BY DEF FrameOK
<1>2. f.pos < 20
  BY DEF OpOf, Last, Prog, vTaskEnterExitCritical, vTaskSuspendAll, xTaskResumeAll,
         InterruptHandler, xPortTaskSwitch, FrameOK, At, Frames
<1> QED BY <1>1, <1>2, FrameOn DEF Deep


(* -------------------------------- the actions -------------------------------- *)

\* portDISABLE_INTERRUPTS and portSET_INTERRUPT_MASK_FROM_ISR.
LEMMA MaskKeeps == ASSUME SmpInv, NEW c \in Cores, Mask(c) PROVE SmpInv'
<1>1. PICK op \in {"mask", "save"} : Doing(c, op) BY DEF Mask
<1>2. Busy(c) /\ OpOf(Top(c)) = op /\ pc[c] = "out" BY <1>1, DoingFacts
<1>3. PICK f : f = Top(c) OBVIOUS
<1>4. PICK n \in Nat \ {0} : n = Len(stack[c]) BY <1>2, TopFacts
<1>5. FrameOK(f) /\ TopPlace(n, f, mask[c], nest[c], depth[<<c, "TASK">>] - mine[c], depth[<<c, "ISR">>])
  BY <1>2, <1>3, <1>4, TopFacts
<1>6. /\ ~Last(f) /\ Open(f) /\ ~Open(On(f)) /\ NestIn(On(f)) = 0 /\ NestIn(f) = 0
      /\ TaskHeld(On(f)) = 0 /\ TaskHeld(f) = 0 /\ IsrHeld(On(f)) = 0 /\ IsrHeld(f) = 0
  BY <1>2, <1>3, <1>5, AtMask
<1>7. stack' = WithTop(c, On(f))
  <2>1. CASE op = "mask"
    <3>1. Advance(c) BY <1>2, <2>1, DoingFacts DEF Mask, Doing, Op, OpOf
    <3> QED BY <1>2, <1>3, <1>5, <1>6, <2>1, <3>1, NextStep
  <2>2. CASE op = "save"
    <3>1. stack' = WithTop(c, [f EXCEPT !.pos = @ + 1, !.saved = mask[c]])
      BY <1>2, <1>3, <2>2 DEF Mask, Doing, Op, OpOf
    <3>2. f.fn # "critical" BY <1>2, <1>3, <1>5, <2>2
      DEF OpOf, Prog, vTaskEnterExitCritical, FrameOK, At, Frames
    <3>3. mask[c] = FALSE BY <1>5, <1>6, <3>2 DEF TopPlace, Deep, SmpInv, SmpTypeOK
    <3>4. [f EXCEPT !.pos = @ + 1, !.saved = FALSE] = On(f) BY <1>5 DEF FrameOK, Frames, On
    <3> QED BY <3>1, <3>3, <3>4
  <2> QED BY <2>1, <2>2
<1>8. mask' = [mask EXCEPT ![c] = TRUE] /\ UNCHANGED <<lockVars, nest, swi, kernelVars>> /\ mask'[c] = TRUE
  BY DEF Mask, SmpInv, SmpTypeOK
<1>9. TopPlace(n, On(f), mask'[c], nest'[c], depth'[<<c, "TASK">>] - mine[c], depth'[<<c, "ISR">>])
  <2>1. Deep(n, On(f)) <=> Deep(n, f) BY <1>2, <1>3, <1>5, <1>6, OnDeep
  <2> QED BY <1>5, <1>6, <1>8, <2>1 DEF TopPlace, lockVars
<1>10. Advances(c) BY <1>2, <1>3, <1>4, <1>6, <1>7, <1>8, <1>9 DEF Advances, kernelVars
<1>11. Elsewhere(c) /\ SpinInv' BY <1>8, OwnStep
<1> QED BY <1>2, <1>8, <1>10, <1>11, AdvanceKeeps DEF lockVars

\* portENABLE_INTERRUPTS and portCLEAR_INTERRUPT_MASK_FROM_ISR.
LEMMA UnmaskKeeps == ASSUME SmpInv, NEW c \in Cores, Unmask(c) PROVE SmpInv'
<1>1. PICK op \in {"unmask", "restore"} : Doing(c, op) BY DEF Unmask
<1>2. Busy(c) /\ OpOf(Top(c)) = op /\ pc[c] = "out" BY <1>1, DoingFacts
<1>3. PICK f : f = Top(c) OBVIOUS
<1>4. PICK n \in Nat \ {0} : n = Len(stack[c]) BY <1>2, TopFacts
<1>5. FrameOK(f) /\ TopPlace(n, f, mask[c], nest[c], depth[<<c, "TASK">>] - mine[c], depth[<<c, "ISR">>])
  BY <1>2, <1>3, <1>4, TopFacts
<1>6. /\ ~Open(f) /\ NestIn(f) = 0 /\ TaskHeld(f) = 0 /\ IsrHeld(f) = 0
      /\ OpOf(f) = "restore" => f.fn # "critical"
      /\ ~Last(f) => Open(On(f)) /\ NestIn(On(f)) = 0 /\ TaskHeld(On(f)) = 0 /\ IsrHeld(On(f)) = 0
  BY <1>2, <1>3, <1>5, AtUnmask
<1>7. IF Last(f) THEN stack' = Popped(c) ELSE stack' = WithTop(c, On(f))
  BY <1>2, <1>3, <1>5, NextStep DEF Unmask
<1>8. nest[c] \in Nat /\ mask \in [Cores -> BOOLEAN] BY DEF SmpInv, SmpTypeOK
<1>9. /\ mask' = [mask EXCEPT ![c] = Deep(n, f)]
      /\ UNCHANGED <<lockVars, nest, swi, kernelVars>>
  <2>1. CASE op = "unmask"
    <3>1. mask' = [mask EXCEPT ![c] = nest[c] > 0] BY <1>2, <1>3, <2>1 DEF Unmask, Doing, Op, OpOf
    <3>2. (nest[c] > 0) = Deep(n, f) BY <1>5, <1>6, <1>8 DEF TopPlace, Deep
    <3> QED BY <3>1, <3>2 DEF Unmask
  <2>2. CASE op = "restore"
    <3>1. mask' = [mask EXCEPT ![c] = f.saved] BY <1>2, <1>3, <2>2 DEF Unmask, Doing, Op, OpOf
    <3>2. f.saved = FALSE BY <1>5 DEF FrameOK, Frames
    <3>3. ~Deep(n, f) BY <1>2, <1>3, <1>6, <2>2 DEF Deep
    <3>4. Deep(n, f) = FALSE BY <3>3 DEF Deep
    <3>5. mask' = [mask EXCEPT ![c] = Deep(n, f)] BY <3>1, <3>2, <3>4
    <3> QED BY <3>5 DEF Unmask
  <2> QED BY <2>1, <2>2
<1>10. mask'[c] = Deep(n, f) BY <1>8, <1>9
<1>11. Deep(n, f) => /\ nest[c] = n - 1 /\ depth[<<c, "TASK">>] - mine[c] = 1 /\ depth[<<c, "ISR">>] = 1
  BY <1>5, <1>6 DEF TopPlace
<1>12. ~Deep(n, f) => /\ nest[c] = 0 /\ depth[<<c, "TASK">>] - mine[c] = 0 /\ depth[<<c, "ISR">>] = 0
  BY <1>5, <1>6 DEF TopPlace
<1>13. ~Last(f) => ~Deep(n, f)
  <2>1. ASSUME ~Last(f), Deep(n, f) PROVE FALSE
    <3>1. f.fn = "critical" /\ f.pos \in 1 .. 10 /\ ~f.yield
      BY <1>2, <1>3, <1>4, <2>1, TopFacts DEF Deep, Straight
    <3>2. f.pos = 10 BY <1>2, <1>3, <3>1 DEF OpOf, Prog, vTaskEnterExitCritical
    <3> QED BY <2>1, <3>1, <3>2 DEF Last, At
  <2> QED BY <2>1
<1>14. ~Last(f) => TopPlace(n, On(f), mask'[c], nest'[c], depth'[<<c, "TASK">>] - mine[c], depth'[<<c, "ISR">>])
  <2>1. ~Last(f) => (Deep(n, On(f)) <=> Deep(n, f)) BY <1>2, <1>3, <1>5, OnDeep
  <2> QED BY <1>6, <1>9, <1>10, <1>12, <1>13, <2>1 DEF TopPlace, lockVars
<1>15. Advances(c)
  BY <1>2, <1>3, <1>4, <1>7, <1>9, <1>10, <1>11, <1>12, <1>14 DEF Advances, kernelVars, lockVars
<1>16. Elsewhere(c) /\ SpinInv'
  <2>1. Deep(n, f) \in BOOLEAN BY DEF Deep
  <2> QED BY <1>9, <2>1, OwnStep
<1> QED BY <1>2, <1>9, <1>15, <1>16, AdvanceKeeps DEF lockVars


\* portINCREMENT_CRITICAL_NESTING_COUNT.
LEMMA EnterKeeps == ASSUME SmpInv, NEW c \in Cores, Enter(c) PROVE SmpInv'
<1>1. Busy(c) /\ OpOf(Top(c)) = "enter" /\ pc[c] = "out" BY DoingFacts DEF Enter
<1>2. PICK f : f = Top(c) OBVIOUS
<1>3. PICK n \in Nat \ {0} : n = Len(stack[c]) BY <1>1, TopFacts
<1>4. FrameOK(f) /\ TopPlace(n, f, mask[c], nest[c], depth[<<c, "TASK">>] - mine[c], depth[<<c, "ISR">>])
  BY <1>1, <1>2, <1>3, TopFacts
<1>5. /\ ~Last(f) /\ ~Open(f) /\ ~Open(On(f)) /\ NestIn(f) = 0 /\ NestIn(On(f)) = 1
      /\ TaskHeld(f) = TaskHeld(On(f)) /\ IsrHeld(f) = IsrHeld(On(f))
  BY <1>1, <1>2, <1>4, AtEnter
<1>6. stack' = WithTop(c, On(f)) BY <1>1, <1>2, <1>4, <1>5, NextStep DEF Enter
<1>7. /\ nest' = [nest EXCEPT ![c] = nest[c] + 1] /\ nest'[c] = nest[c] + 1 /\ nest[c] + 1 \in Nat
      /\ nest[c] \in Nat /\ UNCHANGED <<lockVars, mask, swi, kernelVars>>
  BY DEF Enter, SmpInv, SmpTypeOK
<1>8. TopPlace(n, On(f), mask'[c], nest'[c], depth'[<<c, "TASK">>] - mine[c], depth'[<<c, "ISR">>])
  <2>1. Deep(n, On(f)) <=> Deep(n, f) BY <1>1, <1>2, <1>4, <1>5, OnDeep
  <2>2. Deep(n, f) => nest'[c] = (n - 1) + 1 BY <1>4, <1>5, <1>7 DEF TopPlace
  <2>3. ~Deep(n, f) => nest'[c] = 1 BY <1>4, <1>5, <1>7 DEF TopPlace
  <2> QED BY <1>4, <1>5, <1>7, <2>1, <2>2, <2>3 DEF TopPlace, lockVars
<1>9. Advances(c) BY <1>1, <1>2, <1>3, <1>5, <1>6, <1>7, <1>8 DEF Advances, kernelVars
<1>10. Elsewhere(c) /\ SpinInv' BY <1>7, OwnStep
<1> QED BY <1>1, <1>7, <1>9, <1>10, AdvanceKeeps DEF lockVars

\* The end of a critical section: xYieldPendings is looked at by the outermost one only.
LEMMA LeaveKeeps == ASSUME SmpInv, NEW c \in Cores, Leave(c) PROVE SmpInv'
<1>1. Busy(c) /\ OpOf(Top(c)) = "leave" /\ pc[c] = "out" BY DoingFacts DEF Leave
<1>2. PICK f : f = Top(c) OBVIOUS
<1>3. PICK n \in Nat \ {0} : n = Len(stack[c]) BY <1>1, TopFacts
<1>4. /\ FrameOK(f) /\ TaskFrame(f, mine[c]) /\ f \in Frames
      /\ TopPlace(n, f, mask[c], nest[c], depth[<<c, "TASK">>] - mine[c], depth[<<c, "ISR">>])
  BY <1>1, <1>2, <1>3, TopFacts DEF FrameOK
<1>5. At(f, "critical", {7}) \/ At(f, "resume", {7}) \/ At(f, "isr", {5})
  BY <1>1, <1>2, <1>4, AtOthers
<1>6. PICK g : g = [f EXCEPT !.pos = @ + 1, !.yield = nest[c] = 1 /\ pending[c]] OBVIOUS
<1>7. /\ nest' = [nest EXCEPT ![c] = nest[c] - 1] /\ stack' = WithTop(c, g)
      /\ UNCHANGED <<lockVars, mask, swi, kernelVars>>
  BY <1>2, <1>6 DEF Leave
<1>8. nest[c] \in Nat /\ pending[c] \in BOOLEAN /\ mine[c] \in Nat BY DEF SmpInv, SmpTypeOK
<1>9. f.pos \in {5, 7} BY <1>5 DEF At
<1>10. g.fn = f.fn /\ g.pos = f.pos + 1 /\ g.yield = (nest[c] = 1 /\ pending[c]) /\ g.saved = f.saved
  BY <1>4, <1>6 DEF Frames
<1>11. g \in Frames
  <2>1. f.pos + 1 \in 1 .. 20 BY <1>9
  <2>2. (nest[c] = 1 /\ pending[c]) \in BOOLEAN OBVIOUS
  <2> QED BY <1>4, <1>6, <2>1, <2>2 DEF Frames
<1>12. At(g, "critical", {8}) \/ At(g, "resume", {8}) \/ At(g, "isr", {6})
  BY <1>5, <1>9, <1>10 DEF At
<1>13. FrameOK(g) BY <1>11, <1>12 DEF FrameOK, At
<1>14. /\ NestIn(f) = 1 /\ NestIn(g) = 0 /\ TaskHeld(f) = TaskHeld(g) /\ IsrHeld(f) = IsrHeld(g)
       /\ ~Open(f) /\ ~Open(g)
  BY <1>5, <1>10, <1>12 DEF At, NestIn, TaskHeld, IsrHeld, Open
<1>15. Deep(n, g) <=> Deep(n, f) BY <1>10 DEF Deep
<1>16. /\ Deep(n, f) => nest[c] = n /\ nest[c] > 1
       /\ ~Deep(n, f) => nest[c] = 1
  <2>1. Deep(n, f) => nest[c] = (n - 1) + 1 /\ n > 1 BY <1>4, <1>14 DEF TopPlace, Deep
  <2>2. (n - 1) + 1 = n OBVIOUS
  <2> QED BY <1>4, <1>14, <2>1, <2>2 DEF TopPlace
<1>17. nest[c] - 1 \in Nat /\ nest'[c] = nest[c] - 1 BY <1>7, <1>8, <1>16 DEF SmpInv, SmpTypeOK
<1>18. TopPlace(n, g, mask'[c], nest'[c], depth'[<<c, "TASK">>] - mine'[c], depth'[<<c, "ISR">>])
  <2>1. Deep(n, g) => nest'[c] = (n - 1) + 0 BY <1>15, <1>16, <1>17
  <2>2. ~Deep(n, g) => nest'[c] = 0 BY <1>15, <1>16, <1>17
  <2> QED BY <1>4, <1>7, <1>14, <1>15, <2>1, <2>2 DEF TopPlace, lockVars, kernelVars
<1>19. Straight(n, g)
  <2>1. Deep(n, g) => nest[c] # 1 BY <1>8, <1>15, <1>16
  <2>2. Deep(n, g) => ~g.yield BY <1>10, <2>1
  <2>3. g.pos \in 1 .. 10 BY <1>12 DEF At
  <2> QED BY <2>2, <2>3 DEF Straight
<1>20. TaskFrame(g, mine'[c]) BY <1>12 DEF TaskFrame, At
<1>21. asked'[c] => \/ swi'[c] \/ At(g, "switch", 3 .. 5)
                    \/ pending'[c] /\ mine'[c] > 0
                    \/ pending'[c] /\ n = 1 /\ Resuming(g)
                    \/ pending'[c] /\ n # 1 /\ Resuming(stack[c][1])
  <2>1. Asked(c) /\ (n = 1 => stack[c][1] = f) BY <1>2, <1>3 DEF SmpInv, Top
  <2>2. ~At(f, "switch", 3 .. 5) BY <1>5 DEF At
  <2>3. Resuming(f) /\ n = 1 /\ pending[c] => Resuming(g)
    <3>1. n = 1 => ~Deep(n, f) BY DEF Deep
    <3>2. n = 1 /\ pending[c] => g.yield BY <1>10, <1>16, <3>1
    <3> QED BY <1>10, <1>12, <3>2 DEF Resuming, At
  <2> QED BY <1>2, <1>7, <2>1, <2>2, <2>3 DEF Asked, kernelVars
<1>22. GoesTo(c, g)
  BY <1>2, <1>3, <1>7, <1>10, <1>13, <1>18, <1>19, <1>20, <1>21 DEF GoesTo, kernelVars
<1>23. Elsewhere(c) /\ SpinInv' BY <1>7, <1>17, OwnStep
<1>24. Suspensions' BY <1>7 DEF SmpInv, Suspensions, kernelVars
<1> QED BY <1>1, <1>7, <1>22, <1>23, <1>24, MoveKeeps DEF lockVars


\* prvCheckForRunStateChange leaves for its loop only when the scheduler runs.
LEMMA CheckKeeps == ASSUME SmpInv, NEW c \in Cores, Check(c) PROVE SmpInv'
<1>1. Busy(c) /\ OpOf(Top(c)) = "check" /\ pc[c] = "out" BY DoingFacts DEF Check
<1>2. PICK f : f = Top(c) OBVIOUS
<1>3. PICK n \in Nat \ {0} : n = Len(stack[c]) BY <1>1, TopFacts
<1>4. /\ FrameOK(f) /\ f \in Frames
      /\ TopPlace(n, f, mask[c], nest[c], depth[<<c, "TASK">>] - mine[c], depth[<<c, "ISR">>])
  BY <1>1, <1>2, <1>3, TopFacts DEF FrameOK
<1>5. /\ ~Last(f) /\ ~Open(f) /\ ~Open(On(f)) /\ NestIn(f) = NestIn(On(f))
      /\ TaskHeld(f) = TaskHeld(On(f)) /\ IsrHeld(f) = IsrHeld(On(f))
      /\ At(f, "critical", {5}) \/ At(f, "suspend", {3})
  BY <1>1, <1>2, <1>4, AtWork
<1>6. UNCHANGED <<lockVars, mask, nest, swi, kernelVars>> BY DEF Check
<1>7. Elsewhere(c) /\ SpinInv' BY <1>6, OwnStep
<1>8. CASE ~(asked[c] /\ susp = 0 /\ nest[c] <= 1)
  <2>1. Advance(c) BY <1>8 DEF Check
  <2>2. stack' = WithTop(c, On(f)) BY <1>1, <1>2, <1>4, <1>5, <2>1, NextStep
  <2>3. TopPlace(n, On(f), mask'[c], nest'[c], depth'[<<c, "TASK">>] - mine[c], depth'[<<c, "ISR">>])
    <3>1. Deep(n, On(f)) <=> Deep(n, f) BY <1>1, <1>2, <1>4, <1>5, OnDeep
    <3> QED BY <1>4, <1>5, <1>6, <3>1 DEF TopPlace, lockVars
  <2>4. Advances(c) BY <1>1, <1>2, <1>3, <1>5, <1>6, <2>2, <2>3 DEF Advances, kernelVars
  <2> QED BY <1>1, <1>6, <1>7, <2>4, AdvanceKeeps DEF lockVars
<1>9. CASE asked[c] /\ susp = 0 /\ nest[c] <= 1
  <2>1. PICK g : g = [f EXCEPT !.pos = EndOf(f.fn) + 1] OBVIOUS
  <2>2. stack' = WithTop(c, g) BY <1>2, <1>9, <2>1 DEF Check, AdvanceTo
  <2>3. EndOf(f.fn) + 1 = IF f.fn = "critical" THEN 13 ELSE 9
    BY <1>5, LoopPlaces DEF At
  <2>4. g.fn = f.fn /\ g.pos = EndOf(f.fn) + 1 /\ g.yield = f.yield BY <1>4, <2>1 DEF Frames
  <2>5. g \in Frames
    <3>1. EndOf(f.fn) + 1 \in 1 .. 20 BY <2>3
    <3> QED BY <1>4, <2>1, <3>1 DEF Frames
  <2>6. \/ At(f, "critical", {5}) /\ At(g, "critical", {13})
        \/ At(f, "suspend", {3}) /\ At(g, "suspend", {9})
    BY <1>5, <2>3, <2>4 DEF At
  <2>7. FrameOK(g) BY <2>5, <2>6 DEF FrameOK, At
  <2>8. ~Deep(n, f)
    <3>1. At(f, "critical", {5}) => NestIn(f) = 1 BY DEF NestIn, At
    <3>2. Deep(n, f) => nest[c] = (n - 1) + 1 /\ n > 1
      BY <1>4, <1>5, <3>1 DEF TopPlace, Deep, At
    <3> QED BY <1>9, <3>2
  <2>9. mine[c] = 0 /\ mine'[c] = 0
    <3>1. mine[c] \in Nat /\ (mine[c] = 0 \/ mine[c] = susp) BY DEF SmpInv, Suspensions, SmpTypeOK
    <3> QED BY <1>6, <1>9, <3>1 DEF kernelVars
  <2>10. TopPlace(n, g, mask'[c], nest'[c], depth'[<<c, "TASK">>] - mine'[c], depth'[<<c, "ISR">>])
    <3>1. /\ NestIn(f) = NestIn(g) /\ TaskHeld(f) = TaskHeld(g) /\ IsrHeld(f) = IsrHeld(g)
          /\ ~Open(f) /\ ~Open(g)
      BY <2>6 DEF At, NestIn, TaskHeld, IsrHeld, Open
    <3>2. ~Deep(n, g) BY <2>4, <2>8 DEF Deep
    <3> QED BY <1>4, <1>6, <2>8, <3>1, <3>2 DEF TopPlace, lockVars, kernelVars
  <2>11. Straight(n, g) BY <2>4, <2>8 DEF Straight, Deep
  <2>12. TaskFrame(g, mine'[c]) BY <2>6, <2>9 DEF TaskFrame, At
  <2>13. asked'[c] => \/ swi'[c] \/ At(g, "switch", 3 .. 5)
                      \/ pending'[c] /\ mine'[c] > 0
                      \/ pending'[c] /\ n = 1 /\ Resuming(g)
                      \/ pending'[c] /\ n # 1 /\ Resuming(stack[c][1])
    <3>1. Asked(c) /\ (n = 1 => stack[c][1] = f) BY <1>2, <1>3 DEF SmpInv, Top
    <3>2. ~At(f, "switch", 3 .. 5) /\ ~Resuming(f) BY <1>5 DEF At, Resuming
    <3> QED BY <1>2, <1>6, <3>1, <3>2 DEF Asked, kernelVars
  <2>14. GoesTo(c, g)
    BY <1>2, <1>3, <1>6, <2>2, <2>4, <2>7, <2>10, <2>11, <2>12, <2>13 DEF GoesTo, kernelVars
  <2>15. Suspensions' BY <1>6 DEF SmpInv, Suspensions, kernelVars
  <2> QED BY <1>1, <1>6, <1>7, <2>14, <2>15, MoveKeeps DEF lockVars
<1> QED BY <1>8, <1>9

\* The loop of prvCheckForRunStateChange clears the nesting count.
LEMMA LeaveForYieldKeeps == ASSUME SmpInv, NEW c \in Cores, LeaveForYield(c) PROVE SmpInv'
<1>1. Busy(c) /\ OpOf(Top(c)) = "nest0" /\ pc[c] = "out" BY DoingFacts DEF LeaveForYield
<1>2. PICK f : f = Top(c) OBVIOUS
<1>3. PICK n \in Nat \ {0} : n = Len(stack[c]) BY <1>1, TopFacts
<1>4. /\ FrameOK(f) /\ f \in Frames /\ Straight(n, f)
      /\ TopPlace(n, f, mask[c], nest[c], depth[<<c, "TASK">>] - mine[c], depth[<<c, "ISR">>])
  BY <1>1, <1>2, <1>3, TopFacts DEF FrameOK
<1>5. ~Last(f) /\ At(f, "critical", {13}) BY <1>1, <1>2, <1>4, AtOthers
<1>6. On(f).fn = "critical" /\ On(f).pos = 13 + 1
  <2>1. f.pos < 20 /\ f.pos = 13 /\ f.fn = "critical" BY <1>5 DEF At
  <2> QED BY <1>4, <2>1, FrameOn
<1>7. stack' = WithTop(c, On(f)) BY <1>1, <1>2, <1>4, <1>5, NextStep DEF LeaveForYield
<1>8. /\ nest' = [nest EXCEPT ![c] = 0] /\ nest'[c] = 0
      /\ UNCHANGED <<lockVars, mask, swi, kernelVars>>
  BY DEF LeaveForYield, SmpInv, SmpTypeOK
<1>9. ~Deep(n, f) /\ ~Deep(n, On(f)) BY <1>4, <1>5, <1>6 DEF Straight, Deep, At
<1>10. TopPlace(n, On(f), mask'[c], nest'[c], depth'[<<c, "TASK">>] - mine[c], depth'[<<c, "ISR">>])
  <2>1. /\ NestIn(On(f)) = 0 /\ TaskHeld(f) = TaskHeld(On(f)) /\ IsrHeld(f) = IsrHeld(On(f))
        /\ ~Open(f) /\ ~Open(On(f))
    BY <1>5, <1>6 DEF At, NestIn, TaskHeld, IsrHeld, Open
  <2> QED BY <1>4, <1>8, <1>9, <2>1 DEF TopPlace, lockVars
<1>11. Advances(c) BY <1>1, <1>2, <1>3, <1>5, <1>7, <1>8, <1>10 DEF Advances, kernelVars
<1>12. Elsewhere(c) /\ SpinInv' BY <1>8, OwnStep
<1> QED BY <1>1, <1>8, <1>11, <1>12, AdvanceKeeps DEF lockVars

\* Back from the loop to the check.
LEMMA AgainKeeps == ASSUME SmpInv, NEW c \in Cores, Again(c) PROVE SmpInv'
<1>1. Busy(c) /\ OpOf(Top(c)) = "again" /\ pc[c] = "out" BY DoingFacts DEF Again
<1>2. PICK f : f = Top(c) OBVIOUS
<1>3. PICK n \in Nat \ {0} : n = Len(stack[c]) BY <1>1, TopFacts
<1>4. /\ FrameOK(f) /\ f \in Frames /\ Straight(n, f)
      /\ TopPlace(n, f, mask[c], nest[c], depth[<<c, "TASK">>] - mine[c], depth[<<c, "ISR">>])
  BY <1>1, <1>2, <1>3, TopFacts DEF FrameOK
<1>5. At(f, "critical", {20}) \/ At(f, "suspend", {15}) BY <1>1, <1>2, <1>4, AtOthers
<1>6. PICK g : g = [f EXCEPT !.pos = CheckOf(f.fn)] OBVIOUS
<1>7. CheckOf(f.fn) = IF f.fn = "critical" THEN 5 ELSE 3 BY <1>5, LoopPlaces DEF At
<1>8. PICK k : k = IF f.fn = "critical" THEN 1 ELSE 0 OBVIOUS
<1>9. k \in Nat BY <1>8
<1>10. /\ stack' = WithTop(c, g) /\ nest' = [nest EXCEPT ![c] = k] /\ nest'[c] = k
       /\ UNCHANGED <<lockVars, mask, swi, kernelVars>>
  BY <1>2, <1>6, <1>8 DEF Again, AdvanceTo, SmpInv, SmpTypeOK
<1>11. g.fn = f.fn /\ g.pos = CheckOf(f.fn) /\ g.yield = f.yield BY <1>4, <1>6 DEF Frames
<1>12. g \in Frames
  <2>1. CheckOf(f.fn) \in 1 .. 20 BY <1>7
  <2> QED BY <1>4, <1>6, <2>1 DEF Frames
<1>13. \/ At(f, "critical", {20}) /\ At(g, "critical", {5}) /\ k = 1
       \/ At(f, "suspend", {15}) /\ At(g, "suspend", {3}) /\ k = 0
  BY <1>5, <1>7, <1>8, <1>11 DEF At
<1>14. FrameOK(g) BY <1>12, <1>13 DEF FrameOK, At
<1>15. ~Deep(n, f) /\ ~Deep(n, g) BY <1>4, <1>5, <1>11 DEF Straight, Deep, At
<1>16. TopPlace(n, g, mask'[c], nest'[c], depth'[<<c, "TASK">>] - mine'[c], depth'[<<c, "ISR">>])
  <2>1. /\ NestIn(g) = k /\ TaskHeld(f) = TaskHeld(g) /\ IsrHeld(f) = IsrHeld(g)
        /\ ~Open(f) /\ ~Open(g)
    BY <1>13 DEF At, NestIn, TaskHeld, IsrHeld, Open
  <2> QED BY <1>4, <1>10, <1>15, <2>1 DEF TopPlace, lockVars, kernelVars
<1>17. Straight(n, g) BY <1>15 DEF Straight
<1>18. TaskFrame(g, mine'[c]) BY <1>13 DEF TaskFrame, At
<1>19. asked'[c] => \/ swi'[c] \/ At(g, "switch", 3 .. 5)
                    \/ pending'[c] /\ mine'[c] > 0
                    \/ pending'[c] /\ n = 1 /\ Resuming(g)
                    \/ pending'[c] /\ n # 1 /\ Resuming(stack[c][1])
  <2>1. Asked(c) /\ (n = 1 => stack[c][1] = f) BY <1>2, <1>3 DEF SmpInv, Top
  <2>2. ~At(f, "switch", 3 .. 5) /\ ~Resuming(f) BY <1>5 DEF At, Resuming
  <2> QED BY <1>2, <1>10, <2>1, <2>2 DEF Asked, kernelVars
<1>20. GoesTo(c, g)
  BY <1>2, <1>3, <1>10, <1>11, <1>14, <1>16, <1>17, <1>18, <1>19 DEF GoesTo, kernelVars
<1>21. Elsewhere(c) /\ SpinInv' BY <1>9, <1>10, OwnStep
<1>22. Suspensions' BY <1>10 DEF SmpInv, Suspensions, kernelVars
<1> QED BY <1>1, <1>10, <1>20, <1>21, <1>22, MoveKeeps DEF lockVars


\* Whoever has the TASK lock is the only one that may have suspended the scheduler.
LEMMA HolderSuspends ==
  ASSUME SmpInv, NEW c \in Cores, depth[<<c, "TASK">>] > 0
  PROVE  mine[c] = susp /\ \A d \in Cores \ {c} : mine[d] = 0
<1>1. ASSUME NEW d \in Cores, mine[d] # 0 PROVE d = c
  <2>1. mine[d] \in Nat /\ depth[<<d, "TASK">>] \in Nat /\ "TASK" \in Locks
    BY SmpAssumption, SpinLockAssumption DEF SmpInv, SmpTypeOK, SpinInv, SpinTypeOK
  <2>2. depth[<<d, "TASK">>] - mine[d] \in {0, 1, 2}
    <3>1. CASE ~Busy(d) BY <3>1, IdleFacts
    <3>2. CASE Busy(d)
      <4>1. TopPlace(Len(stack[d]), Top(d), mask[d], nest[d],
                     depth[<<d, "TASK">>] - mine[d], depth[<<d, "ISR">>])
        BY <3>2, TopFacts
      <4>2. TaskHeld(Top(d)) \in {0, 1, 2} BY DEF TaskHeld
      <4> QED BY <4>1, <4>2 DEF TopPlace
    <3> QED BY <3>1, <3>2
  <2>3. depth[<<d, "TASK">>] > 0 BY <1>1, <2>1, <2>2
  <2> QED BY <2>1, <2>3 DEF SmpInv, SpinInv, OneHas, Has
<1>2. susp \in Nat /\ (mine[c] = 0 \/ mine[c] = susp) /\ (susp > 0 => \E d \in Cores : mine[d] = susp)
  BY DEF SmpInv, Suspensions
<1>3. susp > 0 => mine[c] = susp BY <1>1, <1>2
<1> QED BY <1>1, <1>2, <1>3

\* vTaskSuspendAll and xTaskResumeAll are called by tasks only.
LEMMA TaskFirst ==
  ASSUME SmpInv, NEW c \in Cores, Busy(c), Top(c).fn \in {"suspend", "resume"}
  PROVE  Len(stack[c]) = 1
<1>1. Shape(stack[c]) /\ Len(stack[c]) \in Nat \ {0} BY TopFacts
<1>2. PICK n \in Nat \ {0} : n = Len(stack[c]) BY <1>1
<1>3. ASSUME n # 1 PROVE FALSE
  <2>1. n - 1 \in 1 .. n - 1 /\ (n - 1) + 1 = n BY <1>3
  <2>2. Covers(n - 1, stack[c][n - 1], stack[c][(n - 1) + 1]) BY <1>1, <1>2, <2>1 DEF Shape
  <2> QED BY <1>2, <2>1, <2>2 DEF Covers, Top
<1> QED BY <1>2, <1>3

\* vTaskSuspendAll counts, with both locks: nobody else has suspended.
LEMMA SuspendKeeps == ASSUME SmpInv, NEW c \in Cores, Suspend(c) PROVE SmpInv'
<1>1. Busy(c) /\ OpOf(Top(c)) = "suspend" /\ pc[c] = "out" BY DoingFacts DEF Suspend
<1>2. PICK f : f = Top(c) OBVIOUS
<1>3. /\ FrameOK(f) /\ f \in Frames
      /\ TopPlace(Len(stack[c]), f, mask[c], nest[c], depth[<<c, "TASK">>] - mine[c], depth[<<c, "ISR">>])
  BY <1>1, <1>2, TopFacts DEF FrameOK
<1>4. ~Last(f) /\ At(f, "suspend", {5}) BY <1>1, <1>2, <1>3, AtOthers
<1>5. Len(stack[c]) = 1 BY <1>1, <1>2, <1>4, TaskFirst DEF At
<1>6. PICK g : g = On(f) OBVIOUS
<1>7. g.fn = "suspend" /\ g.pos = 5 + 1 /\ g \in Frames
  <2>1. f.pos < 20 /\ f.pos = 5 /\ f.fn = "suspend" BY <1>4 DEF At
  <2> QED BY <1>3, <1>6, <2>1, FrameOn
<1>8. stack' = WithTop(c, g) BY <1>1, <1>2, <1>3, <1>4, <1>6, NextStep DEF Suspend
<1>9. mine[c] \in Nat /\ depth[<<c, "TASK">>] \in Nat /\ mine \in [Cores -> Nat]
  BY SmpAssumption, SpinLockAssumption DEF SmpInv, SmpTypeOK, SpinInv, SpinTypeOK
<1>10. /\ susp' = susp + 1 /\ mine' = [mine EXCEPT ![c] = mine[c] + 1] /\ mine'[c] = mine[c] + 1
       /\ UNCHANGED <<lockVars, mask, nest, swi, asked, pending>>
  BY <1>9 DEF Suspend
<1>11. ~Deep(1, f) /\ ~Deep(1, g) BY DEF Deep
<1>12. /\ mask[c] /\ nest[c] = 0 /\ depth[<<c, "TASK">>] - mine[c] = 1 /\ depth[<<c, "ISR">>] = 1
  <2>1. NestIn(f) = 0 /\ TaskHeld(f) = 1 /\ IsrHeld(f) = 1 /\ ~Open(f)
    BY <1>4 DEF At, NestIn, TaskHeld, IsrHeld, Open
  <2> QED BY <1>3, <1>5, <1>11, <2>1 DEF TopPlace
<1>13. depth[<<c, "TASK">>] > 0 BY <1>9, <1>12
<1>14. mine[c] = susp /\ \A d \in Cores \ {c} : mine[d] = 0 BY <1>13, HolderSuspends
<1>15. TopPlace(1, g, mask'[c], nest'[c], depth'[<<c, "TASK">>] - mine'[c], depth'[<<c, "ISR">>])
  <2>1. NestIn(g) = 0 /\ TaskHeld(g) = 0 /\ IsrHeld(g) = 1 /\ ~Open(g)
    BY <1>7 DEF At, NestIn, TaskHeld, IsrHeld, Open
  <2>2. depth[<<c, "TASK">>] - (mine[c] + 1) = 0 BY <1>9, <1>12
  <2> QED BY <1>10, <1>11, <1>12, <2>1, <2>2 DEF TopPlace, lockVars
<1>16. FrameOK(g) /\ Straight(1, g) /\ TaskFrame(g, mine'[c])
  BY <1>7, <1>11 DEF FrameOK, At, Straight, TaskFrame
<1>17. mine'[c] > 0 BY <1>9, <1>10
<1>18. asked'[c] => swi'[c] \/ (pending'[c] /\ mine'[c] > 0)
  <2>1. Asked(c) /\ stack[c][1] = f BY <1>2, <1>5 DEF SmpInv, Top
  <2>2. ~At(f, "switch", 3 .. 5) /\ ~Resuming(f) BY <1>4 DEF At, Resuming
  <2> QED BY <1>2, <1>10, <1>17, <2>1, <2>2 DEF Asked
<1>19. GoesTo(c, g)
  BY <1>2, <1>4, <1>5, <1>7, <1>8, <1>15, <1>16, <1>18 DEF GoesTo, At
<1>20. SpinInv' BY <1>10, SpinInvNext DEF SmpInv
<1>21. Elsewhere(c) BY <1>9, <1>10 DEF SmpInv, SmpTypeOK, Elsewhere, lockVars
<1>22. Suspensions'
  <2>1. susp' \in Nat /\ mine'[c] = susp' BY <1>9, <1>10, <1>14
  <2>2. \A d \in Cores \ {c} : mine'[d] = 0 BY <1>9, <1>10, <1>14
  <2> QED BY <2>1, <2>2 DEF Suspensions
<1> QED BY <1>1, <1>10, <1>19, <1>20, <1>21, <1>22, MoveKeeps DEF lockVars

\* xTaskResumeAll counts down.
LEMMA ResumeKeeps == ASSUME SmpInv, NEW c \in Cores, Resume(c) PROVE SmpInv'
<1>1. Busy(c) /\ OpOf(Top(c)) = "resume" /\ pc[c] = "out" BY DoingFacts DEF Resume
<1>2. PICK f : f = Top(c) OBVIOUS
<1>3. /\ FrameOK(f) /\ f \in Frames /\ TaskFrame(f, mine[c])
      /\ TopPlace(Len(stack[c]), f, mask[c], nest[c], depth[<<c, "TASK">>] - mine[c], depth[<<c, "ISR">>])
  BY <1>1, <1>2, TopFacts DEF FrameOK
<1>4. ~Last(f) /\ At(f, "resume", {5}) BY <1>1, <1>2, <1>3, AtOthers
<1>5. Len(stack[c]) = 1 BY <1>1, <1>2, <1>4, TaskFirst DEF At
<1>6. PICK g : g = On(f) OBVIOUS
<1>7. g.fn = "resume" /\ g.pos = 5 + 1 /\ g \in Frames
  <2>1. f.pos < 20 /\ f.pos = 5 /\ f.fn = "resume" BY <1>4 DEF At
  <2> QED BY <1>3, <1>6, <2>1, FrameOn
<1>8. stack' = WithTop(c, g) BY <1>1, <1>2, <1>3, <1>4, <1>6, NextStep DEF Resume
<1>9. mine[c] \in Nat /\ mine[c] > 0 /\ depth[<<c, "TASK">>] \in Nat /\ mine \in [Cores -> Nat]
  <2>1. At(f, "resume", 1 .. 5) BY <1>4 DEF At
  <2> QED BY <1>3, <2>1, SmpAssumption, SpinLockAssumption
          DEF SmpInv, SmpTypeOK, SpinInv, SpinTypeOK, TaskFrame
<1>10. /\ susp' = susp - 1 /\ mine' = [mine EXCEPT ![c] = mine[c] - 1] /\ mine'[c] = mine[c] - 1
       /\ UNCHANGED <<lockVars, mask, nest, swi, asked, pending>>
  BY <1>9 DEF Resume
<1>11. ~Deep(1, f) /\ ~Deep(1, g) BY DEF Deep
<1>12. /\ mask[c] /\ nest[c] = 1 /\ depth[<<c, "TASK">>] - mine[c] = 1 /\ depth[<<c, "ISR">>] = 1
  <2>1. NestIn(f) = 1 /\ TaskHeld(f) = 1 /\ IsrHeld(f) = 1 /\ ~Open(f)
    BY <1>4 DEF At, NestIn, TaskHeld, IsrHeld, Open
  <2> QED BY <1>3, <1>5, <1>11, <2>1 DEF TopPlace
<1>13. depth[<<c, "TASK">>] > 0 BY <1>9, <1>12
<1>14. mine[c] = susp /\ \A d \in Cores \ {c} : mine[d] = 0 BY <1>13, HolderSuspends
<1>15. TopPlace(1, g, mask'[c], nest'[c], depth'[<<c, "TASK">>] - mine'[c], depth'[<<c, "ISR">>])
  <2>1. NestIn(g) = 1 /\ TaskHeld(g) = 2 /\ IsrHeld(g) = 1 /\ ~Open(g)
    BY <1>7 DEF At, NestIn, TaskHeld, IsrHeld, Open
  <2>2. depth[<<c, "TASK">>] - (mine[c] - 1) = 2 BY <1>9, <1>12
  <2> QED BY <1>10, <1>11, <1>12, <2>1, <2>2 DEF TopPlace, lockVars
<1>16. FrameOK(g) /\ Straight(1, g) /\ TaskFrame(g, mine'[c])
  BY <1>7, <1>11 DEF FrameOK, At, Straight, TaskFrame
<1>17. Resuming(g) BY <1>7 DEF Resuming, At
<1>18. asked'[c] => swi'[c] \/ (pending'[c] /\ Resuming(g))
  <2>1. Asked(c) /\ stack[c][1] = f BY <1>2, <1>5 DEF SmpInv, Top
  <2>2. ~At(f, "switch", 3 .. 5) BY <1>4 DEF At
  <2> QED BY <1>2, <1>10, <1>17, <2>1, <2>2 DEF Asked
<1>19. GoesTo(c, g)
  BY <1>2, <1>4, <1>5, <1>7, <1>8, <1>15, <1>16, <1>18 DEF GoesTo, At
<1>20. SpinInv' BY <1>10, SpinInvNext DEF SmpInv
<1>21. Elsewhere(c) BY <1>9, <1>10 DEF SmpInv, SmpTypeOK, Elsewhere, lockVars
<1>22. Suspensions'
  <2>1. susp' \in Nat /\ mine'[c] = susp' BY <1>9, <1>10, <1>14
  <2>2. \A d \in Cores \ {c} : mine'[d] = 0 BY <1>9, <1>10, <1>14
  <2> QED BY <2>1, <2>2 DEF Suspensions
<1> QED BY <1>1, <1>10, <1>19, <1>20, <1>21, <1>22, MoveKeeps DEF lockVars


\* A yield at the end of a section sets the software interrupt.
LEMMA YieldKeeps == ASSUME SmpInv, NEW c \in Cores, Yield(c) PROVE SmpInv'
<1>1. Busy(c) /\ OpOf(Top(c)) = "yield" /\ pc[c] = "out" BY DoingFacts DEF Yield
<1>2. PICK f : f = Top(c) OBVIOUS
<1>3. PICK n \in Nat \ {0} : n = Len(stack[c]) BY <1>1, TopFacts
<1>4. /\ FrameOK(f) /\ Straight(n, f)
      /\ TopPlace(n, f, mask[c], nest[c], depth[<<c, "TASK">>] - mine[c], depth[<<c, "ISR">>])
  BY <1>1, <1>2, <1>3, TopFacts
<1>5. /\ Last(f) /\ Open(f) /\ NestIn(f) = 0 /\ TaskHeld(f) = 0 /\ IsrHeld(f) = 0
      /\ At(f, "critical", {11}) \/ At(f, "resume", {11}) \/ At(f, "isr", {8})
  <2>1. Last(f) /\ Open(f) /\ (At(f, "critical", {11}) \/ At(f, "resume", {11}) \/ At(f, "isr", {8}))
    BY <1>1, <1>2, <1>4, AtOthers
  <2>2. NestIn(f) = 0 /\ TaskHeld(f) = 0 /\ IsrHeld(f) = 0 BY <1>4, <2>1, AtOthers
  <2> QED BY <2>1, <2>2
<1>6. stack' = Popped(c) BY <1>1, <1>2, <1>4, <1>5, NextStep DEF Yield
<1>7. /\ swi' = [swi EXCEPT ![c] = TRUE] /\ swi'[c] = TRUE
      /\ UNCHANGED <<lockVars, mask, nest, kernelVars>>
  BY DEF Yield, SmpInv, SmpTypeOK
<1>8. ~Deep(n, f) BY <1>4, <1>5 DEF Straight, Deep, At
<1>9. ~mask[c] /\ nest[c] = 0 /\ depth[<<c, "TASK">>] - mine[c] = 0 /\ depth[<<c, "ISR">>] = 0
  BY <1>4, <1>5, <1>8 DEF TopPlace
<1>10. Advances(c)
  BY <1>1, <1>2, <1>3, <1>5, <1>6, <1>7, <1>8, <1>9 DEF Advances, kernelVars, lockVars
<1>11. Elsewhere(c) /\ SpinInv' BY <1>7, OwnStep
<1> QED BY <1>1, <1>7, <1>10, <1>11, AdvanceKeeps DEF lockVars

\* The handler of the software interrupt clears it.
LEMMA ClearSwiKeeps == ASSUME SmpInv, NEW c \in Cores, ClearSwi(c) PROVE SmpInv'
<1>1. Busy(c) /\ OpOf(Top(c)) = "clear" /\ pc[c] = "out" BY DoingFacts DEF ClearSwi
<1>2. PICK f : f = Top(c) OBVIOUS
<1>3. PICK n \in Nat \ {0} : n = Len(stack[c]) BY <1>1, TopFacts
<1>4. FrameOK(f) /\ TopPlace(n, f, mask[c], nest[c], depth[<<c, "TASK">>] - mine[c], depth[<<c, "ISR">>])
  BY <1>1, <1>2, <1>3, TopFacts
<1>5. /\ ~Last(f) /\ ~Open(f) /\ ~Open(On(f)) /\ NestIn(f) = NestIn(On(f))
      /\ TaskHeld(f) = TaskHeld(On(f)) /\ IsrHeld(f) = IsrHeld(On(f))
  BY <1>1, <1>2, <1>4, AtWork
<1>6. stack' = WithTop(c, On(f)) BY <1>1, <1>2, <1>4, <1>5, NextStep DEF ClearSwi
<1>7. swi' = [swi EXCEPT ![c] = FALSE] /\ UNCHANGED <<lockVars, mask, nest, kernelVars>>
  BY DEF ClearSwi
<1>8. TopPlace(n, On(f), mask'[c], nest'[c], depth'[<<c, "TASK">>] - mine[c], depth'[<<c, "ISR">>])
  <2>1. Deep(n, On(f)) <=> Deep(n, f) BY <1>1, <1>2, <1>4, <1>5, OnDeep
  <2> QED BY <1>4, <1>5, <1>7, <2>1 DEF TopPlace, lockVars
<1>9. Advances(c) BY <1>1, <1>2, <1>3, <1>5, <1>6, <1>7, <1>8 DEF Advances, kernelVars
<1>10. Elsewhere(c) /\ SpinInv' BY <1>7, OwnStep
<1> QED BY <1>1, <1>7, <1>9, <1>10, AdvanceKeeps DEF lockVars

\* In the body another core may be asked to yield, and gets an interrupt with it.
LEMMA BodyKeeps == ASSUME SmpInv, NEW c \in Cores, Body(c) PROVE SmpInv'
<1>1. Busy(c) /\ OpOf(Top(c)) = "body" /\ pc[c] = "out" BY DoingFacts DEF Body
<1>2. PICK f : f = Top(c) OBVIOUS
<1>3. PICK n \in Nat \ {0} : n = Len(stack[c]) BY <1>1, TopFacts
<1>4. FrameOK(f) /\ TopPlace(n, f, mask[c], nest[c], depth[<<c, "TASK">>] - mine[c], depth[<<c, "ISR">>])
  BY <1>1, <1>2, <1>3, TopFacts
<1>5. /\ ~Last(f) /\ ~Open(f) /\ ~Open(On(f)) /\ NestIn(f) = NestIn(On(f))
      /\ TaskHeld(f) = TaskHeld(On(f)) /\ IsrHeld(f) = IsrHeld(On(f))
      /\ f.fn = "critical" => f.pos = 6
  BY <1>1, <1>2, <1>4, AtWork
<1>6. UNCHANGED <<lockVars, mask, nest>> BY DEF Body
<1>7. CASE Advance(c) /\ UNCHANGED <<susp, mine>> /\ Elsewhere(c)
           /\ asked'[c] = asked[c] /\ (pending[c] => pending'[c]) /\ swi'[c] = swi[c]
  <2>1. stack' = WithTop(c, On(f)) BY <1>1, <1>2, <1>4, <1>5, <1>7, NextStep
  <2>2. TopPlace(n, On(f), mask'[c], nest'[c], depth'[<<c, "TASK">>] - mine[c], depth'[<<c, "ISR">>])
    <3>1. Deep(n, On(f)) <=> Deep(n, f) BY <1>1, <1>2, <1>4, <1>5, OnDeep
    <3> QED BY <1>4, <1>5, <1>6, <3>1 DEF TopPlace, lockVars
  <2>3. Advances(c) BY <1>1, <1>2, <1>3, <1>5, <1>7, <2>1, <2>2 DEF Advances
  <2>4. SpinInv' BY <1>6, SpinInvNext DEF SmpInv
  <2> QED BY <1>1, <1>6, <1>7, <2>3, <2>4, AdvanceKeeps DEF lockVars
<1>8. CASE Advance(c) /\ UNCHANGED <<swi, kernelVars>>
  BY <1>6, <1>7, <1>8 DEF Elsewhere, SmpInv, SmpTypeOK, lockVars, kernelVars
<1>9. CASE Advance(c) /\ UNCHANGED <<swi, susp, mine, asked>> /\ pending' = [pending EXCEPT ![c] = TRUE]
  <2>1. pending'[c] /\ pending' \in [Cores -> BOOLEAN] /\ \A d \in Cores \ {c} : pending'[d] = pending[d]
    BY <1>9 DEF SmpInv, SmpTypeOK
  <2> QED BY <1>6, <1>7, <1>9, <2>1 DEF Elsewhere, SmpInv, SmpTypeOK, lockVars
<1>10. ASSUME NEW e \in Cores \ {c}, Advance(c), UNCHANGED <<susp, mine, pending>>,
              swi' = [swi EXCEPT ![e] = TRUE], asked' = [asked EXCEPT ![e] = TRUE]
       PROVE  SmpInv'
  <2>1. /\ swi' \in [Cores -> BOOLEAN] /\ asked' \in [Cores -> BOOLEAN]
        /\ swi'[c] = swi[c] /\ asked'[c] = asked[c]
        /\ \A d \in Cores : (swi[d] => swi'[d]) /\ (asked'[d] => asked[d] \/ swi'[d])
    BY <1>10 DEF SmpInv, SmpTypeOK
  <2> QED BY <1>6, <1>7, <1>10, <2>1 DEF Elsewhere, SmpInv, SmpTypeOK, lockVars
<1>11. CASE /\ Top(c).fn = "critical" /\ stack' = [stack EXCEPT ![c] = Append(@, Frame("critical"))]
            /\ UNCHANGED <<swi, kernelVars>>
  <2>1. Push(c, "critical") BY <1>11 DEF Push
  <2>2. Frame("critical").fn = "critical" /\ Frame("critical").pos = 1 BY DEF Frame
  <2>3. Covers(Len(stack[c]), Top(c), Frame("critical")) BY <1>2, <1>5, <1>11, <2>2 DEF Covers, At
  <2>4. TaskFrame(Frame("critical"), mine[c]) BY <2>2 DEF TaskFrame, At
  <2> QED BY <1>1, <1>2, <1>5, <1>6, <1>11, <2>1, <2>3, <2>4, PushKeeps
<1> QED BY <1>8, <1>9, <1>10, <1>11 DEF Body

\* Interrupts and calls.
LEMMA OpenTop ==
  ASSUME SmpInv, NEW c \in Cores, Busy(c), ~mask[c]
  PROVE  Open(Top(c)) /\ (Top(c).fn = "critical" => Len(stack[c]) = 1) /\ pc[c] = "out"
<1>1. /\ Len(stack[c]) \in Nat \ {0} /\ FrameOK(Top(c)) /\ Op(c) = OpOf(Top(c))
      /\ TopPlace(Len(stack[c]), Top(c), mask[c], nest[c],
                  depth[<<c, "TASK">>] - mine[c], depth[<<c, "ISR">>])
  BY TopFacts
<1>2. ~Deep(Len(stack[c]), Top(c)) /\ Open(Top(c)) BY <1>1 DEF TopPlace
<1>3. Op(c) \in {"mask", "save", "yield"} BY <1>1, <1>2, AtOthers
<1>4. pc[c] = "out" BY <1>3, NotInLock
<1>5. PICK n \in Nat \ {0} : n = Len(stack[c]) BY <1>1
<1>6. Top(c).fn = "critical" => n = 1
  <2>1. n = 1 \/ n > 1 OBVIOUS
  <2> QED BY <1>2, <1>5, <2>1 DEF Deep
<1> QED BY <1>2, <1>4, <1>5, <1>6

\* An interrupt comes in where the threshold is low, so where the core has no lock.
LEMMA InterruptKeeps ==
  ASSUME SmpInv, NEW c \in Cores, TakeSwi(c) \/ TakeInterrupt(c)
  PROVE  SmpInv'
<1>1. PICK fn \in {"switch", "isr"} :
        /\ Push(c, fn) /\ (Busy(c) /\ fn = "isr" => Top(c).fn # "isr")
        /\ (Busy(c) /\ fn = "switch" => Top(c).fn \notin {"isr", "switch"})
  <2>1. Busy(c) => Len(stack[c]) \in DOMAIN stack[c]
    <3>1. Busy(c) => stack[c] \in Seq(Frames) /\ Len(stack[c]) \in Nat \ {0} BY TopFacts DEF Shape
    <3> QED BY <3>1
  <2>2. CASE TakeSwi(c) BY <2>1, <2>2 DEF TakeSwi, SwiDue, InInterrupt, Top
  <2>3. CASE TakeInterrupt(c) BY <2>1, <2>3 DEF TakeInterrupt, Top
  <2> QED BY <2>2, <2>3
<1>2. ~mask[c] /\ UNCHANGED <<lockVars, mask, nest, swi, kernelVars>>
  BY DEF TakeSwi, TakeInterrupt, SwiDue
<1>3. Frame(fn).fn = fn BY DEF Frame
<1>4. TaskFrame(Frame(fn), mine[c]) BY <1>3 DEF TaskFrame, At
<1>5. pc[c] = "out" BY <1>2, OpenTop, IdleFacts
<1>6. Busy(c) => Covers(Len(stack[c]), Top(c), Frame(fn)) /\ Open(Top(c))
  <2>1. ASSUME Busy(c) PROVE Covers(Len(stack[c]), Top(c), Frame(fn)) /\ Open(Top(c))
    <3>1. Open(Top(c)) /\ (Top(c).fn = "critical" => Len(stack[c]) = 1) BY <1>2, <2>1, OpenTop
    <3>2. Top(c).fn \in {"critical", "suspend", "resume", "isr", "switch"}
      BY <2>1, TopFacts DEF FrameOK, At
    <3> QED BY <1>1, <1>3, <2>1, <3>1, <3>2 DEF Covers
  <2> QED BY <2>1
<1> QED BY <1>1, <1>2, <1>4, <1>5, <1>6, PushKeeps

\* A task calls a kernel function.
LEMMA CallTaskKeeps == ASSUME SmpInv, NEW c \in Cores, CallTask(c) PROVE SmpInv'
<1>1. PICK fn \in {"critical", "suspend", "resume"} : Call(c, fn) /\ (fn = "resume" => mine[c] > 0)
  BY DEF CallTask, CallResume
<1>2. Op(c) = "task" BY <1>1 DEF Call, Doing
<1>3. ~Busy(c)
  <2>1. ASSUME Busy(c) PROVE FALSE BY <1>2, <2>1, TopFacts, AtOthers
  <2> QED BY <2>1
<1>4. pc[c] = "out" BY <1>3, IdleFacts
<1>5. Frame(fn).fn = fn /\ Frame(fn).pos = 1 BY DEF Frame
<1>6. TaskFrame(Frame(fn), mine[c]) BY <1>1, <1>5 DEF TaskFrame, At
<1> QED BY <1>1, <1>3, <1>4, <1>6, PushKeeps DEF Call


\* The switch of a task takes with it all that the task was doing.
LEMMA SwitchKeeps == ASSUME SmpInv, NEW c \in Cores, vTaskSwitchContext(c) PROVE SmpInv'
<1>1. Busy(c) /\ OpOf(Top(c)) = "switch" /\ pc[c] = "out" BY DoingFacts DEF vTaskSwitchContext
<1>2. PICK f : f = Top(c) OBVIOUS
<1>3. PICK n \in Nat \ {0} : n = Len(stack[c]) BY <1>1, TopFacts
<1>4. /\ FrameOK(f) /\ f \in Frames
      /\ TopPlace(n, f, mask[c], nest[c], depth[<<c, "TASK">>] - mine[c], depth[<<c, "ISR">>])
  BY <1>1, <1>2, <1>3, TopFacts DEF FrameOK
<1>5. ~Last(f) /\ At(f, "switch", {5}) BY <1>1, <1>2, <1>4, AtWork
<1>6. PICK g : g = On(f) OBVIOUS
<1>7. g.fn = "switch" /\ g.pos = 5 + 1 /\ g \in Frames
  <2>1. f.pos < 20 /\ f.pos = 5 /\ f.fn = "switch" BY <1>5 DEF At
  <2> QED BY <1>4, <1>6, <2>1, FrameOn
<1>8. \A m : ~Deep(m, f) /\ ~Deep(m, g) BY <1>5, <1>7 DEF Deep, At
<1>9. mask[c] /\ nest[c] = 0 /\ depth[<<c, "TASK">>] - mine[c] = 1 /\ depth[<<c, "ISR">>] = 1
  <2>1. NestIn(f) = 0 /\ TaskHeld(f) = 1 /\ IsrHeld(f) = 1 /\ ~Open(f)
    BY <1>5 DEF At, NestIn, TaskHeld, IsrHeld, Open
  <2> QED BY <1>4, <1>8, <2>1 DEF TopPlace
<1>10. FrameOK(g) /\ (\A m : Straight(m, g)) /\ (\A k : TaskFrame(g, k))
  BY <1>7, <1>8 DEF FrameOK, At, Straight, TaskFrame
<1>11. UNCHANGED <<lockVars, mask, nest, swi, susp, mine>> BY DEF vTaskSwitchContext
<1>12. \A m : TopPlace(m, g, mask'[c], nest'[c], depth'[<<c, "TASK">>] - mine'[c], depth'[<<c, "ISR">>])
  <2>1. NestIn(g) = 0 /\ TaskHeld(g) = 1 /\ IsrHeld(g) = 1 /\ ~Open(g)
    BY <1>7 DEF At, NestIn, TaskHeld, IsrHeld, Open
  <2> QED BY <1>8, <1>9, <1>11, <2>1 DEF TopPlace, lockVars
<1>13. SpinInv' BY <1>11, SpinInvNext DEF SmpInv
<1>14. Suspensions' BY <1>11 DEF SmpInv, Suspensions
<1>15. Advance(c) => stack' = WithTop(c, g) BY <1>1, <1>2, <1>4, <1>5, <1>6, NextStep
<1>16. CASE susp # 0
  <2>1. /\ pending' = [pending EXCEPT ![c] = TRUE] /\ UNCHANGED asked /\ Advance(c)
    BY <1>16 DEF vTaskSwitchContext
  <2>2. pending'[c] = TRUE BY <2>1 DEF SmpInv, SmpTypeOK
  <2>3. Elsewhere(c) BY <1>11, <2>1 DEF Elsewhere, SmpInv, SmpTypeOK, lockVars
  <2>4. mine'[c] > 0
    <3>1. mine[c] \in Nat /\ depth[<<c, "TASK">>] \in Nat /\ susp \in Nat
      BY SmpAssumption, SpinLockAssumption DEF SmpInv, SmpTypeOK, SpinInv, SpinTypeOK, Suspensions
    <3>2. depth[<<c, "TASK">>] > 0 BY <1>9, <3>1
    <3>3. mine[c] = susp BY <3>2, HolderSuspends
    <3> QED BY <1>11, <1>16, <3>1, <3>3
  <2>5. GoesTo(c, g)
    BY <1>2, <1>5, <1>7, <1>10, <1>11, <1>12, <1>15, <2>1, <2>2, <2>4 DEF GoesTo, At
  <2> QED BY <1>1, <1>11, <1>13, <1>14, <2>3, <2>5, MoveKeeps DEF lockVars
<1>17. CASE susp = 0
  <2>1. /\ pending' = [pending EXCEPT ![c] = FALSE] /\ asked' = [asked EXCEPT ![c] = FALSE]
        /\ \/ Advance(c)
           \/ stack' = [stack EXCEPT ![c] = <<[Top(c) EXCEPT !.pos = @ + 1]>>]
    BY <1>17 DEF vTaskSwitchContext
  <2>2. asked'[c] = FALSE BY <2>1 DEF SmpInv, SmpTypeOK
  <2>3. Elsewhere(c) BY <1>11, <2>1 DEF Elsewhere, SmpInv, SmpTypeOK, lockVars
  <2>4. CASE Advance(c)
    <3>1. GoesTo(c, g)
      BY <1>2, <1>5, <1>7, <1>10, <1>11, <1>12, <1>15, <2>2, <2>4 DEF GoesTo, At
    <3> QED BY <1>1, <1>11, <1>13, <1>14, <2>3, <3>1, MoveKeeps DEF lockVars
  <2>5. CASE stack' = [stack EXCEPT ![c] = <<[Top(c) EXCEPT !.pos = @ + 1]>>]
    <3>1. stack \in [Cores -> Seq(Frames)] BY DEF SmpInv, SmpTypeOK
    <3>2. stack' = [stack EXCEPT ![c] = <<g>>] BY <1>2, <1>6, <2>5 DEF On
    <3>3. stack'[c] = <<g>> /\ \A d \in Cores \ {c} : stack'[d] = stack[d] BY <3>1, <3>2
    <3>4. <<g>> \in Seq(Frames) /\ Len(<<g>>) = 1 /\ <<g>>[1] = g /\ <<g>> # <<>> BY <1>7
    <3>5. stack' \in [Cores -> Seq(Frames)] BY <3>1, <3>2, <3>4
    <3>6. Shape(<<g>>)
      <4>1. \A i \in 1 .. 1 : FrameOK(<<g>>[i]) /\ Straight(i, <<g>>[i]) BY <1>10, <3>4
      <4>2. 1 .. Len(<<g>>) - 1 = {} BY <3>4
      <4> QED BY <3>4, <4>1, <4>2 DEF Shape
    <3>7. CoreOK(c)' BY <1>12, <3>3, <3>4, <3>6 DEF CoreOK, Place, Holds
    <3>8. LockCall(c)' BY <1>1, <1>11 DEF LockCall, lockVars
    <3>9. TaskPart(c)' BY <1>10, <3>3, <3>4 DEF TaskPart
    <3>10. Asked(c)' BY <2>2 DEF Asked
    <3> QED BY <1>13, <1>14, <2>3, <3>3, <3>5, <3>7, <3>8, <3>9, <3>10, Assemble
  <2> QED BY <2>1, <2>4, <2>5
<1> QED BY <1>16, <1>17

\* The steps about the locks.  A nested critical section passes over them.
LEMMA LockOp ==
  ASSUME SmpInv, NEW c \in Cores, Gets(c) \cup Rels(c) # {}
  PROVE  /\ Busy(c) /\ OpOf(Top(c)) \in {"getTASK", "getISR", "relTASK", "relISR"}
         /\ Nested(c) <=> Deep(Len(stack[c]), Top(c))
<1>1. Op(c) \in {"getTASK", "getISR", "relTASK", "relISR"} BY DEF Gets, Rels
<1>2. Busy(c) BY <1>1 DEF Op
<1>3. PICK n \in Nat \ {0} : n = Len(stack[c]) BY <1>2, TopFacts
<1>4. PICK f : f = Top(c) OBVIOUS
<1>5. /\ FrameOK(f) /\ Op(c) = OpOf(f)
      /\ TopPlace(n, f, mask[c], nest[c], depth[<<c, "TASK">>] - mine[c], depth[<<c, "ISR">>])
  BY <1>2, <1>3, <1>4, TopFacts
<1>6. f.fn # "resume" => NestIn(f) = 0 BY <1>1, <1>5, AtGet, AtRel
<1>7. Deep(n, f) => Nested(c)
  <2>1. Deep(n, f) => f.fn = "critical" /\ nest[c] = (n - 1) + 0 /\ n > 1 BY <1>5, <1>6 DEF TopPlace, Deep
  <2> QED BY <1>4, <2>1 DEF Nested
<1>8. ~Deep(n, f) => ~Nested(c) BY <1>4, <1>5, <1>6 DEF TopPlace, Nested
<1> QED BY <1>1, <1>2, <1>3, <1>4, <1>5, <1>7, <1>8

\* A nested section leaves the locks alone.
LEMMA SkipLockKeeps == ASSUME SmpInv, NEW c \in Cores, SkipLock(c) PROVE SmpInv'
<1>1. Busy(c) /\ OpOf(Top(c)) \in {"getTASK", "getISR", "relTASK", "relISR"} /\ pc[c] = "out"
      /\ Deep(Len(stack[c]), Top(c))
  BY LockOp DEF SkipLock
<1>2. PICK f : f = Top(c) OBVIOUS
<1>3. PICK n \in Nat \ {0} : n = Len(stack[c]) BY <1>1, TopFacts
<1>4. FrameOK(f) /\ TopPlace(n, f, mask[c], nest[c], depth[<<c, "TASK">>] - mine[c], depth[<<c, "ISR">>])
  BY <1>1, <1>2, <1>3, TopFacts
<1>5. ~Last(f) /\ NestIn(f) = NestIn(On(f)) BY <1>1, <1>2, <1>4, AtGet, AtRel
<1>6. stack' = WithTop(c, On(f)) BY <1>1, <1>2, <1>4, <1>5, NextStep DEF SkipLock
<1>7. UNCHANGED <<lockVars, mask, nest, swi, kernelVars>> BY DEF SkipLock
<1>8. TopPlace(n, On(f), mask'[c], nest'[c], depth'[<<c, "TASK">>] - mine[c], depth'[<<c, "ISR">>])
  <2>1. Deep(n, On(f)) /\ Deep(n, f) BY <1>1, <1>2, <1>3, <1>4, <1>5, OnDeep
  <2> QED BY <1>4, <1>5, <1>7, <2>1 DEF TopPlace, lockVars
<1>9. Advances(c) BY <1>1, <1>2, <1>3, <1>5, <1>6, <1>7, <1>8 DEF Advances, kernelVars
<1>10. Elsewhere(c) /\ SpinInv' BY <1>7, OwnStep
<1> QED BY <1>1, <1>7, <1>9, <1>10, AdvanceKeeps DEF lockVars


\* What a step of vPortRecursiveLock does, seen by its caller.
LEMMA LockEffect ==
  ASSUME SpinInv, NEW c \in Cores, LockStep(c)
  PROVE  /\ pc[c] \in Taking \cup Giving /\ arg' = arg /\ arg[c] \in Locks
         /\ \A d \in Cores \ {c} : pc'[d] = pc[d]
         /\ pc'[c] # "out" => /\ depth' = depth
                              /\ pc[c] \in Taking => pc'[c] \in Taking
                              /\ pc[c] \in Giving => pc'[c] \in Giving
         /\ pc'[c] = "out" /\ pc[c] \in Taking =>
              depth' = [depth EXCEPT ![<<c, arg[c]>>] = depth[<<c, arg[c]>>] + 1]
         /\ pc'[c] = "out" /\ pc[c] \in Giving =>
              depth' = [depth EXCEPT ![<<c, arg[c]>>] = depth[<<c, arg[c]>>] - 1]
<1>1. pc \in [Cores -> Taking \cup Giving \cup {"out"}] /\ arg[c] \in Locks BY DEF SpinInv, SpinTypeOK
<1>2. CASE Recurse(c) BY <1>1, <1>2 DEF Recurse, Goto, Taking, Giving
<1>3. CASE LooksTaken(c) BY <1>1, <1>3 DEF LooksTaken, Goto, Taking, Giving
<1>4. CASE LooksFree(c) BY <1>1, <1>4 DEF LooksFree, Goto, Taking, Giving
<1>5. CASE Swap(c) BY <1>1, <1>5 DEF Swap, Goto, Taking, Giving
<1>6. CASE SetRecursion(c) BY <1>1, <1>6 DEF SetRecursion, Goto, Taking, Giving
<1>7. CASE SetOwner(c) BY <1>1, <1>7 DEF SetOwner, Goto, Taking, Giving
<1>8. CASE Decrement(c) BY <1>1, <1>8 DEF Decrement, Goto, Taking, Giving
<1>9. CASE DropOwner(c) BY <1>1, <1>9 DEF DropOwner, Goto, Taking, Giving
<1>10. CASE Clear(c) BY <1>1, <1>10 DEF Clear, Goto, Taking, Giving
<1> QED BY <1>2, <1>3, <1>4, <1>5, <1>6, <1>7, <1>8, <1>9, <1>10 DEF LockStep

\* A call of vPortRecursiveLock.
LEMMA CallLockKeeps == ASSUME SmpInv, NEW c \in Cores, CallLock(c) PROVE SmpInv'
<1>1. pc[c] = "out" /\ ~Nested(c) /\ UNCHANGED <<stack, mask, nest, swi, kernelVars>> BY DEF CallLock
<1>2. SpinInv'
  <2>1. Step(c) BY DEF Step
  <2> QED BY <2>1, SmpStepOfLock, SpinInvNext DEF SmpInv
<1>3. /\ UNCHANGED depth /\ \A d \in Cores \ {c} : pc'[d] = pc[d] /\ arg'[d] = arg[d]
      /\ \/ pc'[c] = "look" /\ arg'[c] \in Gets(c)
         \/ pc'[c] = "dec" /\ arg'[c] \in Rels(c)
  <2>1. pc \in [Cores -> Taking \cup Giving \cup {"out"}] /\ arg \in [Cores -> Locks]
    BY DEF SmpInv, SpinInv, SpinTypeOK
  <2>2. CASE \E l \in Gets(c) : CallAcquire(c, l) BY <2>1, <2>2 DEF CallAcquire, Goto
  <2>3. CASE \E l \in Rels(c) : CallRelease(c, l) BY <2>1, <2>3 DEF CallRelease, Goto
  <2> QED BY <2>2, <2>3 DEF CallLock
<1>4. stack[c] # <<>>
  <2>1. Gets(c) \cup Rels(c) # {} BY <1>3
  <2> QED BY <2>1, LockOp DEF Busy
<1>5. Gets(c)' = Gets(c) /\ Rels(c)' = Rels(c) /\ (Nested(c)' <=> Nested(c))
  BY <1>1 DEF Gets, Rels, Nested, Op, Top, Busy
<1>6. LockCall(c)' BY <1>1, <1>3, <1>4, <1>5 DEF LockCall, Taking, Giving
<1>7. CoreOK(c)' BY <1>1, <1>3 DEF SmpInv, CoreOK, Holds, kernelVars
<1>8. TaskPart(c)' BY <1>1 DEF SmpInv, TaskPart, kernelVars
<1>9. Asked(c)' BY <1>1 DEF SmpInv, Asked, Busy, Top, kernelVars
<1>10. Suspensions' BY <1>1 DEF SmpInv, Suspensions, kernelVars
<1>11. Elsewhere(c) BY <1>1, <1>3 DEF SmpInv, SmpTypeOK, Elsewhere, kernelVars
<1>12. stack' \in [Cores -> Seq(Frames)] /\ \A d \in Cores \ {c} : stack'[d] = stack[d]
  BY <1>1 DEF SmpInv, SmpTypeOK
<1> QED BY <1>2, <1>6, <1>7, <1>8, <1>9, <1>10, <1>11, <1>12, Assemble

\* The steps of vPortRecursiveLock; the last one moves the frame on.
LEMMA InLockKeeps == ASSUME SmpInv, NEW c \in Cores, InLock(c) PROVE SmpInv'
<1>1. SpinInv /\ LockStep(c) /\ UNCHANGED <<mask, nest, swi, kernelVars>> BY DEF InLock, SmpInv
<1>2. SpinInv'
  <2>1. Step(c) BY DEF Step
  <2> QED BY <2>1, SmpStepOfLock, SpinInvNext DEF SmpInv
<1>3. /\ pc[c] \in Taking \cup Giving /\ arg' = arg /\ arg[c] \in Locks
      /\ \A d \in Cores \ {c} : pc'[d] = pc[d]
      /\ pc'[c] # "out" => /\ depth' = depth
                           /\ pc[c] \in Taking => pc'[c] \in Taking
                           /\ pc[c] \in Giving => pc'[c] \in Giving
      /\ pc'[c] = "out" /\ pc[c] \in Taking =>
           depth' = [depth EXCEPT ![<<c, arg[c]>>] = depth[<<c, arg[c]>>] + 1]
      /\ pc'[c] = "out" /\ pc[c] \in Giving =>
           depth' = [depth EXCEPT ![<<c, arg[c]>>] = depth[<<c, arg[c]>>] - 1]
  BY <1>1, LockEffect
<1>4. pc[c] # "out" BY <1>3 DEF Taking, Giving
<1>5. /\ stack[c] # <<>> /\ ~Nested(c) /\ LockCall(c)
      /\ pc[c] \in Taking => arg[c] \in Gets(c)
      /\ pc[c] \in Giving => arg[c] \in Rels(c)
  BY <1>4 DEF SmpInv, LockCall
<1>6. Gets(c) \cup Rels(c) # {} BY <1>3, <1>5
<1>7. Busy(c) /\ ~Deep(Len(stack[c]), Top(c)) BY <1>5, <1>6, LockOp
<1>8. CASE pc'[c] # "out"
  <2>1. UNCHANGED <<stack, depth>> BY <1>3, <1>8 DEF InLock
  <2>2. Gets(c)' = Gets(c) /\ Rels(c)' = Rels(c) /\ (Nested(c)' <=> Nested(c))
    BY <1>1, <2>1 DEF Gets, Rels, Nested, Op, Top, Busy
  <2>3. LockCall(c)'
    <3>1. (pc[c] \in Giving => pc'[c] \notin Taking) /\ (pc[c] \in Taking => pc'[c] \notin Giving)
      BY <1>3, <1>8 DEF Taking, Giving
    <3> QED BY <1>3, <1>5, <1>8, <2>1, <2>2, <3>1 DEF LockCall
  <2>4. CoreOK(c)' BY <1>1, <2>1 DEF SmpInv, CoreOK, Holds, kernelVars
  <2>5. TaskPart(c)' BY <1>1, <2>1 DEF SmpInv, TaskPart, kernelVars
  <2>6. Asked(c)' BY <1>1, <2>1 DEF SmpInv, Asked, Busy, Top, kernelVars
  <2>7. Suspensions' BY <1>1 DEF SmpInv, Suspensions, kernelVars
  <2>8. Elsewhere(c) BY <1>1, <1>3, <2>1 DEF SmpInv, SmpTypeOK, Elsewhere, kernelVars
  <2>9. stack' \in [Cores -> Seq(Frames)] /\ \A d \in Cores \ {c} : stack'[d] = stack[d]
    BY <2>1 DEF SmpInv, SmpTypeOK
  <2> QED BY <1>2, <2>3, <2>4, <2>5, <2>6, <2>7, <2>8, <2>9, Assemble
<1>9. CASE pc'[c] = "out"
  <2>1. PICK f : f = Top(c) OBVIOUS
  <2>2. PICK n \in Nat \ {0} : n = Len(stack[c]) BY <1>7, TopFacts
  <2>3. /\ FrameOK(f) /\ Op(c) = OpOf(f)
        /\ TopPlace(n, f, mask[c], nest[c], depth[<<c, "TASK">>] - mine[c], depth[<<c, "ISR">>])
    BY <1>7, <2>1, <2>2, TopFacts
  <2>4. /\ depth[<<c, "TASK">>] \in Nat /\ depth[<<c, "ISR">>] \in Nat /\ mine[c] \in Nat
        /\ depth \in [Cores \X {"TASK", "ISR"} -> 0 .. MaxDepth]
    BY SmpAssumption, SpinLockAssumption DEF SmpInv, SmpTypeOK, SpinInv, SpinTypeOK
  <2>5. /\ OpOf(f) = "getTASK" => pc[c] \in Taking /\ arg[c] = "TASK"
        /\ OpOf(f) = "getISR" => pc[c] \in Taking /\ arg[c] = "ISR"
        /\ OpOf(f) = "relTASK" => pc[c] \in Giving /\ arg[c] = "TASK"
        /\ OpOf(f) = "relISR" => pc[c] \in Giving /\ arg[c] = "ISR"
        /\ OpOf(f) \in {"getTASK", "getISR", "relTASK", "relISR"}
    BY <1>3, <1>5, <2>3 DEF Gets, Rels
  <2>6. /\ ~Last(f) /\ ~Open(f) /\ ~Open(On(f)) /\ NestIn(f) = NestIn(On(f))
    BY <2>3, <2>5, AtGet, AtRel
  <2>7. /\ ~Deep(n, f) /\ ~Deep(n, On(f)) BY <1>7, <2>1, <2>2, <2>3, <2>5, <2>6, OnDeep
  <2>8. /\ mask[c] /\ nest[c] = NestIn(f) /\ depth[<<c, "TASK">>] - mine[c] = TaskHeld(f)
        /\ depth[<<c, "ISR">>] = IsrHeld(f)
    BY <2>3, <2>6, <2>7 DEF TopPlace
  <2>9. depth'[<<c, "TASK">>] - mine[c] = TaskHeld(On(f)) /\ depth'[<<c, "ISR">>] = IsrHeld(On(f))
    <3>0. TaskHeld(f) \in Int /\ TaskHeld(On(f)) \in Int /\ IsrHeld(f) \in Int /\ IsrHeld(On(f)) \in Int
      BY DEF TaskHeld, IsrHeld
    <3>1. CASE OpOf(f) = "getTASK"
      <4>1. depth'[<<c, "TASK">>] = depth[<<c, "TASK">>] + 1 /\ depth'[<<c, "ISR">>] = depth[<<c, "ISR">>]
        BY <1>3, <1>9, <2>4, <2>5, <3>1
      <4>2. TaskHeld(On(f)) = TaskHeld(f) + 1 /\ IsrHeld(On(f)) = IsrHeld(f) + 0
        BY <2>3, <3>1, AtGet
      <4> QED BY <2>4, <2>8, <3>0, <4>1, <4>2
    <3>2. CASE OpOf(f) = "getISR"
      <4>1. depth'[<<c, "TASK">>] = depth[<<c, "TASK">>] /\ depth'[<<c, "ISR">>] = depth[<<c, "ISR">>] + 1
        BY <1>3, <1>9, <2>4, <2>5, <3>2
      <4>2. TaskHeld(On(f)) = TaskHeld(f) + 0 /\ IsrHeld(On(f)) = IsrHeld(f) + 1
        BY <2>3, <3>2, AtGet
      <4> QED BY <2>4, <2>8, <3>0, <4>1, <4>2
    <3>3. CASE OpOf(f) = "relTASK"
      <4>1. depth'[<<c, "TASK">>] = depth[<<c, "TASK">>] - 1 /\ depth'[<<c, "ISR">>] = depth[<<c, "ISR">>]
        BY <1>3, <1>9, <2>4, <2>5, <3>3
      <4>2. TaskHeld(f) = TaskHeld(On(f)) + 1 /\ IsrHeld(f) = IsrHeld(On(f)) + 0
        BY <2>3, <3>3, AtRel
      <4> QED BY <2>4, <2>8, <3>0, <4>1, <4>2
    <3>4. CASE OpOf(f) = "relISR"
      <4>1. depth'[<<c, "TASK">>] = depth[<<c, "TASK">>] /\ depth'[<<c, "ISR">>] = depth[<<c, "ISR">>] - 1
        BY <1>3, <1>9, <2>4, <2>5, <3>4
      <4>2. TaskHeld(f) = TaskHeld(On(f)) + 0 /\ IsrHeld(f) = IsrHeld(On(f)) + 1
        BY <2>3, <3>4, AtRel
      <4> QED BY <2>4, <2>8, <3>0, <4>1, <4>2
    <3> QED BY <2>5, <3>1, <3>2, <3>3, <3>4
  <2>10. TopPlace(n, On(f), mask'[c], nest'[c], depth'[<<c, "TASK">>] - mine[c], depth'[<<c, "ISR">>])
    BY <1>1, <2>6, <2>7, <2>8, <2>9 DEF TopPlace
  <2>11. stack' = WithTop(c, On(f))
    <3>1. Advance(c) BY <1>9 DEF InLock
    <3> QED BY <2>1, <2>3, <2>5, <2>6, <3>1, NextStep
  <2>12. Advances(c) BY <1>1, <2>1, <2>2, <2>5, <2>6, <2>10, <2>11 DEF Advances, kernelVars
  <2>13. Elsewhere(c)
    <3>1. \A d \in Cores \ {c} : /\ depth'[<<d, "TASK">>] = depth[<<d, "TASK">>]
                                 /\ depth'[<<d, "ISR">>] = depth[<<d, "ISR">>]
      BY <1>3, <1>9, <2>4
    <3> QED BY <1>1, <1>3, <3>1 DEF SmpInv, SmpTypeOK, Elsewhere, kernelVars
  <2> QED BY <1>2, <1>7, <1>9, <2>12, <2>13, AdvanceKeeps
<1> QED BY <1>8, <1>9


(* ------------------------------ the invariant ------------------------------ *)

\* SmpInv holds before the scheduler has started anything on any core.
LEMMA SmpInvInit == SmpInit => SmpInv
<1> SUFFICES ASSUME SmpInit PROVE SmpInv
  OBVIOUS
<1>1. SpinInv BY SpinInvInit DEF SmpInit
<1>2. SmpTypeOK /\ Suspensions BY DEF SmpInit, SmpTypeOK, Suspensions
<1>3. ASSUME NEW c \in Cores PROVE CoreOK(c) /\ LockCall(c) /\ TaskPart(c) /\ Asked(c)
  <2>1. /\ stack[c] = <<>> /\ ~mask[c] /\ nest[c] = 0 /\ mine[c] = 0 /\ ~asked[c] /\ pc[c] = "out"
        /\ Holds(c, "TASK") = 0 /\ Holds(c, "ISR") = 0
    BY <1>3, SmpAssumption DEF SmpInit, SpinInit, Holds
  <2>2. Len(stack[c]) = 0 /\ stack[c] \in Seq(Frames) BY <2>1
  <2>3. Shape(stack[c]) BY <2>2 DEF Shape
  <2>4. Place(stack[c], mask[c], nest[c], Holds(c, "TASK") - mine[c], Holds(c, "ISR"))
    BY <2>1 DEF Place
  <2>5. TaskPart(c) BY <2>2 DEF TaskPart
  <2> QED BY <2>1, <2>3, <2>4, <2>5 DEF CoreOK, LockCall, Asked
<1> QED BY <1>1, <1>2, <1>3 DEF SmpInv

\* Every step of every core keeps SmpInv.
LEMMA SmpInvNext == SmpInv /\ [SmpNext]_smpVars => SmpInv'
<1> SUFFICES ASSUME SmpInv, [SmpNext]_smpVars PROVE SmpInv'
  OBVIOUS
<1>1. CASE UNCHANGED smpVars
  <2>1. SpinInv'
    BY <1>1 DEF smpVars, SmpInv, SpinInv, SpinTypeOK, OneHas, HasLocks, OwnedIffHas,
                RecursionCounts, RecursionCount, Has, InCall
  <2>2. SmpTypeOK' /\ Suspensions' BY <1>1 DEF smpVars, SmpInv, SmpTypeOK, Suspensions
  <2>3. ASSUME NEW c \in Cores PROVE (CoreOK(c) /\ LockCall(c) /\ TaskPart(c) /\ Asked(c))'
    <3>1. CoreOK(c) /\ LockCall(c) /\ TaskPart(c) /\ Asked(c) BY <2>3 DEF SmpInv
    <3>2. CoreOK(c)' BY <1>1, <3>1 DEF smpVars, CoreOK, Holds
    <3>3. LockCall(c)' BY <1>1, <3>1 DEF smpVars, LockCall, Gets, Rels, Op, Busy, Top, Nested
    <3>4. TaskPart(c)' BY <1>1, <3>1 DEF smpVars, TaskPart
    <3>5. Asked(c)' BY <1>1, <3>1 DEF smpVars, Asked, Busy, Top
    <3> QED BY <3>2, <3>3, <3>4, <3>5
  <2> QED BY <2>1, <2>2, <2>3 DEF SmpInv
<1>2. CASE SmpNext
  <2>1. PICK c \in Cores : Step(c) \/ CallTask(c) \/ TakeInterrupt(c) BY <1>2 DEF SmpNext
  <2>2. CASE Mask(c) \/ Unmask(c) BY <2>2, MaskKeeps, UnmaskKeeps
  <2>3. CASE CallLock(c) \/ SkipLock(c) \/ InLock(c)
    BY <2>3, CallLockKeeps, SkipLockKeeps, InLockKeeps
  <2>4. CASE Enter(c) \/ Leave(c) BY <2>4, EnterKeeps, LeaveKeeps
  <2>5. CASE Check(c) \/ LeaveForYield(c) \/ Again(c)
    BY <2>5, CheckKeeps, LeaveForYieldKeeps, AgainKeeps
  <2>6. CASE Body(c) \/ Suspend(c) \/ Resume(c) BY <2>6, BodyKeeps, SuspendKeeps, ResumeKeeps
  <2>7. CASE Yield(c) \/ ClearSwi(c) \/ vTaskSwitchContext(c)
    BY <2>7, YieldKeeps, ClearSwiKeeps, SwitchKeeps
  <2>8. CASE TakeSwi(c) \/ TakeInterrupt(c) BY <2>8, InterruptKeeps
  <2>9. CASE CallTask(c) BY <2>9, CallTaskKeeps
  <2> QED BY <2>1, <2>2, <2>3, <2>4, <2>5, <2>6, <2>7, <2>8, <2>9 DEF Step
<1> QED BY <1>1, <1>2

\* On any number of cores the place of every core in the kernel's functions fixes the
\* interrupt threshold, the nesting count and the locks it has, and a switch that was
\* asked for stays on its way (SmpInv).
THEOREM SmpCorrect == SmpSpec => []SmpInv
  BY SmpInvInit, SmpInvNext, PTL DEF SmpSpec

(* ------------------------------- the properties ------------------------------- *)

\* A core that waits for the TASK lock does not have the ISR lock.
LEMMA TaskBeforeIsr ==
  ASSUME SmpInv, NEW c \in Cores, pc[c] \in Taking, arg[c] = "TASK"
  PROVE  <<c, "ISR">> \notin owned
<1>1. pc[c] # "out" BY DEF Taking
<1>2. "TASK" \in Gets(c) /\ ~Nested(c) BY <1>1 DEF SmpInv, LockCall
<1>3. Op(c) = "getTASK" BY <1>2 DEF Gets
<1>4. Busy(c) /\ ~Deep(Len(stack[c]), Top(c)) BY <1>2, LockOp
<1>5. depth[<<c, "ISR">>] = 0
  <2>1. FrameOK(Top(c)) /\ OpOf(Top(c)) = "getTASK" BY <1>3, <1>4, TopFacts
  <2>2. IsrHeld(Top(c)) = 0 BY <2>1, AtGet
  <2> QED BY <1>4, <2>2, TopFacts DEF TopPlace
<1>6. "ISR" \in Locks BY SmpAssumption
<1> QED BY <1>5, <1>6 DEF SmpInv, SpinInv, OwnedIffHas

\* prvCheckForRunStateChange and vTaskSuspendAll keep the one order of the two locks:
\* on no two cores of any number does each wait for a lock that the other has.
THEOREM NoCircularWaitCorrect == SmpSpec => []NoCircularWait
<1>1. ASSUME SmpInv PROVE NoCircularWait
  <2> SUFFICES ASSUME NEW c \in Cores, NEW e \in Cores, WaitsFor(c, e), WaitsFor(e, c) PROVE FALSE
    BY DEF NoCircularWait
  <2>1. pc[c] \in Taking /\ pc[e] \in Taking BY DEF WaitsFor, Taking
  <2>2. arg[c] \in {"ISR", "TASK"} /\ arg[e] \in {"ISR", "TASK"}
    BY <1>1, SmpAssumption DEF SmpInv, SpinInv, SpinTypeOK
  <2>3. arg[c] # arg[e] BY DEF WaitsFor
  <2> QED BY <1>1, <2>1, <2>2, <2>3, TaskBeforeIsr DEF WaitsFor
<1> QED BY <1>1, SmpCorrect, PTL

\* Where the frames are that are between the locks.
LEMMA AtInside ==
  ASSUME NEW f, FrameOK(f), OpOf(f) \in Inside
  PROVE  /\ ~Open(f) /\ IsrHeld(f) = 1
         /\ f.fn # "isr" => TaskHeld(f) = 1
         /\ f.fn = "critical" => f.pos = 6
  BY DEF OpOf, Prog, vTaskEnterExitCritical, vTaskSuspendAll, xTaskResumeAll, Inside,
         InterruptHandler, xPortTaskSwitch, FrameOK, At, Frames, Open, TaskHeld, IsrHeld


\* A core with a frame between the locks has the ISR lock; where another frame is on
\* top of that one, both are critical sections.
LEMMA InsideHolds ==
  ASSUME SmpInv, NEW c \in Cores, NEW i \in 1 .. Len(stack[c]), OpOf(stack[c][i]) \in Inside
  PROVE  /\ depth[<<c, "ISR">>] > 0
         /\ i # Len(stack[c]) => stack[c][i].fn = "critical" /\ Top(c).fn = "critical"
<1>1. Busy(c)
  <2>1. stack[c] = <<>> => Len(stack[c]) = 0 OBVIOUS
  <2> QED BY <2>1 DEF Busy
<1>2. PICK n \in Nat \ {0} : n = Len(stack[c]) BY <1>1, TopFacts
<1>3. PICK f : f = Top(c) OBVIOUS
<1>4. /\ Shape(stack[c]) /\ FrameOK(f) /\ f = stack[c][n]
      /\ TopPlace(n, f, mask[c], nest[c], depth[<<c, "TASK">>] - mine[c], depth[<<c, "ISR">>])
  BY <1>1, <1>2, <1>3, TopFacts DEF Top
<1>5. FrameOK(stack[c][i]) BY <1>2, <1>4 DEF Shape
<1>6. ~Open(stack[c][i]) BY <1>5, AtInside
<1>7. CASE i = n
  <2>1. IsrHeld(f) = 1 BY <1>4, <1>5, <1>7, AtInside
  <2>2. depth[<<c, "ISR">>] = 1 BY <1>4, <2>1 DEF TopPlace
  <2> QED BY <1>2, <1>7, <2>2
<1>8. CASE i # n
  <2>1. i \in 1 .. n - 1 /\ n > 1 BY <1>2, <1>8
  <2>2. f.fn = "critical" BY <1>2, <1>4, <1>6, <2>1 DEF Shape
  <2>3. stack[c][i].fn = "critical"
    <3>1. Covers(i, stack[c][i], stack[c][i + 1]) BY <1>2, <1>4, <2>1 DEF Shape
    <3> QED BY <1>6, <3>1 DEF Covers, At
  <2>4. depth[<<c, "ISR">>] = 1 BY <1>4, <2>1, <2>2 DEF TopPlace, Deep
  <2> QED BY <1>3, <2>2, <2>3, <2>4
<1> QED BY <1>7, <1>8

\* At most one core is between the locks of a critical section, of a handler, of a
\* change of uxSchedulerSuspended or of vTaskSwitchContext, on any number of cores.
THEOREM CriticalAloneCorrect == SmpSpec => []CriticalAlone
<1>1. ASSUME SmpInv PROVE CriticalAlone
  <2> SUFFICES ASSUME NEW c \in Cores, NEW e \in Cores,
                      NEW i \in 1 .. MaxNest + 2, NEW j \in 1 .. MaxNest + 2,
                      i \in DOMAIN stack[c], OpOf(stack[c][i]) \in Inside,
                      j \in DOMAIN stack[e], OpOf(stack[e][j]) \in Inside
               PROVE  c = e /\ (i = j \/ (stack[c][i].fn = "critical" /\ stack[c][j].fn = "critical"))
    BY DEF CriticalAlone, OpOf
  <2>1. stack[c] \in Seq(Frames) /\ stack[e] \in Seq(Frames)
    BY <1>1 DEF SmpInv, SmpTypeOK
  <2>2. i \in 1 .. Len(stack[c]) /\ j \in 1 .. Len(stack[e]) BY <2>1
  <2>3. depth[<<c, "ISR">>] > 0 /\ depth[<<e, "ISR">>] > 0 BY <1>1, <2>2, InsideHolds
  <2>4. c = e BY <1>1, <2>3, SmpAssumption DEF SmpInv, SpinInv, OneHas, Has
  <2>5. ASSUME i # j PROVE stack[c][i].fn = "critical" /\ stack[c][j].fn = "critical"
    <3>1. i # Len(stack[c]) => stack[c][i].fn = "critical" /\ Top(c).fn = "critical"
      BY <1>1, <2>2, InsideHolds
    <3>2. j # Len(stack[c]) => stack[c][j].fn = "critical" /\ Top(c).fn = "critical"
      BY <1>1, <2>2, <2>4, InsideHolds
    <3> QED BY <2>5, <3>1, <3>2 DEF Top
  <2> QED BY <2>4, <2>5
<1> QED BY <1>1, SmpCorrect, PTL

\* While the scheduler is suspended only the core that suspended it is between the
\* locks of a task's critical section or of vTaskSwitchContext.
THEOREM SuspendedAloneCorrect == SmpSpec => []SuspendedAlone
<1>1. ASSUME SmpInv PROVE SuspendedAlone
  <2> SUFFICES ASSUME NEW c \in Cores, susp # 0, Op(c) \in Inside, Top(c).fn # "isr"
               PROVE  mine[c] = susp
    BY DEF SuspendedAlone
  <2>1. Busy(c) BY DEF Op, Inside
  <2>2. PICK n \in Nat \ {0} : n = Len(stack[c]) BY <1>1, <2>1, TopFacts
  <2>3. /\ FrameOK(Top(c)) /\ OpOf(Top(c)) \in Inside
        /\ TopPlace(n, Top(c), mask[c], nest[c], depth[<<c, "TASK">>] - mine[c], depth[<<c, "ISR">>])
    BY <1>1, <2>1, <2>2, TopFacts
  <2>4. TaskHeld(Top(c)) = 1 BY <2>3, AtInside
  <2>5. depth[<<c, "TASK">>] - mine[c] = 1 BY <2>3, <2>4 DEF TopPlace
  <2>6. mine[c] \in Nat /\ depth[<<c, "TASK">>] \in Nat
    BY <1>1, SmpAssumption, SpinLockAssumption DEF SmpInv, SmpTypeOK, SpinInv, SpinTypeOK
  <2>7. depth[<<c, "TASK">>] > 0 BY <2>5, <2>6
  <2> QED BY <1>1, <2>7, HolderSuspends
<1> QED BY <1>1, SmpCorrect, PTL

\* The only masks after the first step are those of prvCheckForRunStateChange.
LEMMA AtMaskAgain ==
  ASSUME NEW f, FrameOK(f), OpOf(f) = "mask", f.pos > 1
  PROVE  At(f, "critical", {17}) \/ At(f, "suspend", {11})
  BY DEF OpOf, Prog, vTaskEnterExitCritical, vTaskSuspendAll, xTaskResumeAll,
         InterruptHandler, xPortTaskSwitch, FrameOK, At, Frames

\* The assertions of vTaskSwitchContext and prvCheckForRunStateChange hold: no switch in
\* a critical section, and a task that let interrupts in to be switched has been.
THEOREM SwitchAssertsCorrect == SmpSpec => []SwitchAsserts
<1>1. ASSUME SmpInv, NEW c \in Cores, Doing(c, "switch") PROVE nest[c] = 0
  <2>1. Busy(c) /\ OpOf(Top(c)) = "switch" BY <1>1, DoingFacts
  <2>2. /\ FrameOK(Top(c)) /\ TopPlace(Len(stack[c]), Top(c), mask[c], nest[c],
                                       depth[<<c, "TASK">>] - mine[c], depth[<<c, "ISR">>])
    BY <1>1, <2>1, TopFacts
  <2>3. At(Top(c), "switch", {5}) BY <2>1, <2>2, AtWork
  <2> QED BY <2>2, <2>3 DEF TopPlace, Deep, NestIn, At
<1>2. ASSUME SmpInv, NEW c \in Cores, Doing(c, "mask"), Top(c).pos > 1 PROVE ~asked[c]
  <2>1. Busy(c) /\ OpOf(Top(c)) = "mask" BY <1>2, DoingFacts
  <2>2. PICK n \in Nat \ {0} : n = Len(stack[c]) BY <1>2, <2>1, TopFacts
  <2>3. /\ FrameOK(Top(c)) /\ Straight(n, Top(c)) /\ TaskFrame(Top(c), mine[c])
        /\ TopPlace(n, Top(c), mask[c], nest[c], depth[<<c, "TASK">>] - mine[c], depth[<<c, "ISR">>])
    BY <1>2, <2>1, <2>2, TopFacts
  <2>4. At(Top(c), "critical", {17}) \/ At(Top(c), "suspend", {11}) BY <1>2, <2>1, <2>3, AtMaskAgain
  <2>5. n = 1
    <3>1. n = 1 \/ n > 1 OBVIOUS
    <3>2. At(Top(c), "suspend", {11}) => n = 1 BY <1>2, <2>1, <2>2, TaskFirst DEF At
    <3> QED BY <2>3, <2>4, <3>1, <3>2 DEF Straight, Deep, At
  <2>6. ~mask[c]
    <3>1. Open(Top(c)) BY <2>4 DEF Open, At
    <3>2. ~Deep(n, Top(c)) BY <2>5 DEF Deep
    <3> QED BY <2>3, <3>1, <3>2 DEF TopPlace
  <2>7. mine[c] = 0 BY <2>3, <2>4 DEF TaskFrame, At
  <2>8. Top(c) = stack[c][1] /\ DOMAIN stack[c] = {1}
    <3>1. stack[c] \in Seq(Frames) BY <1>2 DEF SmpInv, SmpTypeOK
    <3>2. DOMAIN stack[c] = 1 .. n BY <2>2, <3>1, LenProperties
    <3>3. DOMAIN stack[c] = {1} BY <2>5, <3>2
    <3> QED BY <2>2, <2>5, <3>3 DEF Top
  <2>9. ~InInterrupt(c) BY <2>4, <2>8 DEF InInterrupt, At
  <2>10. ~swi[c] BY <1>2, <2>6, <2>9 DEF Doing, SwiDue
  <2> QED BY <1>2, <2>4, <2>7, <2>8, <2>10 DEF SmpInv, Asked, Resuming, At
<1>3. SmpInv => SwitchAsserts BY <1>1, <1>2 DEF SwitchAsserts
<1> QED BY <1>3, SmpCorrect, PTL
===============================================================================
