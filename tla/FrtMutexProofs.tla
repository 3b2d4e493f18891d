---------------------------- MODULE FrtMutexProofs ----------------------------
(***************************************************************************)
(* Theorems about the mutexes of FrtMutex, for every number of tasks, mutexes,   *)
(* priorities, applications and width of the tick counter.  BaseInv counts the  *)
(* mutexes of each task and says where its priority and its waiting come from;  *)
(* it holds for every application.  OneInv and TopInv are about applications     *)
(* whose tasks hold one mutex at a time: who waits, who has lent a priority to   *)
(* whom, and which task will take a mutex that has been given back.             *)
(***************************************************************************)
EXTENDS FrtMutex, FrtKernelProofs

(* ------------------------------ ordered lists ----------------------------- *)

\* A list in the order of the priorities at creation, the first waiter being the first.
Sorted(s) == \A i, j \in 1 .. Len(s) : i < j => BasePrio[s[i]] >= BasePrio[s[j]]

\* Priorities at creation are numbers above the idle task's.
LEMMA BaseTypes == \A t \in Tasks : BasePrio[t] \in Nat /\ BasePrio[t] > 0
  BY KernelAssumption

\* The first waiter is a waiter of the highest priority (listGET_HEAD_ENTRY in
\* prvGetDisinheritPriorityAfterTimeout and xTaskRemoveFromEventList).
LEMMA HeadHighest ==
  ASSUME NEW s, List(s), Sorted(s), NEW t \in ToSet(s)
  PROVE  Head(s) \in Tasks /\ BasePrio[t] <= BasePrio[Head(s)]
<1>1. s \in Seq(Tasks) /\ Len(s) \in Nat BY DEF List
<1>2. PICK j \in 1 .. Len(s) : t = s[j] BY <1>1, InList
<1>3. 1 \in 1 .. Len(s) /\ Head(s) = s[1] /\ s[1] \in Tasks /\ s[j] \in Tasks BY <1>1
<1>4. BasePrio[s[1]] \in Nat /\ BasePrio[s[j]] \in Nat BY <1>3, BaseTypes
<1>5. CASE j = 1 BY <1>2, <1>3, <1>4, <1>5
<1>6. CASE j # 1 BY <1>2, <1>3, <1>4, <1>6 DEF Sorted
<1> QED BY <1>5, <1>6

\* The list without its first waiter is in order.
LEMMA TailSorted ==
  ASSUME NEW s, List(s), Sorted(s), s # <<>>
  PROVE  Sorted(Tail(s))
<1>1. s \in Seq(Tasks) /\ Len(s) \in Nat \ {0} BY DEF List
<1>2. Len(Tail(s)) = Len(s) - 1 /\ \A i \in 1 .. Len(s) - 1 : Tail(s)[i] = s[i + 1] BY <1>1
<1>3. \A i \in 1 .. Len(s) - 1 : i + 1 \in 1 .. Len(s) BY <1>1
<1>4. ASSUME NEW i \in 1 .. Len(s) - 1, NEW j \in 1 .. Len(s) - 1, i < j
      PROVE  BasePrio[Tail(s)[i]] >= BasePrio[Tail(s)[j]]
  <2>1. i + 1 < j + 1 /\ i + 1 \in 1 .. Len(s) /\ j + 1 \in 1 .. Len(s) BY <1>1, <1>4
  <2>2. BasePrio[s[i + 1]] >= BasePrio[s[j + 1]] BY <2>1 DEF Sorted
  <2> QED BY <1>2, <2>2
<1> QED BY <1>2, <1>4 DEF Sorted

\* A list in order with one more waiter that is not above any of them.
LEMMA AppendSorted ==
  ASSUME NEW s \in Seq(Tasks), Sorted(s), NEW t \in Tasks, \A u \in ToSet(s) : BasePrio[u] >= BasePrio[t]
  PROVE  Sorted(Append(s, t))
<1>1. /\ Len(Append(s, t)) = Len(s) + 1 /\ Len(s) \in Nat /\ Append(s, t)[Len(s) + 1] = t
      /\ \A i \in 1 .. Len(s) : Append(s, t)[i] = s[i] /\ s[i] \in ToSet(s)
  BY InList
<1>2. ASSUME NEW i \in 1 .. Len(s) + 1, NEW j \in 1 .. Len(s) + 1, i < j
      PROVE  BasePrio[Append(s, t)[i]] >= BasePrio[Append(s, t)[j]]
  <2>1. i \in 1 .. Len(s) BY <1>1, <1>2
  <2>2. CASE j = Len(s) + 1 BY <1>1, <2>1, <2>2
  <2>3. CASE j # Len(s) + 1
    <3>1. j \in 1 .. Len(s) BY <1>1, <2>3
    <3> QED BY <1>1, <1>2, <2>1, <3>1 DEF Sorted
  <2> QED BY <2>2, <2>3
<1> QED BY <1>1, <1>2 DEF Sorted

\* Waiters that leave a list because their time is over leave it in order.
LEMMA WithoutSorted ==
  ASSUME NEW s, List(s), Sorted(s), NEW S
  PROVE  Sorted(Without(s, S))
<1>0. s \in Seq(Tasks) /\ Len(s) \in Nat /\ Len(s) \in 0 .. Len(s) BY DEF List
<1>1. PICK f : f = CHOOSE g : Keeps(s, S, g, Len(s)) OBVIOUS
<1>2. Keeps(s, S, f, Len(s)) BY <1>0, <1>1, KeepsExists
<1>3. Without(s, S) = f[Len(s)] BY <1>1 DEF Without, Keeps
<1>4. \A i \in 0 .. Len(s) : f[i] = IF i = 0 THEN <<>> ELSE IF s[i] \in S THEN f[i - 1] ELSE Append(f[i - 1], s[i])
  BY <1>2, Zenon DEF Keeps
<1> DEFINE T == {m \in Nat : m <= Len(s) => Sorted(f[m])}
<1>5. 0 \in T
  <2>1. f[0] = <<>> BY <1>0, <1>4
  <2> QED BY <2>1 DEF Sorted
<1>6. ASSUME NEW m \in Nat, m \in T PROVE m + 1 \in T
  <2> SUFFICES ASSUME m + 1 <= Len(s) PROVE Sorted(f[m + 1]) OBVIOUS
  <2>1. m + 1 \in 0 .. Len(s) /\ (m + 1) - 1 = m /\ m + 1 # 0 /\ m + 1 \in 1 .. Len(s) /\ m \in 0 .. Len(s) BY <1>0
  <2>2. Sorted(f[m]) BY <1>0, <1>6
  <2>3. f[m + 1] = IF s[m + 1] \in S THEN f[m] ELSE Append(f[m], s[m + 1]) BY <1>4, <2>1
  <2>4. CASE s[m + 1] \in S BY <2>2, <2>3, <2>4
  <2>5. CASE s[m + 1] \notin S
    <3>1. PICK g, u : g = f[m] /\ u = s[m + 1] OBVIOUS
    <3>2. u \in Tasks BY <1>0, <2>1, <3>1
    <3>3. List(g) /\ \A t : t \in ToSet(g) <=> \E j \in 1 .. m : t = s[j] /\ t \notin S
      <4>1. m \in 0 .. Len(s) /\ Keeps(s, S, f, Len(s)) /\ List(s) BY <1>2, <2>1
      <4>2. List(f[m]) /\ \A t : t \in ToSet(f[m]) <=> \E j \in 1 .. m : t = s[j] /\ t \notin S
        BY ONLY <4>1, KeepsRest
      <4> QED BY <3>1, <4>2
    <3>4. ASSUME NEW t \in ToSet(g) PROVE BasePrio[t] >= BasePrio[u]
      <4>1. PICK j \in 1 .. m : t = s[j] BY <3>3
      <4>2. j \in 1 .. Len(s) /\ j < m + 1 BY <1>0
      <4> QED BY <2>1, <3>1, <4>1, <4>2 DEF Sorted
    <3>5. g \in Seq(Tasks) BY <3>3 DEF List
    <3>6. Sorted(Append(g, u)) BY <2>2, <3>1, <3>2, <3>4, <3>5, AppendSorted
    <3> QED BY <2>3, <2>5, <3>1, <3>6
  <2> QED BY <2>4, <2>5
<1>7. Nat \subseteq T
  <2> HIDE DEF T
  <2> QED BY <1>5, <1>6, Reaches
<1>8. Len(s) \in T BY <1>0, <1>7
<1> QED BY <1>0, <1>3, <1>8

\* A list in order with a new waiter behind those that are not below it.
LEMMA PutSorted ==
  ASSUME NEW s, List(s), Sorted(s), NEW t \in Tasks, NEW n \in 0 .. Len(s), NEW r, PutAt(s, n, t, r),
         \A i \in 1 .. n : BasePrio[s[i]] >= BasePrio[t],
         n < Len(s) => BasePrio[s[n + 1]] < BasePrio[t]
  PROVE  Sorted(r)
<1>1. s \in Seq(Tasks) /\ Len(s) \in Nat BY DEF List
<1>2. BasePrio[t] \in Nat /\ \A i \in 1 .. Len(s) : BasePrio[s[i]] \in Nat BY <1>1, BaseTypes
<1>3. ASSUME NEW i \in n + 1 .. Len(s) PROVE BasePrio[s[i]] <= BasePrio[t]
  <2>1. n < Len(s) /\ n + 1 \in 1 .. Len(s) /\ i \in 1 .. Len(s) BY <1>1
  <2>2. CASE i = n + 1 BY <1>2, <2>1, <2>2
  <2>3. CASE i # n + 1
    <3>1. n + 1 < i BY <1>1, <2>3
    <3>2. BasePrio[s[n + 1]] >= BasePrio[s[i]] BY <2>1, <3>1 DEF Sorted
    <3> QED BY <1>2, <2>1, <3>2
  <2> QED BY <2>2, <2>3
<1>4. ASSUME NEW i \in 1 .. Len(s) + 1
      PROVE  \/ i \in 1 .. n /\ i \in 1 .. Len(s) /\ r[i] = s[i]
             \/ i = n + 1 /\ r[i] = t
             \/ i - 1 \in n + 1 .. Len(s) /\ i - 1 \in 1 .. Len(s) /\ r[i] = s[i - 1]
  <2>1. CASE i <= n
    <3>1. i \in 1 .. n /\ i \in 1 .. Len(s) BY <1>1, <2>1
    <3> QED BY <3>1 DEF PutAt
  <2>2. CASE i = n + 1 BY <2>2 DEF PutAt
  <2>3. CASE i > n + 1
    <3>1. i - 1 \in n + 1 .. Len(s) /\ i - 1 \in 1 .. Len(s) /\ (i - 1) + 1 = i BY <1>1, <2>3
    <3>2. r[(i - 1) + 1] = s[i - 1] BY <3>1 DEF PutAt
    <3> QED BY <3>1, <3>2
  <2>4. i <= n \/ i = n + 1 \/ i > n + 1 BY <1>1
  <2> QED BY <2>1, <2>2, <2>3, <2>4
<1>5. ASSUME NEW i \in 1 .. Len(s) + 1, NEW j \in 1 .. Len(s) + 1, i < j
      PROVE  BasePrio[r[i]] >= BasePrio[r[j]]
  <2>1. /\ \/ i \in 1 .. n /\ i \in 1 .. Len(s) /\ r[i] = s[i]
           \/ i = n + 1 /\ r[i] = t
           \/ i - 1 \in n + 1 .. Len(s) /\ i - 1 \in 1 .. Len(s) /\ r[i] = s[i - 1]
        /\ \/ j \in 1 .. n /\ j \in 1 .. Len(s) /\ r[j] = s[j]
           \/ j = n + 1 /\ r[j] = t
           \/ j - 1 \in n + 1 .. Len(s) /\ j - 1 \in 1 .. Len(s) /\ r[j] = s[j - 1]
    BY <1>4
  <2>2. CASE i \in 1 .. n /\ i \in 1 .. Len(s) /\ r[i] = s[i]
    <3>1. CASE j \in 1 .. n /\ j \in 1 .. Len(s) /\ r[j] = s[j] BY <1>5, <2>2, <3>1 DEF Sorted
    <3>2. CASE j = n + 1 /\ r[j] = t BY <2>2, <3>2
    <3>3. CASE j - 1 \in n + 1 .. Len(s) /\ j - 1 \in 1 .. Len(s) /\ r[j] = s[j - 1]
      <4>1. i < j - 1 BY <1>1, <2>2, <3>3
      <4> QED BY <2>2, <3>3, <4>1 DEF Sorted
    <3> QED BY <2>1, <3>1, <3>2, <3>3
  <2>3. CASE i = n + 1 /\ r[i] = t
    <3>1. j - 1 \in n + 1 .. Len(s) /\ j - 1 \in 1 .. Len(s) /\ r[j] = s[j - 1] BY <1>1, <1>5, <2>1, <2>3
    <3> QED BY <1>2, <1>3, <2>3, <3>1
  <2>4. CASE i - 1 \in n + 1 .. Len(s) /\ i - 1 \in 1 .. Len(s) /\ r[i] = s[i - 1]
    <3>1. j - 1 \in 1 .. Len(s) /\ r[j] = s[j - 1] BY <1>1, <1>5, <2>1, <2>4
    <3>2. i - 1 < j - 1 BY <1>1, <1>5
    <3> QED BY <2>4, <3>1, <3>2 DEF Sorted
  <2> QED BY <2>1, <2>2, <2>3, <2>4
<1>6. Len(r) = Len(s) + 1 BY DEF PutAt
<1> QED BY <1>5, <1>6 DEF Sorted

\* vListInsert keeps an event list in order while no waiter has an inherited priority.
LEMMA InsertedSorted ==
  ASSUME NEW x, NEW s, List(s), Sorted(s), NEW t \in Tasks \ ToSet(s), x.prio[t] = BasePrio[t],
         \A u \in ToSet(s) : x.prio[u] = BasePrio[u]
  PROVE  Sorted(Inserted(x, s, t))
<1>1. s \in Seq(Tasks) /\ Len(s) \in Nat /\ DOMAIN s = 1 .. Len(s) BY DEF List
<1>2. PICK S : S = {i \in DOMAIN s : x.prio[s[i]] < x.prio[t]} \cup {Len(s) + 1} OBVIOUS
<1>3. S \subseteq 1 .. Len(s) + 1 /\ S # {} /\ S \subseteq Nat BY <1>1, <1>2
<1>4. Min(S) \in S /\ \A j \in S : Min(S) <= j BY <1>3, MinLeast
<1>5. PICK n : n = Min(S) - 1 OBVIOUS
<1>6. n \in 0 .. Len(s) /\ n + 1 \in S /\ \A j \in S : n + 1 <= j
  <2>0. Min(S) \in 1 .. Len(s) + 1 BY <1>3, <1>4
  <2>1. n + 1 = Min(S) BY <1>1, <1>5, <2>0
  <2>2. n \in 0 .. Len(s) BY <1>1, <1>5, <2>0
  <2> QED BY <1>4, <2>1, <2>2
<1>7. PICK r : r = Inserted(x, s, t) OBVIOUS
<1>8. r = SubSeq(s, 1, n) \o <<t>> \o SubSeq(s, n + 1, Len(s)) BY <1>2, <1>5, <1>7, Zenon DEF Inserted
<1>9. PutAt(s, n, t, r) BY <1>6, <1>8, InsertedJoins
<1>10. BasePrio[t] \in Nat /\ \A i \in 1 .. Len(s) : BasePrio[s[i]] \in Nat /\ x.prio[s[i]] = BasePrio[s[i]]
  BY <1>1, BaseTypes, InList
<1>11. ASSUME NEW i \in 1 .. n PROVE BasePrio[s[i]] >= BasePrio[t]
  <2>1. i \in 1 .. Len(s) /\ ~(n + 1 <= i) BY <1>1, <1>6
  <2>2. i \notin S BY <1>6, <2>1
  <2>3. ~(x.prio[s[i]] < x.prio[t]) BY <1>1, <1>2, <2>1, <2>2
  <2> QED BY <1>10, <2>1, <2>3
<1>12. n < Len(s) => BasePrio[s[n + 1]] < BasePrio[t]
  <2> SUFFICES ASSUME n < Len(s) PROVE BasePrio[s[n + 1]] < BasePrio[t] OBVIOUS
  <2>1. n + 1 \in 1 .. Len(s) /\ n + 1 # Len(s) + 1 BY <1>1, <1>6
  <2>2. x.prio[s[n + 1]] < x.prio[t] BY <1>2, <1>6, <2>1
  <2> QED BY <1>10, <2>1, <2>2
<1>13. Sorted(r)
  <2>1. List(s) /\ Sorted(s) /\ t \in Tasks OBVIOUS
  <2> QED BY ONLY <1>6, <1>9, <1>11, <1>12, <2>1, PutSorted
<1> QED BY <1>7, <1>13

(* ------------------------- what holds in every state ---------------------- *)

\* A step of an application's script.
Steps == [op : {"take", "give", "delay"}, mutex : Mutexes, wait : TickType]

\* A call of xQueueSemaphoreTake.
Calls == [pc : {"idle", "try", "block", "last", "disinherit"}, left : TickType, set : BOOLEAN,
          tick : TickType, over : Overflows, inherited : BOOLEAN]

\* A task in a call takes the mutex that its script names.
CallOK(t) == me[t].pc # "idle" => at[t] \in 1 .. Len(script[t]) /\ script[t][at[t]].op = "take"

TypesOK ==
  /\ script \in Programs /\ ignored \in BOOLEAN
  /\ KernelOK(k) /\ k.susp = 0
  /\ holder \in [Mutexes -> Tasks \cup {Free}] /\ held \in [Tasks -> Nat]
  /\ at \in [Tasks -> Nat \ {0}] /\ me \in [Tasks -> Calls]
  /\ \A t \in Tasks : CallOK(t)

\* uxMutexesHeld counts the mutexes that name the task as their holder.
Holds(t) == {m \in Mutexes : holder[m] = t}
HeldOK == \A t \in Tasks : held[t] = Cardinality(Holds(t))

\* No task is below its base priority, and one that holds no mutex is not above it.
RaisedOK == \A t \in Tasks : k.prio[t] >= BasePrio[t] /\ (k.prio[t] # BasePrio[t] => held[t] > 0)

\* A task in an event list waits for that mutex, with time left.
Waiter(w, m) == me[w].pc = "try" /\ Mutex(w) = m /\ me[w].left # 0
WaitersOK == \A m \in Mutexes : \A w \in ToSet(k.ev[m]) : Waiter(w, m)

\* The current task is ready as long as no switch is requested.
CurOK == ~k.swi => k.cur = Idle \/ k.st[k.cur] = "ready"

BaseInv == TypesOK /\ HeldOK /\ RaisedOK /\ WaitersOK /\ CurOK

\* The fields of a call.
LEMMA CallFields ==
  ASSUME NEW c \in Calls
  PROVE  /\ c.pc \in {"idle", "try", "block", "last", "disinherit"} /\ c.left \in TickType /\ c.set \in BOOLEAN
         /\ c.tick \in TickType /\ c.over \in Overflows /\ c.inherited \in BOOLEAN
  BY DEF Calls

\* NoCall is a call that has not begun.
LEMMA NoCallFields ==
  /\ NoCall \in Calls /\ NoCall.pc = "idle" /\ NoCall.left = 0 /\ NoCall.inherited = FALSE
  BY TickTypes DEF NoCall, Calls, Overflows

\* A step of a script, its mutex and its time to wait.
LEMMA ScriptStep ==
  ASSUME TypesOK, NEW t \in Tasks, at[t] <= Len(script[t])
  PROVE  /\ at[t] \in 1 .. Len(script[t]) /\ script[t] \in Seq(Steps)
         /\ Mutex(t) \in Mutexes /\ script[t][at[t]].wait \in TickType
<1>1. script \in Programs /\ at[t] \in Nat \ {0} BY DEF TypesOK
<1>2. script[t] \in Seq(Steps) BY <1>1, MutexAssumption DEF Steps
<1>3. at[t] \in 1 .. Len(script[t]) BY <1>1, <1>2
<1>4. script[t][at[t]] \in Steps BY <1>2, <1>3
<1> QED BY <1>2, <1>3, <1>4 DEF Steps, Mutex

\* A task in a call asks for a mutex.
LEMMA CallMutex ==
  ASSUME TypesOK, NEW t \in Tasks, me[t].pc # "idle"
  PROVE  Mutex(t) \in Mutexes
<1>1. at[t] <= Len(script[t])
  <2>1. script[t] \in Seq(Steps) BY MutexAssumption DEF TypesOK, Steps
  <2> QED BY <2>1 DEF TypesOK, CallOK
<1> QED BY <1>1, ScriptStep

\* The task that executes its code is ready and in no event list.
LEMMA RunningReady ==
  ASSUME BaseInv, NEW t \in Tasks, Running(k, t)
  PROVE  /\ k \in Kernels /\ KernelOK(k) /\ k.susp = 0 /\ k.cur = t /\ ~k.swi /\ k.st[t] = "ready" /\ t # Idle
         /\ \A m \in Mutexes : t \notin ToSet(k.ev[m]) /\ ToSet(k.ev[m]) \subseteq Tasks /\ List(k.ev[m])
<1>1. KernelOK(k) /\ k \in Kernels /\ k.susp = 0 /\ ListsOK(k) BY DEF BaseInv, TypesOK, KernelOK
<1>2. k.cur = t /\ ~k.swi /\ t # Idle BY KernelAssumption DEF Running
<1>3. k.st[t] = "ready" BY <1>2 DEF BaseInv, CurOK
<1>4. ASSUME NEW m \in Mutexes PROVE t \notin ToSet(k.ev[m]) /\ ToSet(k.ev[m]) \subseteq Tasks /\ List(k.ev[m])
  <2>1. m \in Lists BY MutexAssumption
  <2>2. k.ev[m] \in Seq(Tasks) BY <1>1, <2>1, KernelFields
  <2> QED BY <1>1, <1>3, <2>1, <2>2, InList DEF ListsOK
<1> QED BY <1>1, <1>2, <1>3, <1>4

\* A task holds a mutex exactly when it is counted.
LEMMA HolderCounted ==
  ASSUME BaseInv, NEW t \in Tasks
  PROVE  /\ IsFiniteSet(Holds(t)) /\ held[t] \in Nat
         /\ \A m \in Mutexes : holder[m] = t => held[t] > 0
         /\ held[t] <= 1 => \A m, n \in Mutexes : holder[m] = t /\ holder[n] = t => m = n
         /\ held[t] = 0 => \A m \in Mutexes : holder[m] # t
<1>1. IsFiniteSet(Mutexes) /\ Holds(t) \subseteq Mutexes BY KernelAssumption, MutexAssumption DEF Holds
<1>2. IsFiniteSet(Holds(t)) BY <1>1, FS_Subset
<1>3. held[t] = Cardinality(Holds(t)) /\ held[t] \in Nat BY DEF BaseInv, HeldOK, TypesOK
<1>4. held[t] = 0 <=> Holds(t) = {} BY <1>2, <1>3, FS_EmptySet
<1>5. ASSUME NEW m \in Mutexes, holder[m] = t PROVE held[t] > 0
  <2>1. m \in Holds(t) BY <1>5 DEF Holds
  <2> QED BY <1>3, <1>4, <2>1
<1>6. ASSUME held[t] <= 1, NEW m \in Mutexes, NEW n \in Mutexes, holder[m] = t, holder[n] = t PROVE m = n
  <2>1. m \in Holds(t) /\ n \in Holds(t) BY <1>6 DEF Holds
  <2>2. Cardinality(Holds(t)) = 1 BY <1>3, <1>5, <1>6
  <2>3. PICK S : S = Holds(t) OBVIOUS
  <2>4. \E x : S = {x} BY <1>2, <2>2, <2>3, FS_Singleton
  <2> QED BY <2>1, <2>3, <2>4
<1> QED BY <1>2, <1>3, <1>5, <1>6

(* ---------------------- what a step does to the kernel -------------------- *)

\* Only priorities change.
SamePlaces(x, y) ==
  /\ y.st = x.st /\ y.wake = x.wake /\ y.ev = x.ev /\ y.pending = x.pending
  /\ y.cur = x.cur /\ y.susp = x.susp /\ y.tick = x.tick /\ y.over = x.over /\ y.next = x.next
  /\ y.pended = x.pended /\ y.yield = x.yield /\ y.swi = x.swi

\* A new priority for one task.
WithPriority(x, t, p) == [x EXCEPT !.prio = [x.prio EXCEPT ![t] = p]]

\* A new priority above the idle task's keeps the kernel in order
\* (xTaskPriorityInherit, xTaskPriorityDisinherit): nobody leaves a list.
LEMMA NewPriority ==
  ASSUME NEW x, KernelOK(x), NEW t \in Tasks, NEW p \in Nat, p > 0, NEW y, y = WithPriority(x, t, p)
  PROVE  /\ KernelOK(y) /\ SamePlaces(x, y) /\ y.prio[t] = p
         /\ \A u \in Tasks \ {t} : y.prio[u] = x.prio[u]
<1>1. x \in Kernels /\ x.prio \in [Tasks -> Nat] BY KernelFields DEF KernelOK
<1>2. PICK b : b = [x.prio EXCEPT ![t] = p] OBVIOUS
<1>3. b \in [Tasks -> Nat] /\ b[t] = p /\ \A u \in Tasks \ {t} : b[u] = x.prio[u] BY <1>1, <1>2
<1>4. y = [x EXCEPT !.prio = b] BY <1>2 DEF WithPriority
<1>5. y \in Kernels /\ SamePlaces(x, y) /\ y.prio = b BY <1>1, <1>3, <1>4 DEF Kernels, SamePlaces
<1>6. PrioOK(y)
  <2> SUFFICES ASSUME NEW u \in Tasks PROVE b[u] > 0 BY <1>5 DEF PrioOK
  <2>1. CASE u = t BY <1>3, <2>1
  <2>2. CASE u # t BY <1>3, <2>2 DEF KernelOK, PrioOK
  <2> QED BY <2>1, <2>2
<1>7. KernelOK(y) BY <1>5, <1>6 DEF KernelOK, SamePlaces, ListsOK, TimesOK
<1> QED BY <1>3, <1>5, <1>7

\* The first waiter of a mutex, if there is one, is ready after xQueueGenericSend.
Woken(x, l, y) ==
  /\ KernelOK(y) /\ y.cur = x.cur /\ y.susp = x.susp /\ y.prio = x.prio
  /\ \A u \in Tasks : x.st[u] = "ready" => y.st[u] = "ready"
  /\ \A m \in Lists \ {l} : y.ev[m] = x.ev[m]
  /\ y.ev[l] = Tail(x.ev[l]) /\ y.st[Head(x.ev[l])] = "ready"
  /\ y.swi = (x.swi \/ Outranks(x, Head(x.ev[l])))
  /\ NoneAbove(x) /\ ~y.swi => NoneAbove(y)

\* WakeFirst, for a list that somebody waits in.
LEMMA WakeFirstGives ==
  ASSUME NEW x, KernelOK(x), x.susp = 0, NEW l \in Lists, x.ev[l] # <<>>, NEW y, y = WakeFirst(x, l)
  PROVE  Woken(x, l, y)
<1>1. x \in Kernels /\ List(x.ev[l]) BY DEF KernelOK, ListsOK
<1>2. PICK t \in Tasks : t = Head(x.ev[l]) BY <1>1, TailLeaves
<1>3. PICK z : z = xTaskRemoveFromEventList(x, l) OBVIOUS
<1>4. Tail(x.ev[l]) \in Seq(Tasks) BY <1>1, TailLeaves DEF List
<1>5. /\ KernelOK(z) /\ Wakes(x, z) /\ z.swi = x.swi
      /\ \A m \in Lists \ {l} : z.ev[m] = x.ev[m]
      /\ NoneAbove(x) /\ ~Outranks(x, Head(x.ev[l])) => NoneAbove(z)
      /\ z.ev[l] = Tail(x.ev[l])
  BY <1>3, RemoveKeeps
<1>6. z.st[t] = "ready"
  <2>1. Removed(x, l, t, z) BY <1>1, <1>2, <1>3, <1>4, RemoveFields
  <2>2. x.st \in [Tasks -> States] BY <1>1, KernelFields
  <2> QED BY <2>1, <2>2 DEF Removed
<1>7. CASE Outranks(x, t)
  <2>1. y = portYIELD(z) BY <1>2, <1>3, <1>7 DEF WakeFirst, portYIELD_if
  <2>2. KernelOK(y) /\ OnlySwi(z, y) /\ y.swi BY <1>5, <2>1, YieldKeeps
  <2> QED BY <1>2, <1>5, <1>6, <1>7, <2>2 DEF Woken, OnlySwi, Wakes
<1>8. CASE ~Outranks(x, t)
  <2>1. y = z BY <1>2, <1>3, <1>8 DEF WakeFirst, portYIELD_if
  <2>2. Outranks(x, t) = FALSE BY <1>8 DEF Outranks
  <2>3. x.swi \in BOOLEAN BY <1>1, KernelFields
  <2> QED BY <1>2, <1>5, <1>6, <1>8, <2>1, <2>2, <2>3 DEF Woken, Wakes
<1> QED BY <1>7, <1>8

\* vTaskSwitchContext gives the processor to a ready task of the highest priority.
LEMMA SwitchGives ==
  ASSUME NEW x, KernelOK(x), x.susp = 0, NEW t \in Tasks \cup {Idle}, SwitchTo(x, t),
         NEW y, y = vTaskSwitchContext(x, t)
  PROVE  /\ KernelOK(y) /\ NoneAbove(y) /\ y.cur = t /\ ~y.swi /\ (t = Idle \/ y.st[t] = "ready")
         /\ y.susp = 0 /\ y.st = x.st /\ y.ev = x.ev /\ y.prio = x.prio
<1>1. x \in Kernels BY DEF KernelOK
<1>2. y = [x EXCEPT !.swi = FALSE, !.yield = FALSE, !.cur = t] BY DEF vTaskSwitchContext
<1>3. /\ y \in Kernels /\ y.st = x.st /\ y.wake = x.wake /\ y.ev = x.ev /\ y.pending = x.pending
      /\ y.prio = x.prio /\ y.cur = t /\ y.susp = x.susp /\ y.tick = x.tick /\ y.next = x.next /\ ~y.swi
  <2>1. y \in Kernels BY <1>1, <1>2 DEF Kernels
  <2>2. /\ y.st = x.st /\ y.wake = x.wake /\ y.ev = x.ev /\ y.pending = x.pending /\ y.prio = x.prio
        /\ y.susp = x.susp /\ y.tick = x.tick /\ y.next = x.next
    BY <1>2
  <2>3. y.cur = t /\ ~y.swi BY <1>1, <1>2 DEF Kernels
  <2> QED BY <2>1, <2>2, <2>3
<1>4. KernelOK(y) BY <1>3 DEF KernelOK, PrioOK, ListsOK, TimesOK
<1>5. t \in TopReady(x) BY DEF SwitchTo
<1>6. t = Idle \/ x.st[t] = "ready" BY <1>5 DEF TopReady, On
<1>7. NoneAbove(y)
  <2>1. CASE On(x, "ready") = {} BY <1>3, <2>1 DEF On, NoneAbove
  <2>2. CASE On(x, "ready") # {}
    <3>1. t \in Tasks /\ t # Idle /\ \A u \in On(x, "ready") : x.prio[u] <= x.prio[t]
      BY <1>5, <2>2, KernelAssumption DEF TopReady, On
    <3> QED BY <1>3, <3>1 DEF On, NoneAbove, PrioOf
  <2> QED BY <2>1, <2>2
<1> QED BY <1>3, <1>4, <1>6, <1>7

(* ------------------------ what a step does to a call ---------------------- *)

\* A step of t: the other tasks' calls and places stay.
Moves(t) ==
  /\ script' = script /\ ignored' \in BOOLEAN
  /\ me' \in [Tasks -> Calls] /\ at' \in [Tasks -> Nat \ {0}] /\ CallOK(t)'
  /\ \A u \in Tasks \ {t} : me'[u] = me[u] /\ at'[u] = at[u]

\* The call goes on.
LEMMA CallGoesOn ==
  ASSUME TypesOK, NEW t \in Tasks, NEW c \in Calls, me' = [me EXCEPT ![t] = c], at' = at, script' = script,
         ignored' \in BOOLEAN, c.pc # "idle" => at[t] \in 1 .. Len(script[t]) /\ script[t][at[t]].op = "take"
  PROVE  Moves(t) /\ me'[t] = c
<1>1. me \in [Tasks -> Calls] /\ at \in [Tasks -> Nat \ {0}] BY DEF TypesOK
<1>2. me' \in [Tasks -> Calls] /\ me'[t] = c /\ \A u \in Tasks \ {t} : me'[u] = me[u] BY <1>1
<1>3. CallOK(t)' BY <1>2 DEF CallOK
<1> QED BY <1>1, <1>2, <1>3 DEF Moves

\* The call ends, and the task goes to another place of its script.
LEMMA CallEnds ==
  ASSUME TypesOK, NEW t \in Tasks, NEW a \in Nat \ {0}, me' = [me EXCEPT ![t] = NoCall],
         at' = [at EXCEPT ![t] = a], script' = script, ignored' \in BOOLEAN
  PROVE  Moves(t) /\ me'[t] = NoCall /\ at'[t] = a
<1>1. me \in [Tasks -> Calls] /\ at \in [Tasks -> Nat \ {0}] BY DEF TypesOK
<1>2. /\ me' \in [Tasks -> Calls] /\ me'[t] = NoCall /\ \A u \in Tasks \ {t} : me'[u] = me[u]
      /\ at' \in [Tasks -> Nat \ {0}] /\ at'[t] = a /\ \A u \in Tasks \ {t} : at'[u] = at[u]
  BY <1>1, NoCallFields
<1>3. CallOK(t)' BY <1>2, NoCallFields DEF CallOK
<1> QED BY <1>2, <1>3 DEF Moves

\* Nothing happens in a call.
LEMMA CallStays ==
  ASSUME TypesOK, NEW t \in Tasks, me' = me, at' = at, script' = script, ignored' \in BOOLEAN
  PROVE  Moves(t)
  BY DEF TypesOK, Moves, CallOK

\* A task returns, and goes on with its script.
LEMMA Returned ==
  ASSUME TypesOK, NEW t \in Tasks, Return(t), script' = script, ignored' \in BOOLEAN
  PROVE  Moves(t) /\ me'[t] = NoCall /\ at'[t] = at[t] + 1
<1>1. at[t] \in Nat \ {0} BY DEF TypesOK
<1>2. PICK a \in Nat \ {0} : a = at[t] + 1 BY <1>1
<1>3. me' = [me EXCEPT ![t] = NoCall] /\ at' = [at EXCEPT ![t] = a] BY <1>2 DEF Return
<1> QED BY <1>2, <1>3, CallEnds

\* A task gives up, and goes to the end of its script.
LEMMA GivenUp ==
  ASSUME TypesOK, NEW t \in Tasks, GaveUp(t), script' = script, ignored' \in BOOLEAN
  PROVE  Moves(t) /\ me'[t] = NoCall /\ at'[t] > Len(script[t])
<1>1. script[t] \in Seq(Steps) BY MutexAssumption DEF TypesOK, Steps
<1>2. PICK a \in Nat \ {0} : a = Len(script[t]) + 1 BY <1>1
<1>3. me' = [me EXCEPT ![t] = NoCall] /\ at' = [at EXCEPT ![t] = a] BY <1>2 DEF GaveUp
<1>4. Len(script[t]) \in Nat BY <1>1
<1>5. Moves(t) /\ me'[t] = NoCall /\ at'[t] = a BY <1>2, <1>3, CallEnds
<1>6. a > Len(script[t]) BY <1>2, <1>4
<1> QED BY <1>5, <1>6

\* A task that contends for a mutex: it will find it free if nobody takes it before.
Contending == {"try", "block", "last"}

\* A task that has lent its priority to the holder of a mutex, and not taken it back.
Lent(c) == c.pc # "idle" /\ c.inherited /\ (c.pc = "try" => c.left # 0)

\* A step inside a call that leaves the kernel and the mutexes alone.
CallStep(t) ==
  /\ Running(k, t) /\ Moves(t) /\ k' = k /\ holder' = holder /\ held' = held /\ ignored' = ignored
  /\ me[t].pc = "idle" => at' = at /\ at[t] \in 1 .. Len(script[t]) /\ script[t][at[t]].op = "take"
  /\ me[t].pc \in Contending /\ holder[Mutex(t)] = Free => me'[t].pc \in Contending /\ at'[t] = at[t]
  /\ Lent(me[t]) /\ holder[Mutex(t)] # Free => Lent(me'[t]) /\ at'[t] = at[t]

\* xQueueSemaphoreTake begins.
LEMMA BeginStep ==
  ASSUME BaseInv, NEW t \in Tasks, Begin(t), UNCHANGED <<script, ignored>>
  PROVE  CallStep(t)
<1>1. TypesOK BY DEF BaseInv
<1>2. at[t] <= Len(script[t]) /\ script[t][at[t]].op = "take" /\ Running(k, t) /\ me[t].pc = "idle"
  BY DEF Begin, Todo, At
<1>3. at[t] \in 1 .. Len(script[t]) /\ script[t][at[t]].wait \in TickType BY <1>1, <1>2, ScriptStep
<1>4. PICK c : c = [NoCall EXCEPT !.pc = "try", !.left = script[t][at[t]].wait] OBVIOUS
<1>5. c \in Calls BY <1>3, <1>4, NoCallFields DEF Calls
<1>6. me' = [me EXCEPT ![t] = c] /\ at' = at /\ script' = script BY <1>4 DEF Begin
<1>7. ignored' \in BOOLEAN /\ ignored' = ignored BY <1>1 DEF TypesOK
<1>8. Moves(t) BY <1>1, <1>2, <1>3, <1>5, <1>6, <1>7, CallGoesOn
<1> QED BY <1>2, <1>3, <1>6, <1>7, <1>8 DEF CallStep, Begin, Contending, Lent

\* The mutex is not free: the timeout is set, or nothing was to be waited.
LEMMA MustWaitStep ==
  ASSUME BaseInv, NEW t \in Tasks, MustWait(t), UNCHANGED <<script, ignored>>
  PROVE  CallStep(t)
<1>1. TypesOK /\ me[t] \in Calls /\ ignored' = ignored /\ ignored' \in BOOLEAN /\ script' = script BY DEF BaseInv, TypesOK
<1>2. Running(k, t) /\ me[t].pc = "try" /\ holder[Mutex(t)] # Free /\ k' = k /\ holder' = holder /\ held' = held
  BY DEF MustWait, At
<1>3. CASE me[t].left = 0 /\ GaveUp(t)
  <2>1. Moves(t) BY <1>1, <1>3, GivenUp
  <2> QED BY <1>1, <1>2, <1>3, <2>1 DEF CallStep, Lent
<1>4. CASE ~(me[t].left = 0 /\ GaveUp(t))
  <2>0. me[t].left # 0 /\ at' = at
        /\ me' = [me EXCEPT ![t] = IF @.set THEN [@ EXCEPT !.pc = "block"]
                    ELSE [@ EXCEPT !.pc = "block", !.set = TRUE, !.tick = k.tick, !.over = k.over]]
    BY <1>4 DEF MustWait
  <2>1. PICK c : c = IF me[t].set THEN [me[t] EXCEPT !.pc = "block"]
                     ELSE [me[t] EXCEPT !.pc = "block", !.set = TRUE, !.tick = k.tick, !.over = k.over] OBVIOUS
  <2>2. me' = [me EXCEPT ![t] = c] BY <1>1, <2>0, <2>1 DEF TypesOK
  <2>3. k.tick \in TickType /\ k.over \in Overflows BY <1>1, KernelFields DEF TypesOK, KernelOK
  <2>4. c \in Calls /\ c.pc = "block" /\ c.inherited = me[t].inherited
    <3>1. CASE me[t].set BY <1>1, <2>1, <3>1 DEF Calls
    <3>2. CASE ~me[t].set BY <1>1, <2>1, <2>3, <3>2 DEF Calls
    <3> QED BY <3>1, <3>2
  <2>5. at[t] \in 1 .. Len(script[t]) /\ script[t][at[t]].op = "take" BY <1>1, <1>2 DEF TypesOK, CallOK
  <2>6. Moves(t) /\ me'[t] = c BY <1>1, <2>0, <2>2, <2>4, <2>5, CallGoesOn
  <2> QED BY <1>1, <1>2, <2>0, <2>4, <2>6 DEF CallStep, Lent
<1> QED BY <1>3, <1>4

\* xTaskCheckForTimeOut has seen the time over, or the mutex has been given meanwhile.
LEMMA DontBlockStep ==
  ASSUME BaseInv, NEW t \in Tasks, DontBlock(t), UNCHANGED <<script, ignored>>
  PROVE  CallStep(t)
<1>1. TypesOK /\ me \in [Tasks -> Calls] /\ ignored' = ignored /\ ignored' \in BOOLEAN /\ script' = script
  BY DEF BaseInv, TypesOK
<1>2. Running(k, t) /\ me[t].pc = "block" /\ k' = k /\ holder' = holder /\ held' = held /\ at' = at
  BY DEF DontBlock, At
<1>3. at[t] \in 1 .. Len(script[t]) /\ script[t][at[t]].op = "take" BY <1>1, <1>2 DEF TypesOK, CallOK
<1>4. CASE holder[Mutex(t)] = Free /\ Goto(t, "try")
  <2>1. PICK c : c = [me[t] EXCEPT !.pc = "try"] OBVIOUS
  <2>2. c \in Calls /\ c.pc = "try" /\ c.inherited = me[t].inherited BY <1>1, <2>1 DEF Calls
  <2>3. me' = [me EXCEPT ![t] = c] BY <1>1, <1>4, <2>1 DEF Goto
  <2>4. Moves(t) /\ me'[t] = c BY <1>1, <1>2, <1>3, <2>2, <2>3, CallGoesOn
  <2> QED BY <1>1, <1>2, <1>4, <2>2, <2>4 DEF CallStep, Contending
<1>5. CASE me' = [me EXCEPT ![t].pc = "last", ![t].left = 0]
  <2>1. PICK c : c = [me[t] EXCEPT !.pc = "last", !.left = 0] OBVIOUS
  <2>2. c \in Calls /\ c.pc = "last" /\ c.inherited = me[t].inherited BY <1>1, <2>1, TickTypes DEF Calls
  <2>3. me' = [me EXCEPT ![t] = c]
    <3>1. me[t] = [me[t] EXCEPT !.pc = me[t].pc] BY <1>1 DEF Calls
    <3> QED BY <1>1, <1>5, <2>1
  <2>4. Moves(t) /\ me'[t] = c BY <1>1, <1>2, <1>3, <2>2, <2>3, CallGoesOn
  <2> QED BY <1>1, <1>2, <2>2, <2>4 DEF CallStep, Contending, Lent
<1> QED BY <1>4, <1>5 DEF DontBlock

\* The last look at the mutex, when the time is over.
LEMMA LastLookStep ==
  ASSUME BaseInv, NEW t \in Tasks, LastLook(t), UNCHANGED <<script, ignored>>
  PROVE  CallStep(t)
<1>1. TypesOK /\ me \in [Tasks -> Calls] /\ ignored' = ignored /\ ignored' \in BOOLEAN /\ script' = script
  BY DEF BaseInv, TypesOK
<1>2. Running(k, t) /\ me[t].pc = "last" /\ k' = k /\ holder' = holder /\ held' = held
  BY DEF LastLook, At
<1>3. at[t] \in 1 .. Len(script[t]) /\ script[t][at[t]].op = "take" BY <1>1, <1>2 DEF TypesOK, CallOK
<1>4. CASE holder[Mutex(t)] = Free /\ Goto(t, "try") /\ UNCHANGED at
  <2>1. PICK c : c = [me[t] EXCEPT !.pc = "try"] OBVIOUS
  <2>2. c \in Calls /\ c.pc = "try" BY <1>1, <2>1 DEF Calls
  <2>3. me' = [me EXCEPT ![t] = c] BY <1>1, <1>4, <2>1 DEF Goto
  <2>4. Moves(t) /\ me'[t] = c BY <1>1, <1>3, <1>4, <2>2, <2>3, CallGoesOn
  <2> QED BY <1>1, <1>2, <1>4, <2>2, <2>4 DEF CallStep, Contending
<1>5. CASE holder[Mutex(t)] # Free /\ me[t].inherited /\ Goto(t, "disinherit") /\ UNCHANGED at
  <2>1. PICK c : c = [me[t] EXCEPT !.pc = "disinherit"] OBVIOUS
  <2>2. c \in Calls /\ c.pc = "disinherit" /\ c.inherited = me[t].inherited BY <1>1, <2>1 DEF Calls
  <2>3. me' = [me EXCEPT ![t] = c] BY <1>1, <1>5, <2>1 DEF Goto
  <2>4. Moves(t) /\ me'[t] = c BY <1>1, <1>3, <1>5, <2>2, <2>3, CallGoesOn
  <2> QED BY <1>1, <1>2, <1>5, <2>2, <2>4 DEF CallStep, Lent
<1>6. CASE holder[Mutex(t)] # Free /\ ~me[t].inherited /\ GaveUp(t)
  <2>1. Moves(t) BY <1>1, <1>6, GivenUp
  <2> QED BY <1>1, <1>2, <1>6, <2>1 DEF CallStep, Lent
<1> QED BY <1>4, <1>5, <1>6 DEF LastLook

(* ----------------- what holds in every state is preserved ----------------- *)

\* The places in which a step of t can disturb BaseInv.
LEMMA BaseKept ==
  ASSUME BaseInv, NEW t \in Tasks, Moves(t), KernelOK(k'), k'.susp = 0,
         holder' \in [Mutexes -> Tasks \cup {Free}], held' \in [Tasks -> Nat],
         HeldOK', RaisedOK', CurOK',
         \A m \in Mutexes : \A w \in ToSet(k'.ev[m]) : (w \in ToSet(k.ev[m]) /\ w # t /\ w \in Tasks) \/ Waiter(w, m)'
  PROVE  BaseInv'
<1>1. TypesOK'
  <2>1. ASSUME NEW u \in Tasks PROVE CallOK(u)'
    <3>1. CASE u = t BY <3>1 DEF Moves
    <3>2. CASE u # t BY <3>2 DEF Moves, CallOK, BaseInv, TypesOK
    <3> QED BY <3>1, <3>2
  <2> QED BY <2>1 DEF Moves, BaseInv, TypesOK
<1>2. WaitersOK'
  <2> SUFFICES ASSUME NEW m \in Mutexes, NEW w \in ToSet(k'.ev[m]) PROVE Waiter(w, m)' BY DEF WaitersOK
  <2>1. CASE w \in ToSet(k.ev[m]) /\ w # t /\ w \in Tasks
    <3>1. Waiter(w, m) BY <2>1 DEF BaseInv, WaitersOK
    <3> QED BY <2>1, <3>1 DEF Waiter, Mutex, Moves
  <2> QED BY <2>1
<1> QED BY <1>1, <1>2 DEF BaseInv

\* The mutexes that nobody takes or gives.
LEMMA SameHeld == ASSUME BaseInv, holder' = holder, held' = held PROVE HeldOK'
  BY DEF BaseInv, HeldOK, Holds

\* A step inside a call.
LEMMA CallStepBase == ASSUME BaseInv, NEW t \in Tasks, CallStep(t) PROVE BaseInv'
<1>1. Moves(t) /\ k' = k /\ holder' = holder /\ held' = held /\ Running(k, t) BY DEF CallStep
<1>2. KernelOK(k') /\ k'.susp = 0 /\ holder' \in [Mutexes -> Tasks \cup {Free}] /\ held' \in [Tasks -> Nat]
  BY <1>1 DEF BaseInv, TypesOK
<1>3. HeldOK' BY <1>1, SameHeld
<1>4. RaisedOK' /\ CurOK' BY <1>1 DEF BaseInv, RaisedOK, CurOK
<1>5. \A m \in Mutexes : \A w \in ToSet(k'.ev[m]) : w \in ToSet(k.ev[m]) /\ w # t /\ w \in Tasks
  BY <1>1, RunningReady
<1> QED BY <1>1, <1>2, <1>3, <1>4, <1>5, BaseKept

\* What TakeNow does.
Takes(t, m) ==
  /\ Running(k, t) /\ me[t].pc = "try" /\ m \in Mutexes /\ m = Mutex(t) /\ holder[m] = Free
  /\ holder' = [holder EXCEPT ![m] = t] /\ held' = [held EXCEPT ![t] = @ + 1]
  /\ Moves(t) /\ me'[t] = NoCall /\ at'[t] = at[t] + 1 /\ k' = k /\ ignored' = ignored

\* The task takes the mutex that its script names.
LEMMA TakeNowStep ==
  ASSUME BaseInv, NEW t \in Tasks, TakeNow(t), UNCHANGED <<script, ignored>>
  PROVE  Takes(t, Mutex(t))
<1>1. TypesOK /\ ignored' = ignored /\ ignored' \in BOOLEAN /\ script' = script BY DEF BaseInv, TypesOK
<1>2. Return(t) BY DEF TakeNow
<1>3. Moves(t) /\ me'[t] = NoCall /\ at'[t] = at[t] + 1 BY <1>1, <1>2, Returned
<1>4. Mutex(t) \in Mutexes BY <1>1, CallMutex DEF TakeNow, At
<1> QED BY <1>1, <1>3, <1>4 DEF Takes, TakeNow, At, pvTaskIncrementMutexHeldCount

\* One more mutex names the task as its holder, and it counts one more.
LEMMA TakesHeld ==
  ASSUME BaseInv, NEW t \in Tasks, NEW m \in Mutexes, Takes(t, m)
  PROVE  /\ HeldOK' /\ holder' \in [Mutexes -> Tasks \cup {Free}] /\ held' \in [Tasks -> Nat]
         /\ held'[t] = held[t] + 1 /\ (\A u \in Tasks \ {t} : held'[u] = held[u])
         /\ holder'[m] = t /\ \A n \in Mutexes \ {m} : holder'[n] = holder[n]
<1>1. holder \in [Mutexes -> Tasks \cup {Free}] /\ held \in [Tasks -> Nat] BY DEF BaseInv, TypesOK
<1>2. /\ holder' \in [Mutexes -> Tasks \cup {Free}] /\ held' \in [Tasks -> Nat]
      /\ held'[t] = held[t] + 1 /\ (\A u \in Tasks \ {t} : held'[u] = held[u])
      /\ holder'[m] = t /\ \A n \in Mutexes \ {m} : holder'[n] = holder[n]
  BY <1>1 DEF Takes
<1>3. ASSUME NEW u \in Tasks PROVE held'[u] = Cardinality(Holds(u)')
  <2>1. held[u] = Cardinality(Holds(u)) /\ IsFiniteSet(Holds(u)) BY HolderCounted DEF BaseInv, HeldOK
  <2>2. holder[m] = Free /\ u # Free BY MutexAssumption DEF Takes
  <2>3. CASE u = t
    <3>1. Holds(u)' = Holds(u) \cup {m} /\ m \notin Holds(u) BY <1>2, <2>2, <2>3 DEF Holds
    <3>2. Cardinality(Holds(u) \cup {m}) = Cardinality(Holds(u)) + 1 BY <2>1, <3>1, FS_AddElement
    <3> QED BY <1>2, <2>1, <2>3, <3>1, <3>2
  <2>4. CASE u # t
    <3>1. Holds(u)' = Holds(u) BY <1>2, <2>2, <2>4 DEF Holds
    <3> QED BY <1>2, <2>1, <2>4, <3>1
  <2> QED BY <2>3, <2>4
<1> QED BY <1>2, <1>3 DEF HeldOK

\* Taking a mutex keeps the invariant.
LEMMA TakesBase == ASSUME BaseInv, NEW t \in Tasks, NEW m \in Mutexes, Takes(t, m) PROVE BaseInv'
<1>1. Moves(t) /\ k' = k /\ Running(k, t) BY DEF Takes
<1>2. KernelOK(k') /\ k'.susp = 0 BY <1>1 DEF BaseInv, TypesOK
<1>3. /\ HeldOK' /\ holder' \in [Mutexes -> Tasks \cup {Free}] /\ held' \in [Tasks -> Nat]
      /\ held'[t] = held[t] + 1 /\ (\A u \in Tasks \ {t} : held'[u] = held[u])
  BY TakesHeld
<1>4. RaisedOK'
  <2> SUFFICES ASSUME NEW u \in Tasks
               PROVE  k.prio[u] >= BasePrio[u] /\ (k.prio[u] # BasePrio[u] => held'[u] > 0)
    BY <1>1 DEF RaisedOK
  <2>1. k.prio[u] >= BasePrio[u] /\ (k.prio[u] # BasePrio[u] => held[u] > 0) /\ held[u] \in Nat
    BY DEF BaseInv, RaisedOK, TypesOK
  <2> QED BY <1>3, <2>1
<1>5. CurOK' BY <1>1 DEF BaseInv, CurOK
<1>6. \A n \in Mutexes : \A w \in ToSet(k'.ev[n]) : w \in ToSet(k.ev[n]) /\ w # t /\ w \in Tasks
  BY <1>1, RunningReady
<1> QED BY <1>1, <1>2, <1>3, <1>4, <1>5, <1>6, BaseKept

\* What giving a mutex back does to the kernel: the giver loses an inherited priority with
\* its last mutex, and the first waiter is ready.
GivenKernel(t, m) ==
  /\ KernelOK(k') /\ k'.susp = 0 /\ k'.cur = t
  /\ k'.prio[t] = IF DisinheritsAtGive(t) THEN BasePrio[t] ELSE k.prio[t]
  /\ \A u \in Tasks \ {t} : k'.prio[u] = k.prio[u]
  /\ \A u \in Tasks : k.st[u] = "ready" => k'.st[u] = "ready"
  /\ \A n \in Mutexes \ {m} : k'.ev[n] = k.ev[n]
  /\ k.ev[m] = <<>> => k'.ev[m] = <<>>
  /\ k.ev[m] # <<>> => k'.ev[m] = Tail(k.ev[m]) /\ k'.st[Head(k.ev[m])] = "ready"
  /\ ~ignored' /\ NoneAbove(k) /\ ~k'.swi => NoneAbove(k')

Gives(t, m) ==
  /\ Running(k, t) /\ me[t].pc = "idle" /\ m \in Mutexes /\ holder[m] = t
  /\ Moves(t) /\ me'[t].pc = "idle" /\ (ignored => ignored')
  /\ holder' = [holder EXCEPT ![m] = Free] /\ held' = [held EXCEPT ![t] = @ - 1]
  /\ GivenKernel(t, m)

\* xQueueGenericSend: the priority first, then the waiter, then the switch.
LEMMA SendGives ==
  ASSUME BaseInv, NEW t \in Tasks, NEW m \in Mutexes, Running(k, t), xQueueGenericSend(t, m)
  PROVE  GivenKernel(t, m)
<1>1. /\ k \in Kernels /\ KernelOK(k) /\ k.susp = 0 /\ k.cur = t /\ ~k.swi
      /\ \A n \in Mutexes : List(k.ev[n])
  BY RunningReady
<1>2. m \in Lists /\ Lists = Mutexes BY MutexAssumption
<1>3. PICK d \in BOOLEAN : d = DisinheritsAtGive(t) BY DEF DisinheritsAtGive
<1>4. PICK x : x = IF d THEN [k EXCEPT !.prio[t] = BasePrio[t]] ELSE k OBVIOUS
<1>5. /\ k' = IF k.ev[m] # <<>> THEN WakeFirst(x, m) ELSE portYIELD_if(x, d)
      /\ ignored' = (ignored \/ (d /\ k.ev[m] # <<>> /\ ~Outranks(x, Head(k.ev[m]))))
  BY <1>3, <1>4 DEF xQueueGenericSend
<1>6. /\ KernelOK(x) /\ SamePlaces(k, x) /\ x.prio[t] = (IF d THEN BasePrio[t] ELSE k.prio[t])
      /\ (\A u \in Tasks \ {t} : x.prio[u] = k.prio[u]) /\ (~d => x = k)
  <2>1. CASE d
    <3>1. PICK p \in Nat : p = BasePrio[t] /\ p > 0 BY BaseTypes
    <3>2. x = WithPriority(k, t, p) BY <1>1, <1>4, <2>1, <3>1 DEF Kernels, WithPriority
    <3>3. KernelOK(x) /\ SamePlaces(k, x) /\ x.prio[t] = p /\ \A u \in Tasks \ {t} : x.prio[u] = k.prio[u]
      BY <1>1, <3>1, <3>2, NewPriority
    <3> QED BY <2>1, <3>1, <3>3
  <2>2. CASE ~d BY <1>1, <1>4, <2>2 DEF SamePlaces
  <2> QED BY <2>1, <2>2
<1>7. CASE k.ev[m] = <<>>
  <2>1. k' = portYIELD_if(x, d) BY <1>5, <1>7
  <2>2. CASE d
    <3>1. k' = portYIELD(x) BY <2>1, <2>2 DEF portYIELD_if
    <3>2. KernelOK(k') /\ OnlySwi(x, k') /\ k'.swi BY <1>6, <3>1, YieldKeeps
    <3> QED BY <1>1, <1>2, <1>3, <1>6, <1>7, <3>2 DEF GivenKernel, OnlySwi, SamePlaces
  <2>3. CASE ~d
    <3>1. k' = k BY <1>6, <2>1, <2>3 DEF portYIELD_if
    <3> QED BY <1>1, <1>3, <1>6, <1>7, <2>3, <3>1 DEF GivenKernel
  <2> QED BY <2>2, <2>3
<1>8. CASE k.ev[m] # <<>>
  <2>1. k' = WakeFirst(x, m) /\ x.ev = k.ev /\ x.st = k.st /\ x.susp = 0 /\ x.cur = t /\ ~x.swi
    BY <1>1, <1>5, <1>6, <1>8 DEF SamePlaces
  <2>2. Woken(x, m, k') BY <1>2, <1>6, <1>8, <2>1, WakeFirstGives
  <2>3. ~ignored' /\ NoneAbove(k) /\ ~k'.swi => NoneAbove(k')
    <3>1. CASE d
      <4>1. ~ignored' => Outranks(x, Head(k.ev[m])) BY <1>5, <1>8, <3>1
      <4> QED BY <2>1, <2>2, <4>1 DEF Woken
    <3>2. CASE ~d BY <1>6, <2>2, <3>2 DEF Woken
    <3> QED BY <3>1, <3>2
  <2> QED BY <1>2, <1>3, <1>6, <1>8, <2>1, <2>2, <2>3 DEF GivenKernel, Woken
<1> QED BY <1>7, <1>8

\* A task gives a mutex back in the course of its script ...
LEMMA GiveStep ==
  ASSUME BaseInv, NEW t \in Tasks, Give(t), UNCHANGED script
  PROVE  Gives(t, Mutex(t))
<1>1. TypesOK BY DEF BaseInv
<1>2. Running(k, t) /\ me[t].pc = "idle" /\ at[t] <= Len(script[t]) BY DEF Give, Todo, At
<1>3. PICK m \in Mutexes : m = Mutex(t) BY <1>1, <1>2, ScriptStep
<1>4. holder[m] = t /\ xQueueGenericSend(t, m) /\ Return(t) BY <1>3 DEF Give
<1>5. GivenKernel(t, m) BY <1>2, <1>4, SendGives
<1>6. ignored' \in BOOLEAN /\ (ignored => ignored') BY <1>1, <1>4 DEF xQueueGenericSend, TypesOK
<1>7. Moves(t) /\ me'[t] = NoCall BY <1>1, <1>4, <1>6, Returned
<1> QED BY <1>2, <1>3, <1>4, <1>5, <1>6, <1>7, NoCallFields DEF Gives, xQueueGenericSend, GivenBack

\* ... or at its end.
LEMMA GiveBackStep ==
  ASSUME BaseInv, NEW t \in Tasks, NEW m \in Mutexes, GiveBack(t, m), UNCHANGED script
  PROVE  Gives(t, m)
<1>1. TypesOK BY DEF BaseInv
<1>2. Running(k, t) /\ me[t].pc = "idle" /\ me' = me /\ at' = at /\ holder[m] = t /\ xQueueGenericSend(t, m)
  BY DEF GiveBack, At
<1>3. GivenKernel(t, m) BY <1>2, SendGives
<1>4. ignored' \in BOOLEAN /\ (ignored => ignored') BY <1>1, <1>2 DEF xQueueGenericSend, TypesOK
<1>5. Moves(t) BY <1>1, <1>2, <1>4, CallStays
<1> QED BY <1>2, <1>3, <1>4, <1>5 DEF Gives, xQueueGenericSend, GivenBack

\* One mutex less names the task as its holder, and it counts one less.
LEMMA GivesHeld ==
  ASSUME BaseInv, NEW t \in Tasks, NEW m \in Mutexes, Gives(t, m)
  PROVE  /\ HeldOK' /\ holder' \in [Mutexes -> Tasks \cup {Free}] /\ held' \in [Tasks -> Nat]
         /\ held'[t] = held[t] - 1 /\ (\A u \in Tasks \ {t} : held'[u] = held[u])
         /\ holder'[m] = Free /\ \A n \in Mutexes \ {m} : holder'[n] = holder[n]
<1>1. holder \in [Mutexes -> Tasks \cup {Free}] /\ held \in [Tasks -> Nat] BY DEF BaseInv, TypesOK
<1>2. holder[m] = t /\ held[t] > 0 /\ held[t] \in Nat BY HolderCounted DEF Gives
<1>3. /\ holder' \in [Mutexes -> Tasks \cup {Free}] /\ held' \in [Tasks -> Nat]
      /\ held'[t] = held[t] - 1 /\ (\A u \in Tasks \ {t} : held'[u] = held[u])
      /\ holder'[m] = Free /\ \A n \in Mutexes \ {m} : holder'[n] = holder[n]
  BY <1>1, <1>2 DEF Gives
<1>4. ASSUME NEW u \in Tasks PROVE held'[u] = Cardinality(Holds(u)')
  <2>1. held[u] = Cardinality(Holds(u)) /\ IsFiniteSet(Holds(u)) BY HolderCounted DEF BaseInv, HeldOK
  <2>2. u # Free BY MutexAssumption
  <2>3. CASE u = t
    <3>1. Holds(u)' = Holds(u) \ {m} /\ m \in Holds(u) BY <1>2, <1>3, <2>2, <2>3 DEF Holds
    <3>2. Cardinality(Holds(u) \ {m}) = Cardinality(Holds(u)) - 1 BY <2>1, <3>1, FS_RemoveElement
    <3> QED BY <1>3, <2>1, <2>3, <3>1, <3>2
  <2>4. CASE u # t
    <3>1. Holds(u)' = Holds(u) BY <1>2, <1>3, <2>2, <2>4 DEF Holds
    <3> QED BY <1>3, <2>1, <2>4, <3>1
  <2> QED BY <2>3, <2>4
<1> QED BY <1>3, <1>4 DEF HeldOK

\* Giving a mutex back keeps the invariant: who keeps an inherited priority holds another one.
LEMMA GivesBase == ASSUME BaseInv, NEW t \in Tasks, NEW m \in Mutexes, Gives(t, m) PROVE BaseInv'
<1>1. Moves(t) /\ Running(k, t) /\ GivenKernel(t, m) BY DEF Gives
<1>2. KernelOK(k') /\ k'.susp = 0 BY <1>1 DEF GivenKernel
<1>3. /\ HeldOK' /\ holder' \in [Mutexes -> Tasks \cup {Free}] /\ held' \in [Tasks -> Nat]
      /\ held'[t] = held[t] - 1 /\ (\A u \in Tasks \ {t} : held'[u] = held[u])
  BY GivesHeld
<1>4. RaisedOK'
  <2> SUFFICES ASSUME NEW u \in Tasks
               PROVE  k'.prio[u] >= BasePrio[u] /\ (k'.prio[u] # BasePrio[u] => held'[u] > 0)
    BY DEF RaisedOK
  <2>1. k.prio[u] >= BasePrio[u] /\ (k.prio[u] # BasePrio[u] => held[u] > 0) /\ held[u] \in Nat
    BY DEF BaseInv, RaisedOK, TypesOK
  <2>2. CASE u = t
    <3>1. k'.prio[t] = IF DisinheritsAtGive(t) THEN BasePrio[t] ELSE k.prio[t] BY <1>1 DEF GivenKernel
    <3>2. CASE DisinheritsAtGive(t) BY <2>2, <3>1, <3>2, BaseTypes
    <3>3. CASE ~DisinheritsAtGive(t) BY <1>3, <2>1, <2>2, <3>1, <3>3 DEF DisinheritsAtGive
    <3> QED BY <3>2, <3>3
  <2>3. CASE u # t BY <1>1, <1>3, <2>1, <2>3 DEF GivenKernel
  <2> QED BY <2>2, <2>3
<1>5. CurOK'
  <2>1. k.st[t] = "ready" BY <1>1, RunningReady
  <2> QED BY <1>1, <2>1 DEF GivenKernel, CurOK
<1>6. \A n \in Mutexes : \A w \in ToSet(k'.ev[n]) : w \in ToSet(k.ev[n]) /\ w # t /\ w \in Tasks
  <2> SUFFICES ASSUME NEW n \in Mutexes PROVE ToSet(k'.ev[n]) \subseteq ToSet(k.ev[n])
    BY <1>1, RunningReady
  <2>1. CASE n # m BY <1>1, <2>1 DEF GivenKernel
  <2>2. CASE n = m /\ k.ev[m] = <<>> BY <1>1, <2>2 DEF GivenKernel
  <2>3. CASE n = m /\ k.ev[m] # <<>>
    <3>1. List(k.ev[m]) /\ k'.ev[m] = Tail(k.ev[m]) BY <1>1, <2>3, RunningReady DEF GivenKernel
    <3> QED BY <2>3, <3>1, TailLeaves
  <2> QED BY <2>1, <2>2, <2>3
<1> QED BY <1>1, <1>2, <1>3, <1>4, <1>5, <1>6, BaseKept

\* What blocking does: the holder inherits, and the task waits in the order of the priorities.
Raised(h, t) == IF k.prio[h] < k.prio[t] THEN k.prio[t] ELSE k.prio[h]
Blocks(t, m, h) ==
  /\ Running(k, t) /\ me[t].pc = "block" /\ m \in Mutexes /\ m = Mutex(t) /\ h \in Tasks /\ holder[m] = h
  /\ Moves(t) /\ me'[t].pc = "try" /\ me'[t].left # 0 /\ at'[t] = at[t]
  /\ me'[t].inherited = (k.prio[h] < k.prio[t] \/ BasePrio[h] < k.prio[t])
  /\ holder' = holder /\ held' = held /\ ignored' = ignored
  /\ KernelOK(k') /\ k'.susp = 0 /\ k'.cur = t /\ k'.swi
  /\ k'.prio[h] = Raised(h, t) /\ \A u \in Tasks \ {h} : k'.prio[u] = k.prio[u]
  /\ \A u \in Tasks \ {t} : k'.st[u] = k.st[u]
  /\ \A n \in Mutexes \ {m} : k'.ev[n] = k.ev[n]
  /\ k'.ev[m] = Inserted(k', k.ev[m], t)

\* The time that is left is not over.
LEMMA TimeLeft ==
  ASSUME BaseInv, NEW t \in Tasks, ~Expired(t), NEW d,
         d = IF me[t].left = portMAX_DELAY THEN portMAX_DELAY ELSE me[t].left - Elapsed(t)
  PROVE  d \in TickType \ {0}
<1>1. PICK N : N = portMAX_DELAY OBVIOUS
<1>2. N \in Nat /\ N >= 1 /\ TickType = 0 .. N BY <1>1, TickTypes, SomeDelay DEF TickType
<1>3. me[t].left \in 0 .. N /\ me[t].tick \in 0 .. N /\ k.tick \in 0 .. N
  BY <1>2, CallFields, KernelFields DEF BaseInv, TypesOK, KernelOK
<1>4. PICK a, b : a = k.tick /\ b = me[t].tick OBVIOUS
<1>5. PICK c : c = a - b OBVIOUS
<1>6. c \in Int BY <1>3, <1>4, <1>5
<1>7. c % (N + 1) \in 0 .. N BY <1>2, <1>6
<1>8. Elapsed(t) \in 0 .. N BY <1>1, <1>4, <1>5, <1>7 DEF Elapsed
<1>9. me[t].left # N => ~(Elapsed(t) >= me[t].left) BY <1>1 DEF Expired
<1> QED BY <1>1, <1>2, <1>3, <1>8, <1>9

\* vListInsert compares the priorities of the tasks only.
LEMMA SamePrioInserted ==
  ASSUME NEW x, NEW y, x.prio = y.prio, NEW s, NEW t
  PROVE  Inserted(x, s, t) = Inserted(y, s, t)
  BY DEF Inserted

\* Block.
LEMMA BlockStep ==
  ASSUME BaseInv, NEW t \in Tasks, Block(t), UNCHANGED <<script, ignored>>
  PROVE  Blocks(t, Mutex(t), holder[Mutex(t)])
<1>1. /\ TypesOK /\ me[t] \in Calls /\ me \in [Tasks -> Calls]
      /\ ignored' = ignored /\ ignored' \in BOOLEAN /\ script' = script
  BY DEF BaseInv, TypesOK
<1>2. /\ Running(k, t) /\ me[t].pc = "block" /\ ~Expired(t) /\ holder[Mutex(t)] # Free
      /\ holder' = holder /\ held' = held /\ at' = at
  BY DEF Block, At
<1>3. PICK m \in Mutexes : m = Mutex(t) BY <1>1, <1>2, CallMutex
<1>4. PICK h \in Tasks : h = holder[m] BY <1>1, <1>2, <1>3 DEF TypesOK
<1>5. PICK d : d = IF me[t].left = portMAX_DELAY THEN portMAX_DELAY ELSE me[t].left - Elapsed(t) OBVIOUS
<1>6. d \in TickType \ {0} BY <1>2, <1>5, TimeLeft
<1>7. PICK i \in BOOLEAN : i = (k.prio[h] < k.prio[t] \/ BasePrio[h] < k.prio[t]) OBVIOUS
<1>8. PICK c : c = [me[t] EXCEPT !.pc = "try", !.left = d, !.tick = k.tick, !.over = k.over, !.inherited = i] OBVIOUS
<1>9. PICK x : x = xTaskPriorityInherit(h, t) OBVIOUS
<1>10. PICK y : y = vTaskPlaceOnEventList(x, m, d) OBVIOUS
<1>11. k' = portYIELD(y) /\ me' = [me EXCEPT ![t] = c]
  BY <1>1, <1>3, <1>4, <1>5, <1>7, <1>8, <1>9, <1>10 DEF Block, InheritanceOccurred
<1>12. k.tick \in TickType /\ k.over \in Overflows /\ k.prio \in [Tasks -> Nat]
  BY <1>1, KernelFields DEF TypesOK, KernelOK
<1>13. c \in Calls /\ c.pc = "try" /\ c.left = d /\ c.inherited = i BY <1>1, <1>6, <1>8, <1>12 DEF Calls
<1>14. at[t] \in 1 .. Len(script[t]) /\ script[t][at[t]].op = "take" BY <1>1, <1>2 DEF TypesOK, CallOK
<1>15. Moves(t) /\ me'[t] = c BY <1>1, <1>2, <1>11, <1>13, <1>14, CallGoesOn
<1>16. k \in Kernels /\ KernelOK(k) /\ k.susp = 0 /\ k.cur = t /\ k.st[t] = "ready" BY <1>2, RunningReady
<1>17. /\ KernelOK(x) /\ SamePlaces(k, x) /\ x.prio[h] = Raised(h, t)
       /\ \A u \in Tasks \ {h} : x.prio[u] = k.prio[u]
  <2>1. CASE k.prio[h] < k.prio[t]
    <3>1. PICK p \in Nat : p = k.prio[t] /\ p > 0 BY <1>12, <1>16 DEF KernelOK, PrioOK
    <3>2. x = WithPriority(k, h, p) BY <1>9, <1>16, <2>1, <3>1 DEF xTaskPriorityInherit, WithPriority, Kernels
    <3>3. KernelOK(x) /\ SamePlaces(k, x) /\ x.prio[h] = p /\ \A u \in Tasks \ {h} : x.prio[u] = k.prio[u]
      BY <1>16, <3>1, <3>2, NewPriority
    <3> QED BY <2>1, <3>1, <3>3 DEF Raised
  <2>2. CASE ~(k.prio[h] < k.prio[t])
    <3>1. x = k BY <1>9, <2>2 DEF xTaskPriorityInherit
    <3> QED BY <1>16, <2>2, <3>1 DEF Raised, SamePlaces
  <2> QED BY <2>1, <2>2
<1>18. x.cur = t /\ x.st[t] = "ready" /\ x.ev = k.ev /\ x.st = k.st /\ x.susp = 0 BY <1>16, <1>17 DEF SamePlaces
<1>19. Lists = Mutexes BY MutexAssumption
<1>20. /\ Blocked(x, y) /\ \A u \in Tasks \ {t} : y.st[u] = x.st[u]
       /\ y.ev[m] = Inserted(x, x.ev[m], t) /\ \A n \in Lists \ {m} : y.ev[n] = x.ev[n]
  BY <1>6, <1>10, <1>17, <1>18, <1>19, PlaceBlocks
<1>21. KernelOK(y) /\ y.prio = x.prio /\ y.cur = t /\ y.susp = 0 BY <1>18, <1>20 DEF Blocked
<1>22. KernelOK(k') /\ OnlySwi(y, k') /\ k'.swi BY <1>11, <1>21, YieldKeeps
<1>23. k'.prio = x.prio /\ k'.ev = y.ev /\ k'.st = y.st /\ k'.cur = t /\ k'.susp = 0 BY <1>21, <1>22 DEF OnlySwi
<1>24. k'.ev[m] = Inserted(k', k.ev[m], t)
  <2>1. Inserted(x, k.ev[m], t) = Inserted(k', k.ev[m], t) BY <1>23, SamePrioInserted
  <2> QED BY <1>18, <1>20, <1>23, <2>1
<1>25. \A n \in Mutexes \ {m} : k'.ev[n] = k.ev[n] BY <1>18, <1>19, <1>20, <1>23
<1>26. /\ k'.prio[h] = Raised(h, t) /\ \A u \in Tasks \ {h} : k'.prio[u] = k.prio[u]
       /\ \A u \in Tasks \ {t} : k'.st[u] = k.st[u]
  BY <1>17, <1>18, <1>20, <1>23
<1>27. me'[t].left # 0 /\ me'[t].pc = "try" /\ me'[t].inherited = i BY <1>6, <1>13, <1>15
<1> QED BY <1>1, <1>2, <1>3, <1>4, <1>7, <1>15, <1>22, <1>23, <1>24, <1>25, <1>26, <1>27 DEF Blocks

\* Blocking keeps the invariant: the task that inherits holds the mutex.
LEMMA BlocksBase ==
  ASSUME BaseInv, NEW t \in Tasks, NEW m \in Mutexes, NEW h \in Tasks, Blocks(t, m, h)
  PROVE  BaseInv'
<1>1. /\ Moves(t) /\ Running(k, t) /\ KernelOK(k') /\ k'.susp = 0 /\ holder' = holder /\ held' = held
      /\ k'.swi /\ holder[m] = h
  BY DEF Blocks
<1>2. holder' \in [Mutexes -> Tasks \cup {Free}] /\ held' \in [Tasks -> Nat] BY <1>1 DEF BaseInv, TypesOK
<1>3. HeldOK' BY <1>1, SameHeld
<1>4. RaisedOK'
  <2> SUFFICES ASSUME NEW u \in Tasks
               PROVE  k'.prio[u] >= BasePrio[u] /\ (k'.prio[u] # BasePrio[u] => held[u] > 0)
    BY <1>1 DEF RaisedOK
  <2>1. k.prio[u] >= BasePrio[u] /\ (k.prio[u] # BasePrio[u] => held[u] > 0) BY DEF BaseInv, RaisedOK
  <2>2. CASE u = h
    <3>1. held[u] > 0 BY <1>1, <2>2, HolderCounted
    <3>2. k'.prio[u] = Raised(h, t) BY <2>2 DEF Blocks
    <3>3. k.prio[u] \in Nat /\ k.prio[t] \in Nat /\ BasePrio[u] \in Nat
      BY <1>1, RunningReady, KernelFields, BaseTypes
    <3> QED BY <2>1, <2>2, <3>1, <3>2, <3>3 DEF Raised
  <2>3. CASE u # h BY <2>1, <2>3 DEF Blocks
  <2> QED BY <2>2, <2>3
<1>5. CurOK' BY <1>1 DEF CurOK
<1>6. ASSUME NEW n \in Mutexes, NEW w \in ToSet(k'.ev[n])
      PROVE  (w \in ToSet(k.ev[n]) /\ w # t /\ w \in Tasks) \/ Waiter(w, n)'
  <2>0. t \notin ToSet(k.ev[n]) /\ ToSet(k.ev[n]) \subseteq Tasks /\ List(k.ev[n]) BY <1>1, RunningReady
  <2>1. CASE n # m
    <3>1. w \in ToSet(k.ev[n]) BY <1>6, <2>1 DEF Blocks
    <3> QED BY <2>0, <3>1
  <2>2. CASE n = m
    <3>1. ToSet(k'.ev[m]) = ToSet(k.ev[m]) \cup {t} BY <2>0, <2>2, InsertedList DEF Blocks
    <3>2. CASE w = t BY <2>2, <3>2 DEF Blocks, Waiter, Mutex, Moves
    <3>3. CASE w # t BY <1>6, <2>0, <2>2, <3>1, <3>3
    <3> QED BY <3>2, <3>3
  <2> QED BY <2>1, <2>2
<1> QED BY <1>1, <1>2, <1>3, <1>4, <1>5, <1>6, BaseKept

\* A task that gives up takes back the priority it has lent: down to the base priority of
\* the holder, or to that of the first waiter.
Lowest(m, h) == IF BasePrio[h] > DisinheritPriority(m) THEN BasePrio[h] ELSE DisinheritPriority(m)
Disinherits(t, m) ==
  /\ Running(k, t) /\ me[t].pc = "disinherit" /\ m \in Mutexes /\ m = Mutex(t)
  /\ Moves(t) /\ me'[t] = NoCall /\ holder' = holder /\ held' = held /\ ignored' = ignored
  /\ KernelOK(k') /\ SamePlaces(k, k')
  /\ holder[m] = Free \/ held[holder[m]] # 1 => k'.prio = k.prio
  /\ holder[m] # Free /\ held[holder[m]] = 1
       => k'.prio[holder[m]] = Lowest(m, holder[m]) /\ \A u \in Tasks \ {holder[m]} : k'.prio[u] = k.prio[u]

\* The critical section at the end of xQueueSemaphoreTake.
LEMMA DisinheritStep ==
  ASSUME BaseInv, NEW t \in Tasks, Disinherit(t), UNCHANGED <<script, ignored>>
  PROVE  Disinherits(t, Mutex(t))
<1>1. TypesOK /\ ignored' = ignored /\ ignored' \in BOOLEAN /\ script' = script BY DEF BaseInv, TypesOK
<1>2. /\ Running(k, t) /\ me[t].pc = "disinherit" /\ holder' = holder /\ held' = held /\ GaveUp(t)
      /\ k' = vTaskPriorityDisinheritAfterTimeout(Mutex(t))
  BY DEF Disinherit, At
<1>3. PICK m \in Mutexes : m = Mutex(t) BY <1>1, <1>2, CallMutex
<1>4. Moves(t) /\ me'[t] = NoCall BY <1>1, <1>2, GivenUp
<1>5. k \in Kernels /\ KernelOK(k) /\ k.prio \in [Tasks -> Nat] /\ \A n \in Mutexes : List(k.ev[n])
  BY <1>2, RunningReady, KernelFields
<1>6. CASE holder[m] = Free \/ held[holder[m]] # 1
  <2>1. k' = k BY <1>2, <1>3, <1>6 DEF vTaskPriorityDisinheritAfterTimeout
  <2> QED BY <1>1, <1>2, <1>3, <1>4, <1>5, <1>6, <2>1 DEF Disinherits, SamePlaces
<1>7. CASE holder[m] # Free /\ held[holder[m]] = 1
  <2>1. PICK h \in Tasks : h = holder[m] BY <1>1, <1>7 DEF TypesOK
  <2>2. PICK p : p = Lowest(m, h) OBVIOUS
  <2>3. DisinheritPriority(m) \in Nat
    <3>1. CASE k.ev[m] = <<>> BY <3>1 DEF DisinheritPriority
    <3>2. CASE k.ev[m] # <<>>
      <4>1. Head(k.ev[m]) \in Tasks BY <1>5, <3>2, TailLeaves
      <4> QED BY <1>5, <3>2, <4>1 DEF DisinheritPriority
    <3> QED BY <3>1, <3>2
  <2>4. p \in Nat /\ p > 0 BY <2>2, <2>3, BaseTypes DEF Lowest
  <2>5. k' = WithPriority(k, h, p)
    <3>1. k' = [k EXCEPT !.prio[h] = p] BY <1>2, <1>3, <1>7, <2>1, <2>2 DEF vTaskPriorityDisinheritAfterTimeout, Lowest
    <3> QED BY <1>5, <3>1 DEF WithPriority, Kernels
  <2>6. KernelOK(k') /\ SamePlaces(k, k') /\ k'.prio[h] = p /\ \A u \in Tasks \ {h} : k'.prio[u] = k.prio[u]
    BY <1>5, <2>4, <2>5, NewPriority
  <2> QED BY <1>1, <1>2, <1>3, <1>4, <1>7, <2>1, <2>2, <2>6 DEF Disinherits
<1> QED BY <1>6, <1>7

\* Taking a lent priority back keeps the invariant.
LEMMA DisinheritsBase ==
  ASSUME BaseInv, NEW t \in Tasks, NEW m \in Mutexes, Disinherits(t, m)
  PROVE  BaseInv'
<1>1. /\ Moves(t) /\ Running(k, t) /\ KernelOK(k') /\ SamePlaces(k, k') /\ holder' = holder /\ held' = held
  BY DEF Disinherits
<1>2. k'.susp = 0 /\ k'.ev = k.ev /\ k'.st = k.st /\ k'.cur = k.cur /\ k'.swi = k.swi
  BY <1>1, RunningReady DEF SamePlaces
<1>3. holder' \in [Mutexes -> Tasks \cup {Free}] /\ held' \in [Tasks -> Nat] BY <1>1 DEF BaseInv, TypesOK
<1>4. HeldOK' BY <1>1, SameHeld
<1>5. RaisedOK'
  <2> SUFFICES ASSUME NEW u \in Tasks
               PROVE  k'.prio[u] >= BasePrio[u] /\ (k'.prio[u] # BasePrio[u] => held[u] > 0)
    BY <1>1 DEF RaisedOK
  <2>1. k.prio[u] >= BasePrio[u] /\ (k.prio[u] # BasePrio[u] => held[u] > 0) BY DEF BaseInv, RaisedOK
  <2>2. CASE holder[m] = Free \/ held[holder[m]] # 1
    <3>1. k'.prio = k.prio BY <2>2 DEF Disinherits
    <3> QED BY <2>1, <3>1
  <2>3. CASE holder[m] # Free /\ held[holder[m]] = 1
    <3>1. k'.prio[holder[m]] = Lowest(m, holder[m]) /\ \A v \in Tasks \ {holder[m]} : k'.prio[v] = k.prio[v]
      BY <2>3 DEF Disinherits
    <3>2. CASE u = holder[m]
      <4>1. k'.prio[u] \in Nat /\ BasePrio[u] \in Nat BY <1>1, KernelFields, BaseTypes DEF KernelOK
      <4> QED BY <2>3, <3>1, <3>2, <4>1 DEF Lowest
    <3>3. CASE u # holder[m] BY <2>1, <3>1, <3>3
    <3> QED BY <3>2, <3>3
  <2> QED BY <2>2, <2>3
<1>6. CurOK' BY <1>2 DEF BaseInv, CurOK
<1>7. \A n \in Mutexes : \A w \in ToSet(k'.ev[n]) : w \in ToSet(k.ev[n]) /\ w # t /\ w \in Tasks
  BY <1>1, <1>2, RunningReady
<1> QED BY <1>1, <1>2, <1>3, <1>4, <1>5, <1>6, <1>7, BaseKept

\* The task leaves the processor, but not for a mutex (vTaskDelay, vTaskSuspend).
Sleeps(t) ==
  /\ Running(k, t) /\ me[t].pc = "idle" /\ Moves(t) /\ me'[t].pc = "idle"
  /\ \/ at'[t] = at[t]
     \/ at[t] \in 1 .. Len(script[t]) /\ script[t][at[t]].op # "give" /\ at'[t] = at[t] + 1
  /\ holder' = holder /\ held' = held /\ ignored' = ignored
  /\ KernelOK(k') /\ k'.susp = 0 /\ k'.cur = t /\ k'.swi /\ k'.ev = k.ev /\ k'.prio = k.prio
  /\ \A u \in Tasks \ {t} : k'.st[u] = k.st[u]

\* A running task that leaves the ready list for a list of waiting tasks keeps the kernel in order.
LEMMA DelayedKernel ==
  ASSUME NEW x, KernelOK(x), x.cur \in Tasks, x.st[x.cur] = "ready", NEW y, Delayed(x, y)
  PROVE  KernelOK(y)
<1>0. x \in Kernels /\ PrioOK(x) /\ ListsOK(x) /\ TimesOK(x) BY DEF KernelOK
<1>1. PICK t \in Tasks : t = x.cur OBVIOUS
<1>2. t \notin ToSet(x.pending) /\ \A m \in Lists : t \notin ToSet(x.ev[m]) BY <1>0, <1>1 DEF ListsOK
<1>3. ToSet(x.pending) \subseteq Tasks /\ \A m \in Lists : ToSet(x.ev[m]) \subseteq Tasks
  BY <1>0, KernelFields, InList
<1>4. /\ y \in Kernels /\ y.susp = x.susp /\ y.prio = x.prio /\ y.pending = x.pending /\ y.ev = x.ev
      /\ y.tick = x.tick /\ y.next <= x.next
      /\ \A u \in Tasks \ {t} : y.st[u] = x.st[u] /\ y.wake[u] = x.wake[u]
      /\ y.st[t] = "delayed" => y.wake[t] > x.tick /\ y.next <= y.wake[t]
      /\ y.st[t] = "overflow" => y.wake[t] <= x.tick
  BY <1>1 DEF Delayed, SameTime
<1>5. ListsOK(y)
  <2>1. \A m \in Lists : \A u \in ToSet(y.ev[m]) : y.st[u] # "ready" BY <1>0, <1>2, <1>3, <1>4 DEF ListsOK
  <2>2. \A u \in ToSet(y.pending) : y.st[u] # "ready" BY <1>0, <1>2, <1>3, <1>4 DEF ListsOK
  <2> QED BY <1>0, <1>4, <2>1, <2>2 DEF ListsOK
<1>6. TimesOK(y)
  <2>1. \A a \in TickType : a \in Nat BY TickTypes DEF TickType
  <2>2. \A u \in Tasks : x.wake[u] \in Nat /\ x.next \in Nat /\ y.next \in Nat
    BY <1>0, <1>4, <2>1, KernelFields
  <2>3. ASSUME NEW u \in Tasks, u # t, y.st[u] = "delayed" PROVE y.wake[u] > y.tick /\ y.next <= y.wake[u]
    BY <1>0, <1>4, <2>2, <2>3 DEF TimesOK
  <2>4. ASSUME NEW u \in Tasks, u # t, y.st[u] = "overflow" PROVE y.wake[u] <= y.tick
    BY <1>0, <1>4, <2>4 DEF TimesOK
  <2> QED BY <1>4, <2>3, <2>4 DEF TimesOK
<1>7. PrioOK(y) BY <1>0, <1>4 DEF PrioOK
<1> QED BY <1>4, <1>5, <1>6, <1>7 DEF KernelOK

\* vTaskDelay.
LEMMA DelayStep ==
  ASSUME BaseInv, NEW t \in Tasks, Delay(t), UNCHANGED <<script, ignored>>
  PROVE  Sleeps(t)
<1>1. TypesOK /\ ignored' = ignored /\ ignored' \in BOOLEAN /\ script' = script BY DEF BaseInv, TypesOK
<1>2. /\ Running(k, t) /\ me[t].pc = "idle" /\ at[t] <= Len(script[t]) /\ script[t][at[t]].op = "delay"
      /\ holder' = holder /\ held' = held /\ Return(t)
  BY DEF Delay, Todo, At
<1>3. PICK n \in TickType : n = script[t][at[t]].wait BY <1>1, <1>2, ScriptStep
<1>4. at[t] \in 1 .. Len(script[t]) BY <1>1, <1>2, ScriptStep
<1>5. Moves(t) /\ me'[t] = NoCall /\ at'[t] = at[t] + 1 BY <1>1, <1>2, Returned
<1>6. k \in Kernels /\ KernelOK(k) /\ k.susp = 0 /\ k.cur = t /\ k.st[t] = "ready" BY <1>2, RunningReady
<1>7. PICK y : y = IF n > 0 THEN prvAddCurrentTaskToDelayedList(k, n, FALSE) ELSE k OBVIOUS
<1>8. k' = portYIELD(y) BY <1>3, <1>7 DEF Delay
<1>9. /\ KernelOK(y) /\ y.susp = 0 /\ y.cur = t /\ y.ev = k.ev /\ y.prio = k.prio
      /\ \A u \in Tasks \ {t} : y.st[u] = k.st[u]
  <2>1. CASE n > 0
    <3>1. PICK d \in TickType \ {0} : d = n BY <2>1
    <3>2. y = prvAddCurrentTaskToDelayedList(k, d, FALSE) BY <1>7, <2>1, <3>1
    <3>3. Delayed(k, y) BY <1>6, <3>2, DelayBlocks
    <3>4. KernelOK(y) BY <1>6, <3>3, DelayedKernel
    <3> QED BY <1>6, <3>3, <3>4 DEF Delayed
  <2>2. CASE ~(n > 0) BY <1>6, <1>7, <2>2
  <2> QED BY <2>1, <2>2
<1>10. KernelOK(k') /\ OnlySwi(y, k') /\ k'.swi BY <1>8, <1>9, YieldKeeps
<1>11. k'.susp = 0 /\ k'.cur = t /\ k'.ev = k.ev /\ k'.prio = k.prio /\ \A u \in Tasks \ {t} : k'.st[u] = k.st[u]
  BY <1>9, <1>10 DEF OnlySwi
<1>12. script[t][at[t]].op # "give" BY <1>2
<1> QED BY <1>1, <1>2, <1>4, <1>5, <1>10, <1>11, <1>12, NoCallFields DEF Sleeps

\* The end of a task: vTaskSuspend of itself.
LEMMA FinishStep ==
  ASSUME BaseInv, NEW t \in Tasks, Finish(t), UNCHANGED <<script, ignored>>
  PROVE  Sleeps(t)
<1>1. TypesOK /\ ignored' = ignored /\ ignored' \in BOOLEAN /\ script' = script BY DEF BaseInv, TypesOK
<1>2. Running(k, t) /\ me[t].pc = "idle" /\ holder' = holder /\ held' = held /\ me' = me /\ at' = at
  BY DEF Finish, At
<1>3. Moves(t) BY <1>1, <1>2, CallStays
<1>4. k \in Kernels /\ KernelOK(k) /\ k.susp = 0 /\ k.cur = t /\ k.st[t] = "ready" BY <1>2, RunningReady
<1>5. PICK y : y = [k EXCEPT !.st[t] = "suspended"] OBVIOUS
<1>6. k' = portYIELD(y) BY <1>5 DEF Finish
<1>7. Delayed(k, y)
  <2>1. k.st \in [Tasks -> States] /\ k.next \in TickType BY <1>4, KernelFields
  <2>2. PICK b : b = [k.st EXCEPT ![t] = "suspended"] OBVIOUS
  <2>3. b \in [Tasks -> States] /\ b[t] = "suspended" /\ \A u \in Tasks \ {t} : b[u] = k.st[u]
    BY <2>1, <2>2 DEF States
  <2>4. y = [k EXCEPT !.st = b] BY <1>4, <1>5, <2>2 DEF Kernels
  <2>5. /\ y \in Kernels /\ y.st = b /\ y.wake = k.wake /\ y.ev = k.ev /\ y.pending = k.pending
        /\ y.prio = k.prio /\ y.cur = k.cur /\ y.susp = k.susp /\ y.next = k.next /\ y.swi = k.swi
        /\ SameTime(k, y)
    BY <1>4, <2>3, <2>4 DEF Kernels, SameTime
  <2>6. k.next <= k.next BY <2>1, TickTypes DEF TickType
  <2> QED BY <1>4, <2>3, <2>5, <2>6 DEF Delayed
<1>8. KernelOK(y) BY <1>4, <1>7, DelayedKernel
<1>9. KernelOK(k') /\ OnlySwi(y, k') /\ k'.swi BY <1>6, <1>8, YieldKeeps
<1>10. k'.susp = 0 /\ k'.cur = t /\ k'.ev = k.ev /\ k'.prio = k.prio /\ \A u \in Tasks \ {t} : k'.st[u] = k.st[u]
  BY <1>4, <1>7, <1>9 DEF Delayed, OnlySwi
<1> QED BY <1>1, <1>2, <1>3, <1>9, <1>10 DEF Sleeps

\* Leaving the processor keeps the invariant.
LEMMA SleepsBase == ASSUME BaseInv, NEW t \in Tasks, Sleeps(t) PROVE BaseInv'
<1>1. /\ Moves(t) /\ Running(k, t) /\ KernelOK(k') /\ k'.susp = 0 /\ holder' = holder /\ held' = held
      /\ k'.swi /\ k'.ev = k.ev /\ k'.prio = k.prio
  BY DEF Sleeps
<1>2. holder' \in [Mutexes -> Tasks \cup {Free}] /\ held' \in [Tasks -> Nat] BY <1>1 DEF BaseInv, TypesOK
<1>3. HeldOK' BY <1>1, SameHeld
<1>4. RaisedOK' /\ CurOK' BY <1>1 DEF BaseInv, RaisedOK, CurOK
<1>5. \A n \in Mutexes : \A w \in ToSet(k'.ev[n]) : w \in ToSet(k.ev[n]) /\ w # t /\ w \in Tasks
  BY <1>1, RunningReady
<1> QED BY <1>1, <1>2, <1>3, <1>4, <1>5, BaseKept

\* A step of the scheduler alone: a tick or a switch.
KernelStep ==
  /\ script' = script /\ me' = me /\ at' = at /\ holder' = holder /\ held' = held /\ ignored' = ignored
  /\ KernelOK(k') /\ k'.susp = 0 /\ k'.prio = k.prio /\ Shrinks(k, k') /\ Thinned(k, k')
  /\ \A u \in Tasks : k.st[u] = "ready" => k'.st[u] = "ready"
  /\ CurOK' /\ ((~k.swi => NoneAbove(k)) => (~k'.swi => NoneAbove(k')))

\* xPortSysTickHandler.
LEMMA TickStep == ASSUME BaseInv, Tick, UNCHANGED <<script, ignored>> PROVE KernelStep
<1>1. KernelOK(k) /\ k.susp = 0 /\ k' = TickInterrupt(k) BY DEF BaseInv, TypesOK, Tick
<1>2. Served(k, k') /\ Shrinks(k, k') /\ Thinned(k, k') BY <1>1, TickServes
<1>3. CurOK' BY <1>2 DEF BaseInv, CurOK, Served, Wakes, TypesOK, KernelOK, Kernels
<1>4. (~k.swi => NoneAbove(k)) => (~k'.swi => NoneAbove(k')) BY <1>2 DEF Served
<1> QED BY <1>1, <1>2, <1>3, <1>4 DEF KernelStep, Served, Wakes, Tick

\* vTaskSwitchContext.
LEMMA SwitchStep ==
  ASSUME BaseInv, NEW t \in Tasks \cup {Idle}, Switch(t), UNCHANGED <<script, ignored>>
  PROVE  KernelStep
<1>1. KernelOK(k) /\ k.susp = 0 /\ SwitchTo(k, t) /\ k' = vTaskSwitchContext(k, t)
  BY DEF BaseInv, TypesOK, Switch
<1>2. /\ KernelOK(k') /\ NoneAbove(k') /\ k'.cur = t /\ ~k'.swi /\ (t = Idle \/ k'.st[t] = "ready")
      /\ k'.susp = 0 /\ k'.st = k.st /\ k'.ev = k.ev /\ k'.prio = k.prio
  BY <1>1, SwitchGives
<1>3. Shrinks(k, k') /\ Thinned(k, k') BY <1>2 DEF Shrinks, Thinned
<1> QED BY <1>2, <1>3 DEF KernelStep, CurOK, Switch

\* What the steps of the system are.
StepOf(t) ==
  \/ CallStep(t) \/ Sleeps(t)
  \/ \E m \in Mutexes : \/ Takes(t, m) \/ Gives(t, m) \/ Disinherits(t, m)
                        \/ \E h \in Tasks : Blocks(t, m, h)

\* Every action is one of them.
LEMMA StepsOf == ASSUME BaseInv, MutexNext PROVE KernelStep \/ \E t \in Tasks : StepOf(t)
<1>1. script' = script BY DEF MutexNext
<1>2. CASE Tick /\ UNCHANGED ignored BY <1>1, <1>2, TickStep
<1>3. CASE \E t \in Tasks \cup {Idle} : Switch(t) /\ UNCHANGED <<ignored, lag>> BY <1>1, <1>3, SwitchStep
<1>4. ASSUME NEW t \in Tasks, TaskStep(t) PROVE StepOf(t)
  <2>0. TypesOK BY DEF BaseInv
  <2>1. CASE Give(t)
    <3>1. Gives(t, Mutex(t)) BY <1>1, <2>1, GiveStep
    <3>2. Mutex(t) \in Mutexes BY <3>1 DEF Gives
    <3> QED BY <3>1, <3>2 DEF StepOf
  <2>2. CASE \E m \in Mutexes : GiveBack(t, m) BY <1>1, <2>2, GiveBackStep DEF StepOf
  <2>3. CASE Begin(t) /\ UNCHANGED ignored BY <1>1, <2>3, BeginStep DEF StepOf
  <2>4. CASE TakeNow(t) /\ UNCHANGED ignored
    <3>1. Takes(t, Mutex(t)) BY <1>1, <2>4, TakeNowStep
    <3>2. Mutex(t) \in Mutexes BY <3>1 DEF Takes
    <3> QED BY <3>1, <3>2 DEF StepOf
  <2>5. CASE MustWait(t) /\ UNCHANGED ignored BY <1>1, <2>5, MustWaitStep DEF StepOf
  <2>6. CASE Block(t) /\ UNCHANGED ignored
    <3>1. Blocks(t, Mutex(t), holder[Mutex(t)]) BY <1>1, <2>6, BlockStep
    <3>2. Mutex(t) \in Mutexes /\ holder[Mutex(t)] \in Tasks BY <3>1 DEF Blocks
    <3> QED BY <3>1, <3>2 DEF StepOf
  <2>7. CASE DontBlock(t) /\ UNCHANGED ignored BY <1>1, <2>7, DontBlockStep DEF StepOf
  <2>8. CASE LastLook(t) /\ UNCHANGED ignored BY <1>1, <2>8, LastLookStep DEF StepOf
  <2>9. CASE Disinherit(t) /\ UNCHANGED ignored
    <3>1. Disinherits(t, Mutex(t)) BY <1>1, <2>9, DisinheritStep
    <3>2. Mutex(t) \in Mutexes BY <3>1 DEF Disinherits
    <3> QED BY <3>1, <3>2 DEF StepOf
  <2>10. CASE Delay(t) /\ UNCHANGED ignored BY <1>1, <2>10, DelayStep DEF StepOf
  <2>11. CASE Finish(t) /\ UNCHANGED ignored BY <1>1, <2>11, FinishStep DEF StepOf
  <2> QED BY <1>4, <2>1, <2>2, <2>3, <2>4, <2>5, <2>6, <2>7, <2>8, <2>9, <2>10, <2>11 DEF TaskStep
<1> QED BY <1>2, <1>3, <1>4 DEF MutexNext, Processor

\* A step of the scheduler keeps the invariant.
LEMMA KernelStepBase == ASSUME BaseInv, KernelStep PROVE BaseInv'
<1>1. TypesOK'
  <2>1. \A t \in Tasks : CallOK(t)' BY DEF KernelStep, BaseInv, TypesOK, CallOK
  <2> QED BY <2>1 DEF KernelStep, BaseInv, TypesOK
<1>2. HeldOK' BY SameHeld DEF KernelStep
<1>3. RaisedOK' /\ CurOK' BY DEF KernelStep, BaseInv, RaisedOK
<1>4. WaitersOK'
  <2> SUFFICES ASSUME NEW m \in Mutexes, NEW w \in ToSet(k'.ev[m]) PROVE Waiter(w, m)' BY DEF WaitersOK
  <2>1. w \in ToSet(k.ev[m]) BY MutexAssumption DEF KernelStep, Shrinks
  <2>2. Waiter(w, m) BY <2>1 DEF BaseInv, WaitersOK
  <2> QED BY <2>2 DEF KernelStep, Waiter, Mutex
<1> QED BY <1>1, <1>2, <1>3, <1>4 DEF BaseInv

\* Every step keeps the invariant.
LEMMA BaseStep == BaseInv /\ [MutexNext]_mutexVars => BaseInv'
<1>1. ASSUME BaseInv, MutexNext PROVE BaseInv'
  <2>1. CASE KernelStep BY <1>1, <2>1, KernelStepBase
  <2>2. ASSUME NEW t \in Tasks, StepOf(t) PROVE BaseInv'
    BY <1>1, <2>2, CallStepBase, SleepsBase, TakesBase, GivesBase, DisinheritsBase, BlocksBase DEF StepOf
  <2> QED BY <1>1, <2>1, <2>2, StepsOf
<1>2. ASSUME BaseInv, UNCHANGED mutexVars PROVE BaseInv'
  <2>1. UNCHANGED <<script, k, holder, held, at, me, ignored>> BY <1>2 DEF mutexVars
  <2> QED BY <1>2, <2>1 DEF BaseInv, TypesOK, CallOK, HeldOK, Holds, RaisedOK, WaitersOK, Waiter, Mutex, CurOK
<1> QED BY <1>1, <1>2

\* The invariant holds at the start.
LEMMA BaseInit == MutexInit => BaseInv
<1> SUFFICES ASSUME MutexInit PROVE BaseInv OBVIOUS
<1>1. PICK s, w, e, p, b : /\ s = [t \in Tasks |-> "ready"] /\ w = [t \in Tasks |-> 0]
                           /\ e = [l \in Lists |-> <<>>] /\ p = <<>> /\ b = [t \in Tasks |-> BasePrio[t]] OBVIOUS
<1>2. /\ s \in [Tasks -> States] /\ w \in [Tasks -> TickType] /\ e \in [Lists -> Seq(Tasks)] /\ p \in Seq(Tasks)
      /\ b \in [Tasks -> Nat]
  BY <1>1, TickTypes, KernelAssumption DEF States
<1>3. k = [st |-> s, wake |-> w, ev |-> e, pending |-> p, prio |-> b, cur |-> Idle, susp |-> 0, tick |-> 0,
           over |-> 0, next |-> portMAX_DELAY, pended |-> 0, yield |-> FALSE, swi |-> TRUE]
  BY <1>1 DEF MutexInit, KernelInit
<1>4. 0 \in TickType /\ portMAX_DELAY \in TickType /\ 0 \in Overflows BY TickTypes DEF Overflows
<1>5. k \in Kernels BY <1>2, <1>3, <1>4 DEF Kernels
<1>6. /\ k.st = s /\ k.ev = e /\ k.pending = <<>> /\ k.prio = b /\ k.susp = 0 /\ k.swi BY <1>1, <1>3
<1>7. List(<<>>) /\ ToSet(<<>>) = {} BY DEF List, ToSet
<1>8. \A l \in Lists : k.ev[l] = <<>> BY <1>1, <1>6
<1>9. ListsOK(k) BY <1>6, <1>7, <1>8 DEF ListsOK
<1>10. PrioOK(k) /\ TimesOK(k) BY <1>1, <1>6, BaseTypes DEF PrioOK, TimesOK
<1>11. KernelOK(k) BY <1>5, <1>9, <1>10 DEF KernelOK
<1>12. /\ script \in Programs /\ holder = [m \in Mutexes |-> Free] /\ held = [t \in Tasks |-> 0]
       /\ at = [t \in Tasks |-> 1] /\ me = [t \in Tasks |-> NoCall] /\ ignored = FALSE
  BY DEF MutexInit
<1>13. TypesOK
  <2>1. me \in [Tasks -> Calls] /\ \A t \in Tasks : me[t].pc = "idle" BY <1>12, NoCallFields
  <2>2. holder \in [Mutexes -> Tasks \cup {Free}] /\ held \in [Tasks -> Nat] /\ at \in [Tasks -> Nat \ {0}]
    BY <1>12
  <2> QED BY <1>6, <1>11, <1>12, <2>1, <2>2 DEF TypesOK, CallOK
<1>14. HeldOK
  <2> SUFFICES ASSUME NEW t \in Tasks PROVE held[t] = Cardinality(Holds(t)) BY DEF HeldOK
  <2>1. Holds(t) = {} /\ held[t] = 0 BY <1>12, MutexAssumption DEF Holds
  <2> QED BY <2>1, FS_EmptySet
<1>15. RaisedOK BY <1>1, <1>6, BaseTypes DEF RaisedOK
<1>16. WaitersOK BY <1>7, <1>8, MutexAssumption DEF WaitersOK
<1>17. CurOK BY <1>6 DEF CurOK
<1> QED BY <1>13, <1>14, <1>15, <1>16, <1>17 DEF BaseInv

\* In every state of every application the kernel's lists are consistent, a task counts
\* exactly the mutexes that name it as their holder (uxMutexesHeld), only a task that
\* holds a mutex has a priority above its own, and the tasks in an event list wait for
\* that mutex with time left.
THEOREM MutexInvariant == MutexSpec => []BaseInv
  BY BaseInit, BaseStep, PTL DEF MutexSpec

(* ---------------------- tasks that hold one at a time --------------------- *)

\* Before its place the script has a take with no give after it.
TakenAt(t) ==
  \E i \in 1 .. at[t] - 1 : /\ script[t][i].op = "take"
                            /\ \A n \in i + 1 .. at[t] - 1 : script[t][n].op # "give"

\* The task holds one mutex at most, and none while it asks for one.
One(t) ==
  /\ held[t] <= 1 /\ (me[t].pc # "idle" => held[t] = 0)
  /\ held[t] = 1 /\ at[t] <= Len(script[t]) => TakenAt(t)
OneOK == \A t \in Tasks : One(t)
OneInv == OneAtATime => OneOK

\* A step of a task disturbs the others' counts at most where it changes them.
LEMMA OneKept ==
  ASSUME OneOK, NEW t \in Tasks, Moves(t), \A u \in Tasks \ {t} : held'[u] = held[u], One(t)'
  PROVE  OneOK'
<1> SUFFICES ASSUME NEW u \in Tasks, u # t PROVE One(u)' BY DEF OneOK
<1>1. One(u) /\ held'[u] = held[u] /\ me'[u] = me[u] /\ at'[u] = at[u] /\ script' = script BY DEF OneOK, Moves
<1> QED BY <1>1 DEF One, TakenAt

\* A task that is about to take a mutex holds none.
LEMMA NoneHeld ==
  ASSUME BaseInv, OneAtATime, OneOK, NEW t \in Tasks,
         at[t] \in 1 .. Len(script[t]), script[t][at[t]].op = "take"
  PROVE  held[t] = 0
<1>1. held[t] \in Nat /\ at[t] \in Nat \ {0} /\ script[t] \in Seq(Steps)
  BY MutexAssumption DEF BaseInv, TypesOK, Steps
<1>2. ASSUME held[t] = 1 PROVE FALSE
  <2>1. PICK i \in 1 .. at[t] - 1 : /\ script[t][i].op = "take"
                                    /\ \A n \in i + 1 .. at[t] - 1 : script[t][n].op # "give"
    BY <1>1, <1>2 DEF OneOK, One, TakenAt
  <2>2. i \in 1 .. Len(script[t]) /\ i < at[t] BY <1>1
  <2>3. \E n \in i + 1 .. at[t] - 1 : script[t][n].op = "give" BY <2>1, <2>2 DEF OneAtATime
  <2> QED BY <2>1, <2>3
<1>3. held[t] <= 1 BY DEF OneOK, One
<1> QED BY <1>1, <1>2, <1>3

\* Every step keeps it.
LEMMA OneStep ==
  ASSUME BaseInv, OneAtATime, OneOK, NEW t \in Tasks, StepOf(t)
  PROVE  OneOK'
<1>1. One(t) /\ held[t] \in Nat /\ at[t] \in Nat \ {0} /\ held \in [Tasks -> Nat] BY DEF OneOK, BaseInv, TypesOK
<1>2. CASE CallStep(t)
  <2>1. Moves(t) /\ held' = held BY <1>2 DEF CallStep
  <2>2. held[t] = 0
    <3>1. CASE me[t].pc = "idle" BY <1>2, <3>1, NoneHeld DEF CallStep
    <3>2. CASE me[t].pc # "idle" BY <1>1, <3>2 DEF One
    <3> QED BY <3>1, <3>2
  <2>3. One(t)' BY <2>1, <2>2 DEF One
  <2> QED BY <2>1, <2>3, OneKept
<1>3. CASE Sleeps(t)
  <2>1. /\ Moves(t) /\ held' = held /\ me'[t].pc = "idle" /\ script' = script
        /\ \/ at'[t] = at[t]
           \/ at[t] \in 1 .. Len(script[t]) /\ script[t][at[t]].op # "give" /\ at'[t] = at[t] + 1
    BY <1>3 DEF Sleeps, Moves
  <2>2. ASSUME held[t] = 1, at'[t] <= Len(script[t]) PROVE TakenAt(t)'
    <3>1. CASE at'[t] = at[t] BY <1>1, <2>1, <2>2, <3>1 DEF One, TakenAt
    <3>2. CASE at[t] \in 1 .. Len(script[t]) /\ script[t][at[t]].op # "give" /\ at'[t] = at[t] + 1
      <4>0. script[t] \in Seq(Steps) BY MutexAssumption DEF BaseInv, TypesOK, Steps
      <4>1. at[t] <= Len(script[t]) BY <3>2, <4>0
      <4>2. PICK i \in 1 .. at[t] - 1 : /\ script[t][i].op = "take"
                                        /\ \A n \in i + 1 .. at[t] - 1 : script[t][n].op # "give"
        BY <1>1, <2>2, <4>1 DEF One, TakenAt
      <4>3. i \in 1 .. at'[t] - 1 BY <1>1, <3>2
      <4>4. ASSUME NEW n \in i + 1 .. at'[t] - 1 PROVE script[t][n].op # "give"
        <5>1. n \in i + 1 .. at[t] - 1 \/ n = at[t] BY <1>1, <3>2
        <5> QED BY <3>2, <4>2, <5>1
      <4> QED BY <2>1, <4>2, <4>3, <4>4 DEF TakenAt
    <3> QED BY <2>1, <3>1, <3>2
  <2>3. One(t)' BY <1>1, <2>1, <2>2 DEF One
  <2> QED BY <2>1, <2>3, OneKept
<1>4. ASSUME NEW m \in Mutexes, Takes(t, m) PROVE OneOK'
  <2>1. Moves(t) /\ me'[t] = NoCall /\ at'[t] = at[t] + 1 /\ me[t].pc = "try" /\ script' = script
    BY <1>4 DEF Takes, Moves
  <2>2. held'[t] = held[t] + 1 /\ \A u \in Tasks \ {t} : held'[u] = held[u] BY <1>4, TakesHeld
  <2>3. held[t] = 0 /\ held'[t] = 1 BY <1>1, <2>1, <2>2 DEF One
  <2>4. script[t][at[t]].op = "take" BY <2>1 DEF BaseInv, TypesOK, CallOK
  <2>5. TakenAt(t)'
    <3>1. at[t] \in 1 .. at'[t] - 1 /\ at[t] + 1 .. at'[t] - 1 = {} BY <1>1, <2>1
    <3> QED BY <2>1, <2>4, <3>1 DEF TakenAt
  <2>6. One(t)' BY <2>1, <2>3, <2>5, NoCallFields DEF One
  <2> QED BY <2>1, <2>2, <2>6, OneKept
<1>5. ASSUME NEW m \in Mutexes, Gives(t, m) PROVE OneOK'
  <2>1. Moves(t) /\ me'[t].pc = "idle" /\ holder[m] = t BY <1>5 DEF Gives
  <2>2. held'[t] = held[t] - 1 /\ \A u \in Tasks \ {t} : held'[u] = held[u] BY <1>5, GivesHeld
  <2>3. held'[t] = 0 BY <1>1, <2>1, <2>2, HolderCounted DEF One
  <2>4. One(t)' BY <2>1, <2>3 DEF One
  <2> QED BY <2>1, <2>2, <2>4, OneKept
<1>6. ASSUME NEW m \in Mutexes, Disinherits(t, m) PROVE OneOK'
  <2>1. Moves(t) /\ me[t].pc = "disinherit" /\ held' = held BY <1>6 DEF Disinherits
  <2>2. held[t] = 0 BY <1>1, <2>1 DEF One
  <2>3. One(t)' BY <2>1, <2>2 DEF One
  <2> QED BY <2>1, <2>3, OneKept
<1>7. ASSUME NEW m \in Mutexes, NEW h \in Tasks, Blocks(t, m, h) PROVE OneOK'
  <2>1. Moves(t) /\ me[t].pc = "block" /\ held' = held BY <1>7 DEF Blocks
  <2>2. held[t] = 0 BY <1>1, <2>1 DEF One
  <2>3. One(t)' BY <2>1, <2>2 DEF One
  <2> QED BY <2>1, <2>3, OneKept
<1> QED BY <1>2, <1>3, <1>4, <1>5, <1>6, <1>7 DEF StepOf

\* A task in a call has its own priority: it holds nothing for which it could inherit one.
LEMMA InCallBase ==
  ASSUME BaseInv, OneOK, NEW t \in Tasks, me[t].pc # "idle"
  PROVE  held[t] = 0 /\ k.prio[t] = BasePrio[t] /\ \A m \in Mutexes : holder[m] # t
<1>1. held[t] = 0 BY DEF OneOK, One
<1>2. k.prio[t] = BasePrio[t] BY <1>1 DEF BaseInv, RaisedOK
<1> QED BY <1>1, <1>2, HolderCounted

\* So has a task that waits.
LEMMA WaiterBase ==
  ASSUME BaseInv, OneOK, NEW m \in Mutexes, NEW w \in ToSet(k.ev[m])
  PROVE  w \in Tasks /\ Waiter(w, m) /\ k.prio[w] = BasePrio[w] /\ held[w] = 0
<1>1. m \in Lists /\ k.ev \in [Lists -> Seq(Tasks)]
  BY MutexAssumption, KernelFields DEF BaseInv, TypesOK, KernelOK
<1>2. w \in Tasks BY <1>1, InList
<1>3. Waiter(w, m) BY DEF BaseInv, WaitersOK
<1>4. me[w].pc # "idle" BY <1>3 DEF Waiter
<1> QED BY <1>2, <1>3, <1>4, InCallBase

(* ---------------------- who has lent what to whom ------------------------ *)

\* A ready task that asks for the mutex.
Contends(v, m) == k.st[v] = "ready" /\ me[v].pc \in Contending /\ Mutex(v) = m

\* The current task has the highest priority unless a switch is requested.
TopOK == ~k.swi => NoneAbove(k)
\* The event lists are in order.
SortedOK == \A m \in Mutexes : Sorted(k.ev[m])
\* Whoever waits for a mutex that has been given back is not above a ready task that asks for it.
FreeOK == \A m \in Mutexes : holder[m] = Free => \A w \in ToSet(k.ev[m]) :
            \E v \in Tasks : Contends(v, m) /\ BasePrio[w] <= BasePrio[v]
\* Whoever waits for a mutex is not above its holder, and knows when it has lent its priority.
LentOK == \A m \in Mutexes : holder[m] # Free => \A w \in ToSet(k.ev[m]) :
            BasePrio[w] <= k.prio[holder[m]] /\ (BasePrio[w] > BasePrio[holder[m]] => me[w].inherited)
\* A priority that is not a task's own is lent to it by a task that will take it back.
LentTo(t, m, w) == holder[m] = t /\ BasePrio[w] >= k.prio[t] /\ Lent(me[w]) /\ Mutex(w) = m
JustOK == \A t \in Tasks : k.prio[t] # BasePrio[t] => \E m \in Mutexes, w \in Tasks : LentTo(t, m, w)

TopAll == TopOK /\ SortedOK /\ FreeOK /\ LentOK /\ JustOK

\* A step of t leaves the others contending and lending as they did.
LEMMA OthersStay ==
  ASSUME NEW t \in Tasks, Moves(t), NEW w \in Tasks \ {t}
  PROVE  me'[w] = me[w] /\ at'[w] = at[w] /\ Mutex(w)' = Mutex(w)
  BY DEF Moves, Mutex

\* A step inside a call.
LEMMA CallStepTop ==
  ASSUME BaseInv, OneOK, TopAll, NEW t \in Tasks, CallStep(t)
  PROVE  TopAll'
<1>1. /\ Running(k, t) /\ Moves(t) /\ k' = k /\ holder' = holder /\ script' = script
      /\ me[t].pc \in Contending /\ holder[Mutex(t)] = Free => me'[t].pc \in Contending /\ at'[t] = at[t]
      /\ Lent(me[t]) /\ holder[Mutex(t)] # Free => Lent(me'[t]) /\ at'[t] = at[t]
  BY DEF CallStep, Moves
<1>2. TopOK' /\ SortedOK' BY <1>1 DEF TopAll, TopOK, SortedOK
<1>3. at'[t] = at[t] => Mutex(t)' = Mutex(t) BY <1>1 DEF Mutex
<1>4. FreeOK'
  <2> SUFFICES ASSUME NEW m \in Mutexes, holder[m] = Free, NEW w \in ToSet(k.ev[m])
               PROVE  \E v \in Tasks : Contends(v, m)' /\ BasePrio[w] <= BasePrio[v]
    BY <1>1 DEF FreeOK
  <2>1. PICK v \in Tasks : Contends(v, m) /\ BasePrio[w] <= BasePrio[v] BY DEF TopAll, FreeOK
  <2>2. Contends(v, m)'
    <3>1. CASE v = t BY <1>1, <1>3, <2>1, <3>1 DEF Contends
    <3>2. CASE v # t BY <1>1, <2>1, <3>2, OthersStay DEF Contends
    <3> QED BY <3>1, <3>2
  <2> QED BY <2>1, <2>2
<1>5. LentOK'
  <2> SUFFICES ASSUME NEW m \in Mutexes, holder[m] # Free, NEW w \in ToSet(k.ev[m])
               PROVE  BasePrio[w] <= k.prio[holder[m]] /\ (BasePrio[w] > BasePrio[holder[m]] => me'[w].inherited)
    BY <1>1 DEF LentOK
  <2>1. w \in Tasks \ {t} BY <1>1, RunningReady
  <2>2. me'[w] = me[w] BY <1>1, <2>1, OthersStay
  <2> QED BY <2>2 DEF TopAll, LentOK
<1>6. JustOK'
  <2> SUFFICES ASSUME NEW u \in Tasks, k.prio[u] # BasePrio[u]
               PROVE  \E m \in Mutexes, w \in Tasks : LentTo(u, m, w)'
    BY <1>1 DEF JustOK
  <2>1. PICK m \in Mutexes, w \in Tasks : LentTo(u, m, w) BY DEF TopAll, JustOK
  <2>2. LentTo(u, m, w)'
    <3>1. CASE w = t
      <4>1. holder[Mutex(t)] # Free BY <2>1, <3>1, MutexAssumption DEF LentTo
      <4> QED BY <1>1, <1>3, <2>1, <3>1, <4>1 DEF LentTo
    <3>2. CASE w # t BY <1>1, <2>1, <3>2, OthersStay DEF LentTo
    <3> QED BY <3>1, <3>2
  <2> QED BY <2>2
<1> QED BY <1>2, <1>4, <1>5, <1>6 DEF TopAll

\* A task takes a mutex: nobody in its event list is above it.
LEMMA TakesTop ==
  ASSUME BaseInv, OneOK, TopAll, NEW t \in Tasks, NEW m \in Mutexes, Takes(t, m)
  PROVE  TopAll'
<1>1. /\ Running(k, t) /\ Moves(t) /\ k' = k /\ me[t].pc = "try" /\ m = Mutex(t) /\ holder[m] = Free
  BY DEF Takes
<1>2. holder'[m] = t /\ \A n \in Mutexes \ {m} : holder'[n] = holder[n] BY TakesHeld
<1>3. TopOK' /\ SortedOK' BY <1>1 DEF TopAll, TopOK, SortedOK
<1>4. t # Free BY MutexAssumption
<1>5. FreeOK'
  <2> SUFFICES ASSUME NEW n \in Mutexes, holder'[n] = Free, NEW w \in ToSet(k.ev[n])
               PROVE  \E v \in Tasks : Contends(v, n)' /\ BasePrio[w] <= BasePrio[v]
    BY <1>1 DEF FreeOK
  <2>1. n # m /\ holder[n] = Free BY <1>2, <1>4
  <2>2. PICK v \in Tasks : Contends(v, n) /\ BasePrio[w] <= BasePrio[v] BY <2>1 DEF TopAll, FreeOK
  <2>3. v # t BY <1>1, <2>1, <2>2 DEF Contends
  <2>4. Contends(v, n)' BY <1>1, <2>2, <2>3, OthersStay DEF Contends
  <2> QED BY <2>2, <2>4
<1>6. LentOK'
  <2> SUFFICES ASSUME NEW n \in Mutexes, holder'[n] # Free, NEW w \in ToSet(k.ev[n])
               PROVE  BasePrio[w] <= k.prio[holder'[n]] /\ (BasePrio[w] > BasePrio[holder'[n]] => me'[w].inherited)
    BY <1>1 DEF LentOK
  <2>1. w \in Tasks \ {t} BY <1>1, RunningReady
  <2>2. me'[w] = me[w] BY <1>1, <2>1, OthersStay
  <2>3. CASE n # m BY <1>2, <2>2, <2>3 DEF TopAll, LentOK
  <2>4. CASE n = m
    <3>1. PICK v \in Tasks : Contends(v, m) /\ BasePrio[w] <= BasePrio[v] BY <1>1, <2>4 DEF TopAll, FreeOK
    <3>2. k.prio[v] = BasePrio[v] BY <3>1, InCallBase DEF Contends, Contending
    <3>3. k.prio[t] = BasePrio[t] BY <1>1, InCallBase
    <3>4. ~k.swi /\ k.cur = t /\ t # Idle BY <1>1, RunningReady
    <3>5. k.prio[v] <= k.prio[t] BY <3>1, <3>4 DEF TopAll, TopOK, NoneAbove, PrioOf, Contends
    <3>6. BasePrio[w] \in Nat /\ BasePrio[v] \in Nat /\ BasePrio[t] \in Nat BY <2>1, BaseTypes
    <3> QED BY <1>2, <2>4, <3>1, <3>2, <3>3, <3>5, <3>6
  <2> QED BY <2>3, <2>4
<1>7. JustOK'
  <2> SUFFICES ASSUME NEW u \in Tasks, k.prio[u] # BasePrio[u]
               PROVE  \E n \in Mutexes, w \in Tasks : LentTo(u, n, w)'
    BY <1>1 DEF JustOK
  <2>1. PICK n \in Mutexes, w \in Tasks : LentTo(u, n, w) BY DEF TopAll, JustOK
  <2>2. n # m BY <1>1, <2>1, MutexAssumption DEF LentTo
  <2>3. w # t BY <1>1, <2>1, <2>2 DEF LentTo
  <2>4. LentTo(u, n, w)' BY <1>1, <1>2, <2>1, <2>2, <2>3, OthersStay DEF LentTo
  <2> QED BY <2>4
<1> QED BY <1>3, <1>5, <1>6, <1>7 DEF TopAll

\* A task gives its only mutex back: the waiter that wakes asks for it, and is not below the others.
LEMMA GivesTop ==
  ASSUME BaseInv, OneOK, TopAll, ~ignored', NEW t \in Tasks, NEW m \in Mutexes, Gives(t, m)
  PROVE  TopAll'
<1>1. /\ Running(k, t) /\ Moves(t) /\ me[t].pc = "idle" /\ holder[m] = t /\ GivenKernel(t, m)
  BY DEF Gives
<1>2. holder'[m] = Free /\ \A n \in Mutexes \ {m} : holder'[n] = holder[n] BY GivesHeld
<1>3. /\ ~k.swi /\ k.cur = t
      /\ \A n \in Mutexes : t \notin ToSet(k.ev[n]) /\ ToSet(k.ev[n]) \subseteq Tasks /\ List(k.ev[n])
  BY <1>1, RunningReady
<1>4. held[t] = 1 /\ \A n \in Mutexes : holder[n] = t => n = m
  <2>1. held[t] <= 1 BY DEF OneOK, One
  <2> QED BY <1>1, <2>1, HolderCounted
<1>5. TopOK' BY <1>1, <1>3 DEF TopAll, TopOK, GivenKernel
<1>6. ASSUME NEW n \in Mutexes PROVE Sorted(k'.ev[n]) /\ ToSet(k'.ev[n]) \subseteq ToSet(k.ev[n])
  <2>0. Sorted(k.ev[n]) /\ List(k.ev[n]) BY <1>3 DEF TopAll, SortedOK
  <2>1. CASE n # m BY <1>1, <2>0, <2>1 DEF GivenKernel
  <2>2. CASE n = m /\ k.ev[m] = <<>> BY <1>1, <2>0, <2>2 DEF GivenKernel
  <2>3. CASE n = m /\ k.ev[m] # <<>>
    <3>1. k'.ev[m] = Tail(k.ev[m]) BY <1>1, <2>3 DEF GivenKernel
    <3> QED BY <2>0, <2>3, <3>1, TailSorted, TailLeaves
  <2> QED BY <2>1, <2>2, <2>3
<1>7. SortedOK' BY <1>6 DEF SortedOK
<1>8. FreeOK'
  <2> SUFFICES ASSUME NEW n \in Mutexes, holder'[n] = Free, NEW w \in ToSet(k'.ev[n])
               PROVE  \E v \in Tasks : Contends(v, n)' /\ BasePrio[w] <= BasePrio[v]
    BY DEF FreeOK
  <2>0. w \in ToSet(k.ev[n]) BY <1>6
  <2>1. CASE n # m
    <3>1. PICK v \in Tasks : Contends(v, n) /\ BasePrio[w] <= BasePrio[v] BY <1>2, <2>0, <2>1 DEF TopAll, FreeOK
    <3>2. v # t BY <1>1, <3>1 DEF Contends, Contending
    <3>3. k'.st[v] = "ready" BY <1>1, <3>1 DEF GivenKernel, Contends
    <3>4. Contends(v, n)' BY <1>1, <3>1, <3>2, <3>3, OthersStay DEF Contends
    <3> QED BY <3>1, <3>4
  <2>2. CASE n = m
    <3>1. k.ev[m] # <<>>
      <4>1. ToSet(<<>>) = {} BY DEF ToSet
      <4> QED BY <2>0, <2>2, <4>1
    <3>2. PICK v : v = Head(k.ev[m]) OBVIOUS
    <3>3. v \in Tasks /\ v \in ToSet(k.ev[m]) /\ v # t BY <1>3, <3>1, <3>2, TailLeaves
    <3>4. BasePrio[w] <= BasePrio[v] BY <1>3, <2>0, <2>2, <3>2, HeadHighest DEF TopAll, SortedOK
    <3>5. k'.st[v] = "ready" BY <1>1, <3>1, <3>2 DEF GivenKernel
    <3>6. Waiter(v, m) BY <3>3 DEF BaseInv, WaitersOK
    <3>7. Contends(v, m)' BY <1>1, <3>3, <3>5, <3>6, OthersStay DEF Contends, Waiter, Contending
    <3> QED BY <2>2, <3>3, <3>4, <3>7
  <2> QED BY <2>1, <2>2
<1>9. LentOK'
  <2> SUFFICES ASSUME NEW n \in Mutexes, holder'[n] # Free, NEW w \in ToSet(k'.ev[n])
               PROVE  BasePrio[w] <= k'.prio[holder'[n]] /\ (BasePrio[w] > BasePrio[holder'[n]] => me'[w].inherited)
    BY DEF LentOK
  <2>1. n # m /\ holder'[n] = holder[n] /\ holder[n] # t BY <1>2, <1>4
  <2>2. holder[n] \in Tasks \ {t} BY <2>1 DEF BaseInv, TypesOK
  <2>3. w \in ToSet(k.ev[n]) /\ w \in Tasks \ {t} BY <1>3, <1>6
  <2>4. me'[w] = me[w] BY <1>1, <2>3, OthersStay
  <2>5. k'.prio[holder[n]] = k.prio[holder[n]] BY <1>1, <2>2 DEF GivenKernel
  <2> QED BY <2>1, <2>3, <2>4, <2>5 DEF TopAll, LentOK
<1>10. JustOK'
  <2> SUFFICES ASSUME NEW u \in Tasks, k'.prio[u] # BasePrio[u]
               PROVE  \E n \in Mutexes, w \in Tasks : LentTo(u, n, w)'
    BY DEF JustOK
  <2>1. k'.prio[t] = BasePrio[t] BY <1>1, <1>4 DEF GivenKernel, DisinheritsAtGive
  <2>2. u # t /\ k'.prio[u] = k.prio[u] BY <1>1, <2>1 DEF GivenKernel
  <2>3. PICK n \in Mutexes, w \in Tasks : LentTo(u, n, w) BY <2>2 DEF TopAll, JustOK
  <2>4. n # m /\ w # t BY <1>1, <2>2, <2>3 DEF LentTo, Lent
  <2>5. LentTo(u, n, w)' BY <1>1, <1>2, <2>2, <2>3, <2>4, OthersStay DEF LentTo
  <2> QED BY <2>5
<1> QED BY <1>5, <1>7, <1>8, <1>9, <1>10 DEF TopAll

\* A task waits for a mutex: its holder has at least that priority from now on.
LEMMA BlocksTop ==
  ASSUME BaseInv, OneOK, TopAll, NEW t \in Tasks, NEW m \in Mutexes, NEW h \in Tasks, Blocks(t, m, h)
  PROVE  TopAll'
<1>1. /\ Running(k, t) /\ Moves(t) /\ me[t].pc = "block" /\ m = Mutex(t) /\ holder[m] = h
      /\ holder' = holder /\ k'.swi /\ script' = script
      /\ me'[t].pc = "try" /\ me'[t].left # 0 /\ at'[t] = at[t]
      /\ me'[t].inherited = (k.prio[h] < k.prio[t] \/ BasePrio[h] < k.prio[t])
      /\ k'.prio[h] = Raised(h, t) /\ \A u \in Tasks \ {h} : k'.prio[u] = k.prio[u]
      /\ \A u \in Tasks \ {t} : k'.st[u] = k.st[u]
      /\ \A n \in Mutexes \ {m} : k'.ev[n] = k.ev[n]
      /\ k'.ev[m] = Inserted(k', k.ev[m], t)
  BY DEF Blocks, Moves
<1>2. /\ k.prio \in [Tasks -> Nat]
      /\ \A n \in Mutexes : t \notin ToSet(k.ev[n]) /\ ToSet(k.ev[n]) \subseteq Tasks /\ List(k.ev[n])
  BY <1>1, RunningReady, KernelFields
<1>3. held[t] = 0 /\ k.prio[t] = BasePrio[t] /\ \A n \in Mutexes : holder[n] # t BY <1>1, InCallBase
<1>4. h # t /\ held[h] > 0 BY <1>1, <1>3, HolderCounted
<1>5. Mutex(t)' = m BY <1>1 DEF Mutex
<1>6. TopOK' BY <1>1 DEF TopOK
<1>7. ToSet(k'.ev[m]) = ToSet(k.ev[m]) \cup {t} BY <1>1, <1>2, InsertedList
<1>8. SortedOK'
  <2> SUFFICES ASSUME NEW n \in Mutexes PROVE Sorted(k'.ev[n]) BY DEF SortedOK
  <2>1. CASE n # m BY <1>1, <2>1 DEF TopAll, SortedOK
  <2>2. CASE n = m
    <3>1. ASSUME NEW u \in ToSet(k.ev[m]) PROVE k'.prio[u] = BasePrio[u]
      <4>1. u \in Tasks /\ k.prio[u] = BasePrio[u] /\ held[u] = 0 BY WaiterBase
      <4>2. u # h BY <1>4, <4>1
      <4> QED BY <1>1, <4>1, <4>2
    <3>2. k'.prio[t] = BasePrio[t] BY <1>1, <1>3, <1>4
    <3>3. Sorted(k.ev[m]) /\ List(k.ev[m]) /\ t \in Tasks \ ToSet(k.ev[m]) BY <1>2 DEF TopAll, SortedOK
    <3>4. Sorted(Inserted(k', k.ev[m], t)) BY <3>1, <3>2, <3>3, InsertedSorted
    <3> QED BY <1>1, <2>2, <3>4
  <2> QED BY <2>1, <2>2
<1>9. FreeOK'
  <2> SUFFICES ASSUME NEW n \in Mutexes, holder[n] = Free, NEW w \in ToSet(k'.ev[n])
               PROVE  \E v \in Tasks : Contends(v, n)' /\ BasePrio[w] <= BasePrio[v]
    BY <1>1 DEF FreeOK
  <2>1. n # m /\ k'.ev[n] = k.ev[n] BY <1>1, MutexAssumption
  <2>2. PICK v \in Tasks : Contends(v, n) /\ BasePrio[w] <= BasePrio[v] BY <2>1 DEF TopAll, FreeOK
  <2>3. v # t BY <1>1, <2>1, <2>2 DEF Contends
  <2>4. Contends(v, n)' BY <1>1, <2>2, <2>3, OthersStay DEF Contends
  <2> QED BY <2>2, <2>4
<1>10. LentOK'
  <2> SUFFICES ASSUME NEW n \in Mutexes, holder[n] # Free, NEW w \in ToSet(k'.ev[n])
               PROVE  BasePrio[w] <= k'.prio[holder[n]] /\ (BasePrio[w] > BasePrio[holder[n]] => me'[w].inherited)
    BY <1>1 DEF LentOK
  <2>1. PICK g \in Tasks : g = holder[n] BY DEF BaseInv, TypesOK
  <2>2. k'.prio[g] >= k.prio[g] /\ k.prio[g] \in Nat /\ k'.prio[g] \in Nat
    <3>1. k.prio[g] \in Nat /\ k.prio[h] \in Nat /\ k.prio[t] \in Nat BY <1>2
    <3>2. CASE g = h BY <1>1, <3>1, <3>2 DEF Raised
    <3>3. CASE g # h BY <1>1, <3>1, <3>3
    <3> QED BY <3>2, <3>3
  <2>3. CASE w \in ToSet(k.ev[n])
    <3>1. w \in Tasks \ {t} /\ BasePrio[w] \in Nat BY <1>2, <2>3, BaseTypes
    <3>2. me'[w] = me[w] BY <1>1, <3>1, OthersStay
    <3>3. BasePrio[w] <= k.prio[g] /\ (BasePrio[w] > BasePrio[g] => me[w].inherited)
      BY <2>1, <2>3 DEF TopAll, LentOK
    <3> QED BY <2>1, <2>2, <3>1, <3>2, <3>3
  <2>4. CASE w \notin ToSet(k.ev[n])
    <3>1. n = m /\ w = t /\ g = h BY <1>1, <1>7, <2>1, <2>4
    <3>2. k.prio[h] \in Nat /\ k.prio[t] \in Nat /\ BasePrio[h] \in Nat BY <1>2, BaseTypes
    <3>3. k.prio[t] <= k'.prio[h] BY <1>1, <3>2 DEF Raised
    <3>4. k.prio[t] > BasePrio[h] => me'[t].inherited BY <1>1, <3>2
    <3> QED BY <1>3, <2>1, <3>1, <3>3, <3>4
  <2> QED BY <2>3, <2>4
<1>11. JustOK'
  <2> SUFFICES ASSUME NEW u \in Tasks, k'.prio[u] # BasePrio[u]
               PROVE  \E n \in Mutexes, w \in Tasks : LentTo(u, n, w)'
    BY DEF JustOK
  <2>0. k.prio[h] \in Nat /\ k.prio[t] \in Nat /\ BasePrio[h] \in Nat BY <1>2, BaseTypes
  <2>1. CASE u # h
    <3>1. k'.prio[u] = k.prio[u] BY <1>1, <2>1
    <3>2. PICK n \in Mutexes, w \in Tasks : LentTo(u, n, w) BY <3>1 DEF TopAll, JustOK
    <3>3. w # t BY <1>1, <2>1, <3>2 DEF LentTo
    <3>4. LentTo(u, n, w)' BY <1>1, <3>1, <3>2, <3>3, OthersStay DEF LentTo
    <3> QED BY <3>4
  <2>2. CASE u = h /\ k.prio[h] < k.prio[t]
    <3>1. k'.prio[h] = k.prio[t] BY <1>1, <2>2 DEF Raised
    <3>2. me'[t].inherited BY <1>1, <2>2
    <3>3. Lent(me'[t]) BY <1>1, <3>2 DEF Lent
    <3>4. LentTo(h, m, t)' BY <1>1, <1>3, <1>5, <2>0, <3>1, <3>3 DEF LentTo
    <3> QED BY <2>2, <3>4
  <2>3. CASE u = h /\ ~(k.prio[h] < k.prio[t])
    <3>1. k'.prio[h] = k.prio[h] BY <1>1, <2>3 DEF Raised
    <3>2. PICK n \in Mutexes, w \in Tasks : LentTo(h, n, w) BY <2>3, <3>1 DEF TopAll, JustOK
    <3>3. CASE w # t
      <4>1. LentTo(h, n, w)' BY <1>1, <3>1, <3>2, <3>3, OthersStay DEF LentTo
      <4> QED BY <2>3, <4>1
    <3>4. CASE w = t
      <4>1. n = m /\ BasePrio[t] >= k.prio[h] BY <1>1, <3>2, <3>4 DEF LentTo
      <4>2. k.prio[h] >= BasePrio[h] BY DEF BaseInv, RaisedOK
      <4>3. BasePrio[h] < k.prio[t] BY <1>3, <2>0, <2>3, <3>1, <4>1, <4>2
      <4>4. Lent(me'[t]) BY <1>1, <4>3 DEF Lent
      <4>5. LentTo(h, m, t)' BY <1>1, <1>5, <3>1, <4>1, <4>4 DEF LentTo
      <4> QED BY <2>3, <4>5
    <3> QED BY <3>3, <3>4
  <2> QED BY <2>1, <2>2, <2>3
<1> QED BY <1>6, <1>8, <1>9, <1>10, <1>11 DEF TopAll

\* A task gives up: the holder keeps what the first waiter lends it.
LEMMA DisinheritsTop ==
  ASSUME BaseInv, OneOK, TopAll, NEW t \in Tasks, NEW m \in Mutexes, Disinherits(t, m)
  PROVE  TopAll'
<1>1. /\ Running(k, t) /\ Moves(t) /\ me[t].pc = "disinherit" /\ m = Mutex(t)
      /\ holder' = holder /\ KernelOK(k') /\ SamePlaces(k, k')
  BY DEF Disinherits
<1>2. k'.ev = k.ev /\ k'.st = k.st /\ k'.cur = k.cur /\ k'.swi = k.swi BY <1>1 DEF SamePlaces
<1>3. /\ k.cur = t /\ ~k.swi /\ t # Idle /\ k.prio \in [Tasks -> Nat] /\ k'.prio \in [Tasks -> Nat]
      /\ \A n \in Mutexes : t \notin ToSet(k.ev[n]) /\ ToSet(k.ev[n]) \subseteq Tasks /\ List(k.ev[n])
  BY <1>1, RunningReady, KernelFields DEF KernelOK
<1>4. \A n \in Mutexes : holder[n] # t BY <1>1, InCallBase
<1>5. SortedOK' BY <1>2 DEF TopAll, SortedOK
<1>6. FreeOK'
  <2> SUFFICES ASSUME NEW n \in Mutexes, holder[n] = Free, NEW w \in ToSet(k.ev[n])
               PROVE  \E v \in Tasks : Contends(v, n)' /\ BasePrio[w] <= BasePrio[v]
    BY <1>1, <1>2 DEF FreeOK
  <2>1. PICK v \in Tasks : Contends(v, n) /\ BasePrio[w] <= BasePrio[v] BY DEF TopAll, FreeOK
  <2>2. v # t BY <1>1, <2>1 DEF Contends, Contending
  <2>3. Contends(v, n)' BY <1>1, <1>2, <2>1, <2>2, OthersStay DEF Contends
  <2> QED BY <2>1, <2>3
<1>7. ASSUME NEW n \in Mutexes, NEW w \in ToSet(k.ev[n]) PROVE w \in Tasks \ {t} /\ me'[w] = me[w]
  BY <1>1, <1>3, OthersStay
<1>8. CASE holder[m] = Free
  <2>1. k'.prio = k.prio BY <1>8 DEF Disinherits
  <2>2. TopOK' BY <1>2, <2>1 DEF TopAll, TopOK, NoneAbove, PrioOf
  <2>3. LentOK' BY <1>1, <1>2, <1>7, <2>1 DEF TopAll, LentOK
  <2>4. JustOK'
    <3> SUFFICES ASSUME NEW u \in Tasks, k.prio[u] # BasePrio[u]
                 PROVE  \E n \in Mutexes, w \in Tasks : LentTo(u, n, w)'
      BY <2>1 DEF JustOK
    <3>1. PICK n \in Mutexes, w \in Tasks : LentTo(u, n, w) BY DEF TopAll, JustOK
    <3>2. w # t BY <1>1, <1>8, <3>1, MutexAssumption DEF LentTo
    <3>3. LentTo(u, n, w)' BY <1>1, <2>1, <3>1, <3>2, OthersStay DEF LentTo
    <3> QED BY <3>3
  <2> QED BY <1>5, <1>6, <2>2, <2>3, <2>4 DEF TopAll
<1>9. CASE holder[m] # Free
  <2>1. PICK h \in Tasks : h = holder[m] BY <1>9 DEF BaseInv, TypesOK
  <2>2. h # t /\ held[h] = 1 /\ \A n \in Mutexes : holder[n] = h => n = m
    <3>1. held[h] <= 1 BY DEF OneOK, One
    <3> QED BY <1>4, <2>1, <3>1, HolderCounted
  <2>3. k'.prio[h] = Lowest(m, h) /\ \A u \in Tasks \ {h} : k'.prio[u] = k.prio[u]
    BY <1>9, <2>1, <2>2 DEF Disinherits
  <2>4. PICK d : d = DisinheritPriority(m) OBVIOUS
  <2>5. k'.prio[h] = IF BasePrio[h] > d THEN BasePrio[h] ELSE d BY <2>3, <2>4 DEF Lowest
  <2>6. BasePrio[h] \in Nat /\ BasePrio[h] > 0 /\ k.prio[h] \in Nat /\ k.prio[h] >= BasePrio[h]
    BY <1>3, BaseTypes DEF BaseInv, RaisedOK
  <2>7. k.ev[m] # <<>> =>
          /\ Head(k.ev[m]) \in ToSet(k.ev[m]) /\ Head(k.ev[m]) \in Tasks /\ d = BasePrio[Head(k.ev[m])]
          /\ d <= k.prio[h]
    <3> SUFFICES ASSUME k.ev[m] # <<>>
                 PROVE  /\ Head(k.ev[m]) \in ToSet(k.ev[m]) /\ Head(k.ev[m]) \in Tasks
                        /\ d = BasePrio[Head(k.ev[m])] /\ d <= k.prio[h]
      OBVIOUS
    <3>1. PICK w : w = Head(k.ev[m]) OBVIOUS
    <3>2. w \in ToSet(k.ev[m]) /\ w \in Tasks BY <1>3, <3>1, TailLeaves
    <3>3. k.prio[w] = BasePrio[w] BY <3>2, WaiterBase
    <3>4. d = k.prio[w] BY <2>4, <3>1 DEF DisinheritPriority
    <3>5. BasePrio[w] <= k.prio[h] BY <1>9, <2>1, <3>2 DEF TopAll, LentOK
    <3> QED BY <3>1, <3>2, <3>3, <3>4, <3>5
  <2>8. k.ev[m] = <<>> => d = 0 BY <2>4 DEF DisinheritPriority
  <2>9. d \in Nat /\ d <= k.prio[h]
    <3>1. CASE k.ev[m] = <<>> BY <2>6, <2>8, <3>1
    <3>2. CASE k.ev[m] # <<>> BY <2>7, <3>2, BaseTypes
    <3> QED BY <3>1, <3>2
  <2>10. k'.prio[h] <= k.prio[h] BY <2>5, <2>6, <2>9
  <2>11. TopOK'
    <3> SUFFICES ASSUME NEW u \in Tasks, k.st[u] = "ready" PROVE k'.prio[u] <= k'.prio[t]
      BY <1>2, <1>3 DEF TopOK, NoneAbove, PrioOf
    <3>1. k.prio[u] <= k.prio[t] BY <1>3 DEF TopAll, TopOK, NoneAbove, PrioOf
    <3>2. k'.prio[t] = k.prio[t] BY <2>2, <2>3
    <3>3. k.prio[u] \in Nat /\ k.prio[t] \in Nat /\ k'.prio[u] \in Nat BY <1>3
    <3>4. CASE u = h BY <2>10, <3>1, <3>2, <3>3, <3>4
    <3>5. CASE u # h BY <2>3, <3>1, <3>2, <3>5
    <3> QED BY <3>4, <3>5
  <2>12. LentOK'
    <3> SUFFICES ASSUME NEW n \in Mutexes, holder[n] # Free, NEW w \in ToSet(k.ev[n])
                 PROVE  BasePrio[w] <= k'.prio[holder[n]] /\ (BasePrio[w] > BasePrio[holder[n]] => me'[w].inherited)
      BY <1>1, <1>2 DEF LentOK
    <3>1. BasePrio[w] <= k.prio[holder[n]] /\ (BasePrio[w] > BasePrio[holder[n]] => me[w].inherited)
      BY DEF TopAll, LentOK
    <3>2. me'[w] = me[w] /\ w \in Tasks BY <1>7
    <3>3. CASE holder[n] # h
      <4>1. holder[n] \in Tasks \ {h} BY <3>3 DEF BaseInv, TypesOK
      <4> QED BY <2>3, <3>1, <3>2, <4>1
    <3>4. CASE holder[n] = h
      <4>1. n = m BY <2>2, <3>4
      <4>2. k.ev[m] # <<>>
        <5>1. ToSet(<<>>) = {} BY DEF ToSet
        <5> QED BY <4>1, <5>1
      <4>3. Sorted(k.ev[m]) /\ List(k.ev[m]) BY <1>3 DEF TopAll, SortedOK
      <4>4. BasePrio[w] <= BasePrio[Head(k.ev[m])] BY <4>1, <4>3, HeadHighest
      <4>5. BasePrio[w] <= d BY <2>7, <4>2, <4>4
      <4>6. BasePrio[w] \in Nat BY <3>2, BaseTypes
      <4>7. BasePrio[w] <= k'.prio[h] BY <2>5, <2>6, <2>9, <4>5, <4>6
      <4> QED BY <3>1, <3>2, <3>4, <4>7
    <3> QED BY <3>3, <3>4
  <2>13. JustOK'
    <3> SUFFICES ASSUME NEW u \in Tasks, k'.prio[u] # BasePrio[u]
                 PROVE  \E n \in Mutexes, w \in Tasks : LentTo(u, n, w)'
      BY DEF JustOK
    <3>1. CASE u # h
      <4>1. k'.prio[u] = k.prio[u] BY <2>3, <3>1
      <4>2. PICK n \in Mutexes, w \in Tasks : LentTo(u, n, w) BY <4>1 DEF TopAll, JustOK
      <4>3. w # t BY <1>1, <2>1, <3>1, <4>2 DEF LentTo
      <4>4. LentTo(u, n, w)' BY <1>1, <4>1, <4>2, <4>3, OthersStay DEF LentTo
      <4> QED BY <4>4
    <3>2. CASE u = h
      <4>1. k'.prio[h] = d /\ d > BasePrio[h] BY <2>5, <2>6, <2>9, <3>2
      <4>2. k.ev[m] # <<>> BY <2>6, <2>8, <4>1
      <4>3. PICK w \in Tasks : w = Head(k.ev[m]) /\ w \in ToSet(k.ev[m]) /\ d = BasePrio[w] BY <2>7, <4>2
      <4>4. me[w].inherited BY <1>9, <2>1, <4>1, <4>3 DEF TopAll, LentOK
      <4>5. Waiter(w, m) BY <4>3 DEF BaseInv, WaitersOK
      <4>6. w \in Tasks \ {t} BY <1>7, <4>3
      <4>7. Lent(me[w]) BY <4>4, <4>5 DEF Lent, Waiter
      <4>8. LentTo(h, m, w)' BY <1>1, <2>1, <2>9, <4>1, <4>3, <4>5, <4>6, <4>7, OthersStay DEF LentTo, Waiter
      <4> QED BY <3>2, <4>8
    <3> QED BY <3>1, <3>2
  <2> QED BY <1>5, <1>6, <2>11, <2>12, <2>13 DEF TopAll
<1> QED BY <1>8, <1>9

\* A task leaves the processor.
LEMMA SleepsTop ==
  ASSUME BaseInv, OneOK, TopAll, NEW t \in Tasks, Sleeps(t)
  PROVE  TopAll'
<1>1. /\ Running(k, t) /\ Moves(t) /\ me[t].pc = "idle" /\ holder' = holder
      /\ k'.swi /\ k'.ev = k.ev /\ k'.prio = k.prio /\ \A u \in Tasks \ {t} : k'.st[u] = k.st[u]
  BY DEF Sleeps
<1>2. TopOK' /\ SortedOK' BY <1>1 DEF TopAll, TopOK, SortedOK
<1>3. FreeOK'
  <2> SUFFICES ASSUME NEW n \in Mutexes, holder[n] = Free, NEW w \in ToSet(k.ev[n])
               PROVE  \E v \in Tasks : Contends(v, n)' /\ BasePrio[w] <= BasePrio[v]
    BY <1>1 DEF FreeOK
  <2>1. PICK v \in Tasks : Contends(v, n) /\ BasePrio[w] <= BasePrio[v] BY DEF TopAll, FreeOK
  <2>2. v # t BY <1>1, <2>1 DEF Contends, Contending
  <2>3. Contends(v, n)' BY <1>1, <2>1, <2>2, OthersStay DEF Contends
  <2> QED BY <2>1, <2>3
<1>4. LentOK'
  <2> SUFFICES ASSUME NEW m \in Mutexes, holder[m] # Free, NEW w \in ToSet(k.ev[m])
               PROVE  BasePrio[w] <= k.prio[holder[m]] /\ (BasePrio[w] > BasePrio[holder[m]] => me'[w].inherited)
    BY <1>1 DEF LentOK
  <2>1. w \in Tasks \ {t} BY <1>1, RunningReady
  <2>2. me'[w] = me[w] BY <1>1, <2>1, OthersStay
  <2> QED BY <2>2 DEF TopAll, LentOK
<1>5. JustOK'
  <2> SUFFICES ASSUME NEW u \in Tasks, k.prio[u] # BasePrio[u]
               PROVE  \E m \in Mutexes, w \in Tasks : LentTo(u, m, w)'
    BY <1>1 DEF JustOK
  <2>1. PICK m \in Mutexes, w \in Tasks : LentTo(u, m, w) BY DEF TopAll, JustOK
  <2>2. w # t BY <1>1, <2>1 DEF LentTo, Lent
  <2>3. LentTo(u, m, w)' BY <1>1, <2>1, <2>2, OthersStay DEF LentTo
  <2> QED BY <2>3
<1> QED BY <1>2, <1>3, <1>4, <1>5 DEF TopAll

\* A tick or a switch.
LEMMA KernelStepTop ==
  ASSUME BaseInv, TopAll, KernelStep
  PROVE  TopAll'
<1>1. /\ script' = script /\ me' = me /\ at' = at /\ holder' = holder /\ k'.prio = k.prio /\ Lists = Mutexes
      /\ Shrinks(k, k') /\ Thinned(k, k') /\ \A u \in Tasks : k.st[u] = "ready" => k'.st[u] = "ready"
  BY MutexAssumption DEF KernelStep
<1>2. TopOK' BY DEF KernelStep, TopAll, TopOK
<1>3. \A m \in Mutexes : ToSet(k'.ev[m]) \subseteq ToSet(k.ev[m]) BY <1>1 DEF Shrinks
<1>4. SortedOK'
  <2> SUFFICES ASSUME NEW m \in Mutexes PROVE Sorted(k'.ev[m]) BY DEF SortedOK
  <2>1. Sorted(k.ev[m]) /\ List(k.ev[m]) BY <1>1 DEF TopAll, SortedOK, BaseInv, TypesOK, KernelOK, ListsOK
  <2>2. CASE k'.ev = k.ev BY <2>1, <2>2
  <2>3. ASSUME NEW D, k'.ev[m] = Without(k.ev[m], D) PROVE Sorted(k'.ev[m]) BY <2>1, <2>3, WithoutSorted
  <2> QED BY <1>1, <2>2, <2>3 DEF Thinned
<1>5. FreeOK'
  <2> SUFFICES ASSUME NEW n \in Mutexes, holder[n] = Free, NEW w \in ToSet(k.ev[n])
               PROVE  \E v \in Tasks : Contends(v, n)' /\ BasePrio[w] <= BasePrio[v]
    BY <1>1, <1>3 DEF FreeOK
  <2>1. PICK v \in Tasks : Contends(v, n) /\ BasePrio[w] <= BasePrio[v] BY DEF TopAll, FreeOK
  <2>2. Contends(v, n)' BY <1>1, <2>1 DEF Contends, Mutex
  <2> QED BY <2>1, <2>2
<1>6. LentOK' BY <1>1, <1>3 DEF TopAll, LentOK
<1>7. JustOK' BY <1>1 DEF TopAll, JustOK, LentTo, Mutex
<1> QED BY <1>2, <1>4, <1>5, <1>6, <1>7 DEF TopAll
(* ------------------------------- together -------------------------------- *)

\* The strengthening of the three properties.
TopInv == OneAtATime /\ ~ignored => TopAll
MutexInv == BaseInv /\ OneInv /\ TopInv

\* A tick or a switch takes nothing.
LEMMA KernelStepOne == ASSUME OneOK, KernelStep PROVE OneOK'
  BY DEF KernelStep, OneOK, One, TakenAt

\* A step of a task, in an application that holds one mutex at a time, until a switch is ignored.
LEMMA StepTop ==
  ASSUME BaseInv, OneOK, ignored \/ TopAll, NEW t \in Tasks, StepOf(t), ~ignored'
  PROVE  TopAll'
<1>1. CASE CallStep(t)
  <2>1. ~ignored BY <1>1 DEF CallStep
  <2> QED BY <1>1, <2>1, CallStepTop
<1>2. CASE Sleeps(t)
  <2>1. ~ignored BY <1>2 DEF Sleeps
  <2> QED BY <1>2, <2>1, SleepsTop
<1>3. ASSUME NEW m \in Mutexes, Takes(t, m) PROVE TopAll'
  <2>1. ~ignored BY <1>3 DEF Takes
  <2> QED BY <1>3, <2>1, TakesTop
<1>4. ASSUME NEW m \in Mutexes, Gives(t, m) PROVE TopAll'
  <2>1. ~ignored BY <1>4 DEF Gives
  <2> QED BY <1>4, <2>1, GivesTop
<1>5. ASSUME NEW m \in Mutexes, Disinherits(t, m) PROVE TopAll'
  <2>1. ~ignored BY <1>5 DEF Disinherits
  <2> QED BY <1>5, <2>1, DisinheritsTop
<1>6. ASSUME NEW m \in Mutexes, NEW h \in Tasks, Blocks(t, m, h) PROVE TopAll'
  <2>1. ~ignored BY <1>6 DEF Blocks
  <2> QED BY <1>6, <2>1, BlocksTop
<1> QED BY <1>1, <1>2, <1>3, <1>4, <1>5, <1>6 DEF StepOf

\* Every step keeps the strengthening: the scripts do not change, and `ignored` is never taken back.
LEMMA MutexStep == MutexInv /\ [MutexNext]_mutexVars => MutexInv'
<1> SUFFICES ASSUME MutexInv, [MutexNext]_mutexVars PROVE MutexInv' OBVIOUS
<1>1. BaseInv' BY BaseStep DEF MutexInv
<1>2. BaseInv /\ (OneAtATime => OneOK) /\ (OneAtATime /\ ~ignored => TopAll) BY DEF MutexInv, OneInv, TopInv
<1>3. CASE MutexNext
  <2>1. script' = script BY <1>3 DEF MutexNext
  <2>2. OneAtATime' <=> OneAtATime BY <2>1 DEF OneAtATime
  <2>3. CASE KernelStep
    <3>1. OneInv' BY <1>2, <2>2, <2>3, KernelStepOne DEF OneInv
    <3>2. ignored' = ignored BY <2>3 DEF KernelStep
    <3>3. TopInv' BY <1>2, <2>2, <2>3, <3>2, KernelStepTop DEF TopInv
    <3> QED BY <1>1, <3>1, <3>3 DEF MutexInv
  <2>4. ASSUME NEW t \in Tasks, StepOf(t) PROVE OneInv' /\ TopInv'
    <3>1. OneInv' BY <1>2, <2>2, <2>4, OneStep DEF OneInv
    <3>2. ASSUME OneAtATime, ~ignored' PROVE TopAll'
      <4>1. OneOK /\ (ignored \/ TopAll) BY <1>2, <3>2
      <4> QED BY <1>2, <2>4, <3>2, <4>1, StepTop
    <3>3. TopInv' BY <2>2, <3>2 DEF TopInv
    <3> QED BY <3>1, <3>3
  <2>5. KernelStep \/ \E t \in Tasks : StepOf(t) BY <1>2, <1>3, StepsOf
  <2> QED BY <1>1, <2>3, <2>4, <2>5 DEF MutexInv
<1>4. CASE UNCHANGED mutexVars
  <2>1. UNCHANGED <<script, k, holder, held, at, me, ignored>> BY <1>4 DEF mutexVars
  <2>2. OneInv' BY <1>2, <2>1 DEF OneInv, OneAtATime, OneOK, One, TakenAt
  <2>3. OneAtATime' <=> OneAtATime BY <2>1 DEF OneAtATime
  <2>4. TopAll => TopAll'
    BY <2>1 DEF TopAll, TopOK, SortedOK, FreeOK, LentOK, JustOK, LentTo, Contends, Mutex
  <2>5. TopInv' BY <1>2, <2>1, <2>3, <2>4 DEF TopInv
  <2> QED BY <1>1, <2>2, <2>5 DEF MutexInv
<1> QED BY <1>3, <1>4

\* It holds at the start: nobody holds anything, waits or runs.
LEMMA MutexInvInit == MutexInit => MutexInv
<1> SUFFICES ASSUME MutexInit PROVE MutexInv OBVIOUS
<1>1. /\ held = [t \in Tasks |-> 0] /\ me = [t \in Tasks |-> NoCall] /\ k = KernelInit
  BY DEF MutexInit
<1>2. OneOK BY <1>1 DEF OneOK, One
<1>3. k.swi /\ k.ev = [l \in Lists |-> <<>>] /\ k.prio = [t \in Tasks |-> BasePrio[t]]
  BY <1>1 DEF KernelInit
<1>4. \A m \in Mutexes : k.ev[m] = <<>> BY <1>3, MutexAssumption
<1>5. ToSet(<<>>) = {} /\ Len(<<>>) = 0 BY DEF ToSet
<1>6. TopOK /\ JustOK BY <1>3 DEF TopOK, JustOK
<1>7. SortedOK /\ FreeOK /\ LentOK BY <1>4, <1>5 DEF SortedOK, Sorted, FreeOK, LentOK
<1> QED BY <1>2, <1>6, <1>7, BaseInit DEF MutexInv, OneInv, TopInv, TopAll

\* In every state of every application MutexInv holds.
THEOREM MutexStrong == MutexSpec => []MutexInv
  BY MutexInvInit, MutexStep, PTL DEF MutexSpec

(* -------------------------- the three properties ------------------------- *)

\* What MutexInv says of a raised priority.
LEMMA InvJustified == MutexInv => PriorityJustified
<1> SUFFICES ASSUME MutexInv, NEW t \in Tasks, k.prio[t] # BasePrio[t]
             PROVE  /\ held[t] > 0
                    /\ OneAtATime /\ ~ignored => \E m \in Mutexes, w \in Tasks \ {t} :
                         /\ holder[m] = t /\ k.prio[w] >= k.prio[t]
                         /\ me[w].pc # "idle" /\ Mutex(w) = m
  BY DEF PriorityJustified
<1>1. held[t] > 0 BY DEF MutexInv, BaseInv, RaisedOK
<1>2. ASSUME OneAtATime, ~ignored
      PROVE  \E m \in Mutexes, w \in Tasks \ {t} :
               holder[m] = t /\ k.prio[w] >= k.prio[t] /\ me[w].pc # "idle" /\ Mutex(w) = m
  <2>1. BaseInv /\ OneOK /\ TopAll BY <1>2 DEF MutexInv, OneInv, TopInv
  <2>2. PICK m \in Mutexes, w \in Tasks : LentTo(t, m, w) BY <2>1 DEF TopAll, JustOK
  <2>3. me[w].pc # "idle" /\ holder[m] = t BY <2>2 DEF LentTo, Lent
  <2>4. k.prio[w] = BasePrio[w] /\ w # t BY <2>1, <2>3, InCallBase
  <2> QED BY <2>2, <2>3, <2>4 DEF LentTo
<1> QED BY <1>1, <1>2

\* What it says of the waiters and the holder.
LEMMA InvNoInversion == MutexInv => (OneAtATime => NoInversion)
<1> SUFFICES ASSUME MutexInv, OneAtATime, ~ignored, NEW m \in Mutexes, holder[m] # Free, NEW w \in ToSet(k.ev[m])
             PROVE  k.prio[w] <= k.prio[holder[m]]
  BY DEF NoInversion
<1>1. BaseInv /\ OneOK /\ TopAll BY DEF MutexInv, OneInv, TopInv
<1>2. BasePrio[w] <= k.prio[holder[m]] BY <1>1 DEF TopAll, LentOK
<1> QED BY <1>1, <1>2, WaiterBase

\* What it says of the task that runs.
LEMMA InvHighest == MutexInv => (OneAtATime => HighestPriorityRuns)
<1> SUFFICES ASSUME MutexInv, OneAtATime, ~ignored, k.susp = 0, ~k.swi PROVE k.cur \in TopReady(k)
  BY DEF HighestPriorityRuns, HighestRuns
<1>1. KernelOK(k) /\ CurOK /\ NoneAbove(k) BY DEF MutexInv, TopInv, TopAll, TopOK, BaseInv, TypesOK
<1>2. k.cur \in Tasks \cup {Idle} /\ Idle \notin Tasks BY <1>1, KernelFields, KernelAssumption DEF KernelOK
<1>3. CASE k.cur = Idle
  <2>1. \A u \in Tasks : k.prio[u] > 0 /\ k.prio[u] \in Nat BY <1>1, KernelFields DEF KernelOK, PrioOK
  <2>2. \A u \in Tasks : k.st[u] # "ready" BY <1>1, <1>3, <2>1 DEF NoneAbove, PrioOf
  <2>3. On(k, "ready") = {} BY <2>2 DEF On
  <2> QED BY <1>3, <2>3 DEF TopReady
<1>4. CASE k.cur # Idle
  <2>1. k.cur \in Tasks /\ k.st[k.cur] = "ready" BY <1>1, <1>2, <1>4 DEF CurOK
  <2>2. \A u \in On(k, "ready") : k.prio[u] <= k.prio[k.cur] BY <1>1, <1>4 DEF NoneAbove, PrioOf, On
  <2>3. k.cur \in On(k, "ready") BY <2>1 DEF On
  <2> QED BY <2>2, <2>3 DEF TopReady
<1> QED BY <1>3, <1>4

\* PriorityJustified, for every application: an inherited priority outlives neither the
\* last mutex nor, where tasks hold one at a time, the wait it was inherited for
\* (xTaskPriorityDisinherit, vTaskPriorityDisinheritAfterTimeout).
THEOREM PriorityIsJustified == MutexSpec => []PriorityJustified
  BY MutexStrong, InvJustified, PTL

\* NoInversion, for every application whose tasks hold one mutex at a time: no waiter is
\* above the holder of its mutex (xTaskPriorityInherit), until a switch is ignored.
THEOREM NeverInverted == MutexSpec => [](OneAtATime => NoInversion)
  BY MutexStrong, InvNoInversion, PTL

\* HighestPriorityRuns, for the same applications: the ready task of the highest priority
\* runs or a switch is requested, until one is ignored (xQueueGenericSend).
THEOREM HighestHasProcessor == MutexSpec => [](OneAtATime => HighestPriorityRuns)
  BY MutexStrong, InvHighest, PTL


===============================================================================
