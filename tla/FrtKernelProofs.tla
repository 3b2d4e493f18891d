---------------------------- MODULE FrtKernelProofs ----------------------------
(***************************************************************************)
(* What the operators of FrtKernel do, for every number of tasks, priorities,   *)
(* event lists and width of the tick counter: the lemmas that the proofs about  *)
(* queues, mutexes and stream buffers share.  KernelOK says that the lists of the         *)
(* scheduler are consistent; each operator is shown to keep it, to wake tasks    *)
(* only, to ask for a switch when one is due and to count every tick.  What a    *)
(* loop or a recursive function computes is shown by induction through the       *)
(* least number for which it would fail (Reaches).                              *)
(***************************************************************************)
EXTENDS FrtKernel, FiniteSetTheorems, WellFoundedInduction, TLAPS

(* --------------------------- numbers and lists --------------------------- *)

\* A set of numbers has a least one.
LEMMA SmallestNat ==
  ASSUME NEW S, S \subseteq Nat, S # {}
  PROVE  \E n \in S : \A j \in S : n <= j
<1> DEFINE R == OpToRel(<, Nat)
<1>1. PICK n \in S : \A j \in S : <<j, n>> \notin R
  <2>1. IsWellFoundedOn(R, Nat) BY NatLessThanWellFounded
  <2> HIDE DEF R
  <2> QED BY <2>1, WFMin
<1>2. \A j \in S : ~(j < n) BY <1>1 DEF OpToRel
<1>3. \A j \in S : n <= j BY <1>2
<1> QED BY <1>1, <1>3

\* Induction, for a set of numbers.
LEMMA Reaches ==
  ASSUME NEW S, 0 \in S, \A n \in Nat : n \in S => n + 1 \in S
  PROVE  Nat \subseteq S
<1> SUFFICES ASSUME Nat \ S # {} PROVE FALSE OBVIOUS
<1>1. PICK n \in Nat \ S : \A j \in Nat \ S : n <= j BY SmallestNat
<1>2. n # 0 /\ n - 1 \in Nat /\ ~(n <= n - 1) BY <1>1
<1>3. n - 1 \in S BY <1>1, <1>2
<1>4. (n - 1) + 1 \in S BY <1>2, <1>3
<1> QED BY <1>1, <1>4

\* Min is the least.
LEMMA MinLeast ==
  ASSUME NEW S, S \subseteq Nat, S # {}
  PROVE  Min(S) \in S /\ \A j \in S : Min(S) <= j
  BY SmallestNat DEF Min

\* A list of different tasks.
List(s) == s \in Seq(Tasks) /\ \A i, j \in 1 .. Len(s) : s[i] = s[j] => i = j

\* Who is in a list.
LEMMA InList == ASSUME NEW s \in Seq(Tasks)
                PROVE  ToSet(s) = {s[i] : i \in 1 .. Len(s)} /\ ToSet(s) \subseteq Tasks
  BY DEF ToSet

\* The first task of a list leaves it.
LEMMA TailLeaves ==
  ASSUME NEW s, List(s), s # <<>>
  PROVE  /\ List(Tail(s)) /\ ToSet(Tail(s)) = ToSet(s) \ {Head(s)}
         /\ Head(s) \in ToSet(s) /\ Head(s) \in Tasks
<1>1. /\ s \in Seq(Tasks) /\ Len(s) \in Nat \ {0} /\ Head(s) = s[1] BY DEF List
<1>2. /\ Tail(s) \in Seq(Tasks) /\ Len(Tail(s)) = Len(s) - 1
      /\ \A i \in 1 .. Len(s) - 1 : Tail(s)[i] = s[i + 1]
  BY <1>1
<1>3. \A i \in 1 .. Len(s) - 1 : i + 1 \in 1 .. Len(s) /\ i + 1 # 1 BY <1>1
<1>4. List(Tail(s)) BY <1>1, <1>2, <1>3 DEF List
<1>5. ASSUME NEW t PROVE t \in ToSet(Tail(s)) <=> t \in ToSet(s) \ {Head(s)}
  <2>1. ASSUME NEW i \in 1 .. Len(s) - 1, t = Tail(s)[i] PROVE t \in ToSet(s) \ {Head(s)}
    <3>1. t = s[i + 1] /\ i + 1 \in 1 .. Len(s) /\ 1 \in 1 .. Len(s) /\ i + 1 # 1 BY <1>1, <1>2, <1>3, <2>1
    <3> QED BY <1>1, <3>1, InList DEF List
  <2>2. ASSUME NEW i \in 1 .. Len(s), t = s[i], t # Head(s) PROVE t \in ToSet(Tail(s))
    <3>1. i # 1 BY <1>1, <2>2
    <3>2. i - 1 \in 1 .. Len(s) - 1 /\ (i - 1) + 1 = i BY <1>1, <3>1
    <3>3. t = Tail(s)[i - 1] /\ i - 1 \in 1 .. Len(Tail(s)) BY <1>2, <2>2, <3>2
    <3> QED BY <1>2, <3>3, InList
  <2>3. ToSet(Tail(s)) = {Tail(s)[i] : i \in 1 .. Len(s) - 1} BY <1>2, InList
  <2>4. ToSet(s) = {s[i] : i \in 1 .. Len(s)} BY <1>1, InList
  <2> QED BY <2>1, <2>2, <2>3, <2>4
<1>6. 1 \in 1 .. Len(s) BY <1>1
<1> QED BY <1>1, <1>4, <1>5, <1>6, InList

\* A task comes last.
LEMMA AppendJoins ==
  ASSUME NEW s \in Seq(Tasks), NEW t \in Tasks
  PROVE  Append(s, t) \in Seq(Tasks) /\ ToSet(Append(s, t)) = ToSet(s) \cup {t}
<1>1. /\ Append(s, t) \in Seq(Tasks) /\ Len(Append(s, t)) = Len(s) + 1 /\ Len(s) \in Nat
      /\ Append(s, t)[Len(s) + 1] = t /\ \A i \in 1 .. Len(s) : Append(s, t)[i] = s[i]
  OBVIOUS
<1>2. \A i : i \in 1 .. Len(s) + 1 <=> i \in 1 .. Len(s) \/ i = Len(s) + 1 BY <1>1
<1>3. ToSet(Append(s, t)) = {Append(s, t)[i] : i \in 1 .. Len(s) + 1} BY <1>1, InList
<1>4. ToSet(s) = {s[i] : i \in 1 .. Len(s)} BY InList
<1>5. ASSUME NEW u PROVE u \in ToSet(Append(s, t)) <=> u \in ToSet(s) \cup {t}
  BY <1>1, <1>2, <1>3, <1>4
<1> QED BY <1>1, <1>5

\* A list with one more task at its end is a list.
LEMMA AppendList ==
  ASSUME NEW s, List(s), NEW t \in Tasks \ ToSet(s)
  PROVE  List(Append(s, t))
<1>1. /\ s \in Seq(Tasks) /\ Append(s, t) \in Seq(Tasks) /\ Len(Append(s, t)) = Len(s) + 1 /\ Len(s) \in Nat
      /\ Append(s, t)[Len(s) + 1] = t /\ \A i \in 1 .. Len(s) : Append(s, t)[i] = s[i]
  BY DEF List
<1>2. \A i \in 1 .. Len(s) : s[i] # t BY <1>1, InList
<1>3. \A i \in 1 .. Len(s) + 1 : i \in 1 .. Len(s) \/ i = Len(s) + 1 BY <1>1
<1> QED BY <1>1, <1>2, <1>3 DEF List

\* Two lists in a row.
LEMMA InARow ==
  ASSUME NEW c \in Seq(Tasks), NEW b \in Seq(Tasks)
  PROVE  /\ c \o b \in Seq(Tasks) /\ Len(c \o b) = Len(c) + Len(b)
         /\ \A i \in 1 .. Len(c) : (c \o b)[i] = c[i]
         /\ \A i \in 1 .. Len(b) : (c \o b)[Len(c) + i] = b[i]
  OBVIOUS

\* A list with one more task in it, after the first n.
LEMMA Widened ==
  ASSUME NEW s, List(s), NEW t \in Tasks \ ToSet(s), NEW n \in 0 .. Len(s), NEW r \in Seq(Tasks),
         Len(r) = Len(s) + 1, r[n + 1] = t, \A i \in 1 .. n : r[i] = s[i],
         \A i \in n + 1 .. Len(s) : r[i + 1] = s[i]
  PROVE  List(r) /\ ToSet(r) = ToSet(s) \cup {t}
<1>1. s \in Seq(Tasks) /\ Len(s) \in Nat BY DEF List
<1>2. \A i \in 1 .. Len(s) : s[i] # t BY <1>1, InList
<1>3. ASSUME NEW i \in 1 .. Len(s) + 1
       PROVE  \/ i \in 1 .. n /\ i \in 1 .. Len(s) /\ r[i] = s[i]
              \/ i = n + 1 /\ r[i] = t
              \/ i - 1 \in n + 1 .. Len(s) /\ i - 1 \in 1 .. Len(s) /\ r[i] = s[i - 1]
  <2>1. CASE i <= n BY <1>1, <2>1
  <2>2. CASE i = n + 1 BY <2>2
  <2>3. CASE i > n + 1
    <3>1. i - 1 \in n + 1 .. Len(s) /\ i - 1 \in 1 .. Len(s) /\ (i - 1) + 1 = i BY <1>1, <2>3
    <3> QED BY <3>1
  <2>4. i <= n \/ i = n + 1 \/ i > n + 1 BY <1>1
  <2> QED BY <2>1, <2>2, <2>3, <2>4
<1>4. List(r)
  <2>1. ASSUME NEW i \in 1 .. Len(s) + 1, NEW j \in 1 .. Len(s) + 1, r[i] = r[j] PROVE i = j
    <3>1. /\ \/ i \in 1 .. n /\ i \in 1 .. Len(s) /\ r[i] = s[i]
             \/ i = n + 1 /\ r[i] = t
             \/ i - 1 \in n + 1 .. Len(s) /\ i - 1 \in 1 .. Len(s) /\ r[i] = s[i - 1]
          /\ \/ j \in 1 .. n /\ j \in 1 .. Len(s) /\ r[j] = s[j]
             \/ j = n + 1 /\ r[j] = t
             \/ j - 1 \in n + 1 .. Len(s) /\ j - 1 \in 1 .. Len(s) /\ r[j] = s[j - 1]
      BY <1>3
    <3>2. \A x, y \in 1 .. Len(s) : s[x] = s[y] => x = y BY DEF List
    <3>3. CASE i = n + 1 /\ r[i] = t BY <1>2, <2>1, <3>1, <3>3
    <3>4. CASE j = n + 1 /\ r[j] = t BY <1>2, <2>1, <3>1, <3>4
    <3>5. CASE i \in 1 .. n /\ i \in 1 .. Len(s) /\ r[i] = s[i]
      <4>1. CASE j \in 1 .. n /\ j \in 1 .. Len(s) /\ r[j] = s[j] BY <2>1, <3>2, <3>5, <4>1
      <4>2. CASE j - 1 \in n + 1 .. Len(s) /\ j - 1 \in 1 .. Len(s) /\ r[j] = s[j - 1]
        <5>1. i = j - 1 BY <2>1, <3>2, <3>5, <4>2
        <5> QED BY <1>1, <3>5, <4>2, <5>1
      <4> QED BY <3>1, <3>4, <4>1, <4>2
    <3>6. CASE i - 1 \in n + 1 .. Len(s) /\ i - 1 \in 1 .. Len(s) /\ r[i] = s[i - 1]
      <4>1. CASE j \in 1 .. n /\ j \in 1 .. Len(s) /\ r[j] = s[j]
        <5>1. i - 1 = j BY <2>1, <3>2, <3>6, <4>1
        <5> QED BY <1>1, <3>6, <4>1, <5>1
      <4>2. CASE j - 1 \in n + 1 .. Len(s) /\ j - 1 \in 1 .. Len(s) /\ r[j] = s[j - 1]
        <5>1. i - 1 = j - 1 BY <2>1, <3>2, <3>6, <4>2
        <5> QED BY <1>1, <5>1
      <4> QED BY <3>1, <3>4, <4>1, <4>2
    <3> QED BY <3>1, <3>3, <3>5, <3>6
  <2> QED BY <2>1 DEF List
<1>5. ASSUME NEW u PROVE u \in ToSet(r) <=> u \in ToSet(s) \cup {t}
  <2>1. ToSet(r) = {r[i] : i \in 1 .. Len(s) + 1} BY InList
  <2>2. ToSet(s) = {s[i] : i \in 1 .. Len(s)} BY <1>1, InList
  <2>3. ASSUME NEW i \in 1 .. Len(s) + 1, u = r[i] PROVE u \in ToSet(s) \cup {t}
    BY <1>3, <2>2, <2>3
  <2>4. ASSUME NEW i \in 1 .. Len(s), u = s[i] PROVE u \in ToSet(r)
    <3>1. CASE i <= n
      <4>1. i \in 1 .. Len(s) + 1 /\ i \in 1 .. n BY <1>1, <3>1
      <4> QED BY <2>1, <2>4, <4>1
    <3>2. CASE i > n
      <4>1. i + 1 \in 1 .. Len(s) + 1 /\ i \in n + 1 .. Len(s) BY <1>1, <3>2
      <4> QED BY <2>1, <2>4, <4>1
    <3> QED BY <1>1, <3>1, <3>2
  <2>5. t \in ToSet(r)
    <3>1. n + 1 \in 1 .. Len(s) + 1 BY <1>1
    <3> QED BY <2>1, <3>1
  <2> QED BY <2>1, <2>2, <2>3, <2>4, <2>5
<1> QED BY <1>4, <1>5

\* The list r is s with t after its first n.
PutAt(s, n, t, r) ==
  /\ Len(r) = Len(s) + 1 /\ r[n + 1] = t
  /\ \A i \in 1 .. n : r[i] = s[i]
  /\ \A i \in n + 1 .. Len(s) : r[i + 1] = s[i]

\* A task comes in at a place in the list.
LEMMA InsertedJoins ==
  ASSUME NEW s, List(s), NEW t \in Tasks \ ToSet(s), NEW n \in 0 .. Len(s), NEW r,
         r = SubSeq(s, 1, n) \o <<t>> \o SubSeq(s, n + 1, Len(s))
  PROVE  List(r) /\ ToSet(r) = ToSet(s) \cup {t} /\ PutAt(s, n, t, r)
<1>1. s \in Seq(Tasks) /\ Len(s) \in Nat BY DEF List
<1>2. /\ SubSeq(s, 1, n) \in Seq(Tasks) /\ Len(SubSeq(s, 1, n)) = n
      /\ \A i \in 1 .. n : SubSeq(s, 1, n)[i] = s[i]
  BY <1>1
<1>3. /\ SubSeq(s, n + 1, Len(s)) \in Seq(Tasks) /\ Len(SubSeq(s, n + 1, Len(s))) = Len(s) - n
      /\ \A i \in 1 .. Len(s) - n : SubSeq(s, n + 1, Len(s))[i] = s[n + i]
  BY <1>1
<1>4. PICK a, b : a = SubSeq(s, 1, n) /\ b = SubSeq(s, n + 1, Len(s)) OBVIOUS
<1>5. PICK c : c = a \o <<t>> OBVIOUS
<1>6. /\ c \in Seq(Tasks) /\ Len(c) = n + 1 /\ c[n + 1] = t /\ \A i \in 1 .. n : c[i] = s[i]
  BY <1>1, <1>2, <1>4, <1>5
<1>7. r = c \o b BY <1>4, <1>5
<1>8. /\ r \in Seq(Tasks) /\ Len(r) = (n + 1) + (Len(s) - n)
      /\ \A i \in 1 .. n + 1 : r[i] = c[i]
      /\ \A i \in 1 .. Len(s) - n : r[(n + 1) + i] = b[i]
  <2>1. /\ b \in Seq(Tasks) /\ Len(b) = Len(s) - n BY <1>3, <1>4
  <2>2. /\ c \o b \in Seq(Tasks) /\ Len(c \o b) = Len(c) + Len(b)
        /\ \A i \in 1 .. Len(c) : (c \o b)[i] = c[i]
        /\ \A i \in 1 .. Len(b) : (c \o b)[Len(c) + i] = b[i]
    BY <1>6, <2>1, InARow
  <2> QED BY <1>6, <1>7, <2>1, <2>2
<1>9. /\ Len(r) = Len(s) + 1 /\ r[n + 1] = t
      /\ \A i \in 1 .. n : r[i] = s[i]
      /\ \A i \in n + 1 .. Len(s) : r[i + 1] = s[i]
  <2>1. Len(r) = Len(s) + 1 BY <1>1, <1>8
  <2>2. r[n + 1] = t /\ \A i \in 1 .. n : r[i] = s[i]
    <3>1. n + 1 \in 1 .. n + 1 /\ \A i \in 1 .. n : i \in 1 .. n + 1 BY <1>1
    <3>2. \A i \in 1 .. n + 1 : r[i] = c[i] BY <1>8
    <3>3. c[n + 1] = t /\ \A i \in 1 .. n : c[i] = s[i] BY <1>6
    <3> QED BY ONLY <3>1, <3>2, <3>3
  <2>3. ASSUME NEW i \in n + 1 .. Len(s) PROVE r[i + 1] = s[i]
    <3>1. i - n \in 1 .. Len(s) - n /\ (n + 1) + (i - n) = i + 1 /\ n + (i - n) = i BY <1>1
    <3>2. r[i + 1] = b[i - n] BY <1>8, <3>1
    <3> QED BY <1>3, <1>4, <3>1, <3>2
  <2> QED BY <2>1, <2>2, <2>3
<1>10. PICK x \in Seq(Tasks) : x = r BY <1>8
<1>11. /\ Len(x) = Len(s) + 1 /\ x[n + 1] = t /\ \A i \in 1 .. n : x[i] = s[i]
       /\ \A i \in n + 1 .. Len(s) : x[i + 1] = s[i]
  BY <1>9, <1>10
<1>12. List(x) /\ ToSet(x) = ToSet(s) \cup {t}
  <2>1. n \in 0 .. Len(s) /\ List(s) /\ t \in Tasks \ ToSet(s) OBVIOUS
  <2> QED BY ONLY <1>11, <2>1, x \in Seq(Tasks), Widened
<1> QED BY <1>9, <1>10, <1>12 DEF PutAt

\* Without, as far as the i-th task of the list.
Keeps(s, S, f, n) == f = [i \in 0 .. n |-> IF i = 0 THEN <<>> ELSE IF s[i] \in S THEN f[i - 1] ELSE Append(f[i - 1], s[i])]

\* The recursion of Without goes one step further.
LEMMA KeepsExtends ==
  ASSUME NEW s, NEW S, NEW n \in Nat, NEW f, Keeps(s, S, f, n)
  PROVE  \E g : Keeps(s, S, g, n + 1)
<1>1. DOMAIN f = 0 .. n /\ \A i \in 0 .. n : f[i] = IF i = 0 THEN <<>> ELSE IF s[i] \in S THEN f[i - 1] ELSE Append(f[i - 1], s[i])
  BY Zenon DEF Keeps
<1>2. PICK v : v = IF s[n + 1] \in S THEN f[n] ELSE Append(f[n], s[n + 1]) OBVIOUS
<1>3. PICK g : g = [i \in 0 .. n + 1 |-> IF i = n + 1 THEN v ELSE f[i]] OBVIOUS
<1>4. ASSUME NEW i \in 0 .. n + 1
      PROVE  g[i] = IF i = 0 THEN <<>> ELSE IF s[i] \in S THEN g[i - 1] ELSE Append(g[i - 1], s[i])
  <2>1. CASE i = n + 1
    <3>1. i - 1 = n /\ n \in 0 .. n + 1 /\ n # n + 1 /\ i # 0 BY <2>1
    <3>2. g[i] = v /\ g[n] = f[n] BY <1>3, <2>1, <3>1
    <3> QED BY <1>2, <2>1, <3>1, <3>2
  <2>2. CASE i # n + 1
    <3>1. i \in 0 .. n /\ (i # 0 => i - 1 \in 0 .. n + 1 /\ i - 1 # n + 1) BY <2>2
    <3>2. g[i] = f[i] /\ (i # 0 => g[i - 1] = f[i - 1]) BY <1>3, <2>2, <3>1
    <3> QED BY <1>1, <3>1, <3>2
  <2> QED BY <2>1, <2>2
<1>5. g = [i \in 0 .. n + 1 |-> g[i]] BY <1>3
<1>6. Keeps(s, S, g, n + 1) BY <1>4, <1>5, Zenon DEF Keeps
<1> QED BY <1>6

\* The function that Without is made of exists.
LEMMA KeepsExists == ASSUME NEW s, NEW S, NEW n \in Nat PROVE \E f : Keeps(s, S, f, n)
<1> DEFINE T == {m \in Nat : \E f : Keeps(s, S, f, m)}
<1>1. 0 \in T
  <2>1. PICK f : f = [i \in 0 .. 0 |-> <<>>] OBVIOUS
  <2>2. \A i \in 0 .. 0 : f[i] = IF i = 0 THEN <<>> ELSE IF s[i] \in S THEN f[i - 1] ELSE Append(f[i - 1], s[i])
    BY <2>1
  <2>3. f = [i \in 0 .. 0 |-> f[i]] BY <2>1
  <2>4. Keeps(s, S, f, 0) BY <2>2, <2>3, Zenon DEF Keeps
  <2> QED BY <2>4
<1>2. \A m \in Nat : m \in T => m + 1 \in T BY KeepsExtends
<1>3. Nat \subseteq T
  <2> HIDE DEF T
  <2> QED BY <1>1, <1>2, Reaches
<1> QED BY <1>3

\* What Without keeps of a list.
LEMMA KeepsRest ==
  ASSUME NEW s, List(s), NEW S, NEW f, Keeps(s, S, f, Len(s)), NEW n \in 0 .. Len(s)
  PROVE  List(f[n]) /\ \A t : t \in ToSet(f[n]) <=> \E j \in 1 .. n : t = s[j] /\ t \notin S
<1> DEFINE Rest(m) == List(f[m]) /\ \A t : t \in ToSet(f[m]) <=> \E j \in 1 .. m : t = s[j] /\ t \notin S
           T == {m \in Nat : m <= Len(s) => Rest(m)}
<1>0. s \in Seq(Tasks) /\ Len(s) \in Nat BY DEF List
<1>1. \A i \in 0 .. Len(s) : f[i] = IF i = 0 THEN <<>> ELSE IF s[i] \in S THEN f[i - 1] ELSE Append(f[i - 1], s[i])
  BY Zenon DEF Keeps
<1>2. 0 \in T
  <2>1. f[0] = <<>> BY <1>0, <1>1
  <2>2. Rest(0) BY <2>1 DEF List, ToSet
  <2> QED BY <2>2
<1>3. ASSUME NEW m \in Nat, m \in T PROVE m + 1 \in T
  <2> SUFFICES ASSUME m + 1 <= Len(s) PROVE Rest(m + 1) OBVIOUS
  <2>1. m + 1 \in 0 .. Len(s) /\ (m + 1) - 1 = m /\ m + 1 # 0 /\ m + 1 \in 1 .. Len(s) BY <1>0
  <2>2. Rest(m) BY <1>0, <1>3
  <2>3. f[m + 1] = IF s[m + 1] \in S THEN f[m] ELSE Append(f[m], s[m + 1]) BY <1>1, <2>1
  <2>4. \A j : j \in 1 .. m + 1 <=> j \in 1 .. m \/ j = m + 1 OBVIOUS
  <2>5. s[m + 1] \in Tasks BY <1>0, <2>1
  <2>6. CASE s[m + 1] \in S BY <2>2, <2>3, <2>4, <2>6
  <2>7. CASE s[m + 1] \notin S
    <3>1. s[m + 1] \notin ToSet(f[m])
      <4>1. ASSUME NEW j \in 1 .. m, s[m + 1] = s[j] PROVE FALSE
        <5>1. j \in 1 .. Len(s) /\ j # m + 1 BY <1>0
        <5> QED BY <2>1, <4>1, <5>1 DEF List
      <4> QED BY <2>2, <4>1
    <3>2. List(f[m]) /\ f[m] \in Seq(Tasks) BY <2>2 DEF List
    <3>3. PICK g, u : g = f[m] /\ u = s[m + 1] OBVIOUS
    <3>4. List(Append(g, u)) /\ ToSet(Append(g, u)) = ToSet(g) \cup {u}
      BY <2>5, <3>1, <3>2, <3>3, AppendList, AppendJoins
    <3>5. f[m + 1] = Append(g, u) BY <2>3, <2>7, <3>3
    <3>6. ASSUME NEW t PROVE t \in ToSet(f[m + 1]) <=> \E j \in 1 .. m + 1 : t = s[j] /\ t \notin S
      <4>1. t \in ToSet(f[m]) <=> \E j \in 1 .. m : t = s[j] /\ t \notin S BY <2>2
      <4> QED BY <2>4, <2>7, <3>3, <3>4, <3>5, <4>1
    <3> QED BY <3>4, <3>5, <3>6
  <2> QED BY <2>6, <2>7
<1>4. Nat \subseteq T
  <2> HIDE DEF T
  <2> QED BY <1>2, <1>3, Reaches
<1>5. n \in Nat /\ n <= Len(s) BY <1>0
<1>6. Rest(n)
  <2>1. n \in T BY <1>4, <1>5
  <2> QED BY <1>5, <2>1
<1> QED BY <1>6

\* The tasks that are due leave a list and the others stay.
LEMMA WithoutLeaves ==
  ASSUME NEW s, List(s), NEW S
  PROVE  List(Without(s, S)) /\ ToSet(Without(s, S)) = ToSet(s) \ S
<1>0. s \in Seq(Tasks) /\ Len(s) \in Nat /\ Len(s) \in 0 .. Len(s) BY DEF List
<1>1. PICK f : f = CHOOSE g : Keeps(s, S, g, Len(s)) OBVIOUS
<1>2. Keeps(s, S, f, Len(s)) BY <1>0, <1>1, KeepsExists
<1>3. Without(s, S) = f[Len(s)] BY <1>1 DEF Without, Keeps
<1>4. /\ List(f[Len(s)])
      /\ \A t : t \in ToSet(f[Len(s)]) <=> \E j \in 1 .. Len(s) : t = s[j] /\ t \notin S
  BY <1>0, <1>2, KeepsRest
<1>5. ToSet(s) = {s[j] : j \in 1 .. Len(s)} BY <1>0, InList
<1> QED BY <1>3, <1>4, <1>5

(* ------------------------------ the kernel ------------------------------ *)

\* Times are numbers.
LEMMA TickTypes == portMAX_DELAY \in Nat /\ 0 \in TickType /\ portMAX_DELAY \in TickType
<1>1. IsFiniteSet(1 .. TickBits) /\ Cardinality(1 .. TickBits) = TickBits
  BY KernelAssumption, FS_Interval
<1>2. IsFiniteSet(SUBSET (1 .. TickBits)) /\ Cardinality(SUBSET (1 .. TickBits)) = 2 ^ TickBits
  BY <1>1, FS_SUBSET
<1>3. 2 ^ TickBits \in Nat /\ 2 ^ TickBits # 0
  BY <1>2, FS_CardinalityType, FS_EmptySet
<1> QED BY <1>3 DEF portMAX_DELAY, TickType

\* The kernel's state.
States == {"ready", "delayed", "overflow", "suspended"}
Kernels == [st : [Tasks -> States], wake : [Tasks -> TickType], ev : [Lists -> Seq(Tasks)],
            pending : Seq(Tasks), prio : [Tasks -> Nat], cur : Tasks \cup {Idle}, susp : Nat,
            tick : TickType, over : Overflows, next : TickType, pended : Nat,
            yield : BOOLEAN, swi : BOOLEAN]

\* The application's tasks are above the idle task.
PrioOK(x) == \A t \in Tasks : x.prio[t] > 0

\* A task is in at most one event list, or pending, and then it is not ready.
ListsOK(x) ==
  /\ \A l \in Lists : List(x.ev[l]) /\ \A t \in ToSet(x.ev[l]) : x.st[t] # "ready"
  /\ List(x.pending) /\ \A t \in ToSet(x.pending) : x.st[t] # "ready"
  /\ \A t \in ToSet(x.pending), l \in Lists : t \notin ToSet(x.ev[l])
  /\ \A l, m \in Lists : l # m => \A t \in ToSet(x.ev[l]) : t \notin ToSet(x.ev[m])
  /\ x.susp = 0 => x.pending = <<>>

\* The part of it that also holds when a task may be woken before it blocks.
EventsOK(x) ==
  /\ \A l \in Lists : List(x.ev[l]) /\ \A t \in ToSet(x.ev[l]) : x.st[t] # "ready"
  /\ \A t \in ToSet(x.pending), l \in Lists : t \notin ToSet(x.ev[l])
  /\ \A l, m \in Lists : l # m => \A t \in ToSet(x.ev[l]) : t \notin ToSet(x.ev[m])
  /\ x.susp = 0 => x.pending = <<>>

\* Waiting tasks are in the list that their time calls for.
TimesOK(x) ==
  /\ \A t \in Tasks : x.st[t] = "delayed" => x.wake[t] > x.tick /\ x.next <= x.wake[t]
  /\ \A t \in Tasks : x.st[t] = "overflow" => x.wake[t] <= x.tick
\* ... or due, after a tick.
TimesDue(x) ==
  /\ \A t \in Tasks : x.st[t] = "delayed" => x.wake[t] >= x.tick /\ x.next <= x.wake[t]
  /\ \A t \in Tasks : x.st[t] = "overflow" => x.wake[t] <= x.tick

KernelOK(x) == x \in Kernels /\ PrioOK(x) /\ ListsOK(x) /\ TimesOK(x)
\* ... when a task may be woken before it blocks.
WokenOK(x) == x \in Kernels /\ PrioOK(x) /\ EventsOK(x) /\ TimesOK(x)

\* A consistent kernel is consistent in the weaker sense too.
LEMMA KernelWoken == ASSUME NEW x, KernelOK(x) PROVE WokenOK(x)
  BY DEF KernelOK, WokenOK, ListsOK, EventsOK

\* With the scheduler running the two are the same.
LEMMA RunningWoken == ASSUME NEW x, WokenOK(x), x.susp = 0 PROVE KernelOK(x)
<1>1. x.pending = <<>> BY DEF WokenOK, EventsOK
<1>2. List(<<>>) /\ ToSet(<<>>) = {} BY DEF List, ToSet
<1> QED BY <1>1, <1>2 DEF KernelOK, WokenOK, ListsOK, EventsOK

\* The fields of a kernel, with their types.
LEMMA KernelFields ==
  ASSUME NEW x \in Kernels
  PROVE  /\ x.st \in [Tasks -> States] /\ x.wake \in [Tasks -> TickType] /\ x.ev \in [Lists -> Seq(Tasks)]
         /\ x.pending \in Seq(Tasks) /\ x.prio \in [Tasks -> Nat] /\ x.cur \in Tasks \cup {Idle}
         /\ x.susp \in Nat /\ x.tick \in TickType /\ x.over \in Overflows /\ x.next \in TickType
         /\ x.pended \in Nat /\ x.yield \in BOOLEAN /\ x.swi \in BOOLEAN
  BY DEF Kernels

\* Nothing but xNextTaskUnblockTime changes.
OnlyNext(x, y) ==
  /\ y.st = x.st /\ y.wake = x.wake /\ y.ev = x.ev /\ y.pending = x.pending /\ y.prio = x.prio
  /\ y.cur = x.cur /\ y.susp = x.susp /\ y.tick = x.tick /\ y.over = x.over
  /\ y.pended = x.pended /\ y.yield = x.yield /\ y.swi = x.swi

\* prvResetNextTaskUnblockTime: only xNextTaskUnblockTime changes, and it is not too late.
LEMMA ResetNext ==
  ASSUME NEW x \in Kernels
  PROVE  /\ prvResetNextTaskUnblockTime(x) \in Kernels /\ OnlyNext(x, prvResetNextTaskUnblockTime(x))
         /\ \A t \in Tasks : x.st[t] = "delayed" => prvResetNextTaskUnblockTime(x).next <= x.wake[t]
<1>1. PICK d : d = {x.wake[t] : t \in On(x, "delayed")} OBVIOUS
<1>2. PICK n : n = IF d = {} THEN portMAX_DELAY ELSE Min(d) OBVIOUS
<1>3. d \subseteq TickType /\ \A t \in Tasks : x.st[t] = "delayed" => x.wake[t] \in d
  BY <1>1, KernelFields DEF On
<1>4. TickType \subseteq Nat BY TickTypes DEF TickType
<1>5. n \in TickType /\ \A j \in d : n <= j
  <2>1. CASE d = {} BY <1>2, <2>1, TickTypes
  <2>2. CASE d # {} BY <1>2, <1>3, <1>4, <2>2, MinLeast
  <2> QED BY <2>1, <2>2
<1>6. prvResetNextTaskUnblockTime(x) = [x EXCEPT !.next = n]
  BY <1>1, <1>2 DEF prvResetNextTaskUnblockTime
<1>7. [x EXCEPT !.next = n] \in Kernels /\ OnlyNext(x, [x EXCEPT !.next = n])
      /\ [x EXCEPT !.next = n].next = n
  BY <1>5 DEF Kernels, OnlyNext
<1> QED BY <1>3, <1>5, <1>6, <1>7

\* No ready task has a higher priority than the current one.
NoneAbove(x) == \A u \in Tasks : x.st[u] = "ready" => x.prio[u] <= PrioOf(x, x.cur)

\* A step that wakes tasks at most.
Wakes(x, y) ==
  /\ y.cur = x.cur /\ y.susp = x.susp /\ y.prio = x.prio
  /\ \A u \in Tasks : x.st[u] = "ready" => y.st[u] = "ready"

\* No tick is counted or pended.
SameTime(x, y) == y.tick = x.tick /\ y.over = x.over /\ y.pended = x.pended

\* What xTaskRemoveFromEventList does to each field.
Removed(x, l, t, y) ==
  /\ y \in Kernels /\ y.cur = x.cur /\ y.susp = x.susp /\ y.prio = x.prio
  /\ SameTime(x, y) /\ y.next = x.next /\ y.swi = x.swi
  /\ y.ev = [x.ev EXCEPT ![l] = Tail(x.ev[l])]
  /\ y.yield = (x.yield \/ Outranks(x, t))
  /\ x.susp = 0 => /\ y.st = [x.st EXCEPT ![t] = "ready"] /\ y.wake = [x.wake EXCEPT ![t] = 0]
                   /\ y.pending = x.pending
  /\ x.susp # 0 => y.st = x.st /\ y.wake = x.wake /\ y.pending = Append(x.pending, t)

\* xTaskRemoveFromEventList, field by field, with the scheduler running or suspended.
LEMMA RemoveFields ==
  ASSUME NEW x \in Kernels, NEW l \in Lists, NEW t \in Tasks, t = Head(x.ev[l]),
         Tail(x.ev[l]) \in Seq(Tasks), NEW y, y = xTaskRemoveFromEventList(x, l)
  PROVE  Removed(x, l, t, y)
<1>1. PICK e, b : e = [x.ev EXCEPT ![l] = Tail(x.ev[l])] /\ b = (x.yield \/ Outranks(x, t)) OBVIOUS
<1>2. e \in [Lists -> Seq(Tasks)] /\ b \in BOOLEAN BY <1>1, KernelFields
<1>3. PICK k1 : k1 = [x EXCEPT !.ev = e, !.yield = b] OBVIOUS
<1>4. /\ k1 \in Kernels /\ k1.cur = x.cur /\ k1.susp = x.susp /\ k1.prio = x.prio
      /\ SameTime(x, k1) /\ k1.next = x.next /\ k1.swi = x.swi /\ k1.ev = e /\ k1.yield = b
      /\ k1.st = x.st /\ k1.wake = x.wake /\ k1.pending = x.pending
  BY <1>2, <1>3 DEF Kernels, SameTime
<1>5. y = IF x.susp = 0 THEN prvAddTaskToReadyList(k1, t) ELSE [k1 EXCEPT !.pending = Append(@, t)]
  BY <1>1, <1>3 DEF xTaskRemoveFromEventList, Kernels
<1>6. CASE x.susp = 0
  <2>1. PICK s, w : s = [k1.st EXCEPT ![t] = "ready"] /\ w = [k1.wake EXCEPT ![t] = 0] OBVIOUS
  <2>2. s \in [Tasks -> States] /\ w \in [Tasks -> TickType] BY <1>4, <2>1, KernelFields, TickTypes DEF States
  <2>3. y = [k1 EXCEPT !.st = s, !.wake = w] BY <1>4, <1>5, <1>6, <2>1 DEF prvAddTaskToReadyList, Kernels
  <2>4. /\ y \in Kernels /\ y.cur = k1.cur /\ y.susp = k1.susp /\ y.prio = k1.prio
        /\ SameTime(k1, y) /\ y.next = k1.next /\ y.swi = k1.swi /\ y.ev = k1.ev /\ y.yield = k1.yield
        /\ y.st = s /\ y.wake = w /\ y.pending = k1.pending
    BY <1>4, <2>2, <2>3 DEF Kernels, SameTime
  <2> QED BY <1>1, <1>4, <1>6, <2>1, <2>4 DEF Removed, SameTime
<1>7. CASE x.susp # 0
  <2>1. PICK p : p = Append(k1.pending, t) OBVIOUS
  <2>2. p \in Seq(Tasks) BY <1>4, <2>1, KernelFields
  <2>3. y = [k1 EXCEPT !.pending = p] BY <1>4, <1>5, <1>7, <2>1 DEF Kernels
  <2>4. /\ y \in Kernels /\ y.cur = k1.cur /\ y.susp = k1.susp /\ y.prio = k1.prio
        /\ SameTime(k1, y) /\ y.next = k1.next /\ y.swi = k1.swi /\ y.ev = k1.ev /\ y.yield = k1.yield
        /\ y.st = k1.st /\ y.wake = k1.wake /\ y.pending = p
    BY <1>4, <2>2, <2>3 DEF Kernels, SameTime
  <2> QED BY <1>1, <1>4, <1>7, <2>1, <2>4 DEF Removed, SameTime
<1> QED BY <1>6, <1>7

\* It keeps the kernel consistent, and the task it wakes asks for a switch if it has to.
LEMMA RemoveKeeps ==
  ASSUME NEW x, KernelOK(x), NEW l \in Lists, x.ev[l] # <<>>,
         NEW y, y = xTaskRemoveFromEventList(x, l)
  PROVE  /\ KernelOK(y) /\ Wakes(x, y) /\ y.swi = x.swi /\ (x.yield => y.yield)
         /\ \A m \in Lists \ {l} : y.ev[m] = x.ev[m]
         /\ NoneAbove(x) /\ ~Outranks(x, Head(x.ev[l])) => NoneAbove(y)
         /\ x.susp # 0 => y.st = x.st
         /\ y.ev[l] = Tail(x.ev[l]) /\ SameTime(x, y)
<1>1. x \in Kernels /\ List(x.ev[l]) BY DEF KernelOK, ListsOK
<1>2. PICK t : t = Head(x.ev[l]) OBVIOUS
<1>3. /\ t \in Tasks /\ t \in ToSet(x.ev[l]) /\ List(Tail(x.ev[l])) /\ Tail(x.ev[l]) \in Seq(Tasks)
      /\ ToSet(Tail(x.ev[l])) = ToSet(x.ev[l]) \ {t}
  BY <1>1, <1>2, TailLeaves DEF List
<1>4. /\ y \in Kernels /\ y.cur = x.cur /\ y.susp = x.susp /\ y.prio = x.prio
      /\ y.tick = x.tick /\ y.next = x.next /\ y.swi = x.swi /\ SameTime(x, y)
      /\ y.ev = [x.ev EXCEPT ![l] = Tail(x.ev[l])]
      /\ y.yield = (x.yield \/ Outranks(x, t))
      /\ x.susp = 0 => /\ y.st = [x.st EXCEPT ![t] = "ready"] /\ y.wake = [x.wake EXCEPT ![t] = 0]
                       /\ y.pending = x.pending
      /\ x.susp # 0 => /\ y.st = x.st /\ y.wake = x.wake /\ y.pending = Append(x.pending, t)
  <2>1. Removed(x, l, t, y) BY <1>1, <1>2, <1>3, RemoveFields
  <2> QED BY <2>1 DEF Removed, SameTime
<1>5. /\ x.st \in [Tasks -> States] /\ x.wake \in [Tasks -> TickType] /\ x.ev \in [Lists -> Seq(Tasks)]
      /\ x.pending \in Seq(Tasks)
  BY <1>1, KernelFields
<1>6. y.ev[l] = Tail(x.ev[l]) /\ \A m \in Lists \ {l} : y.ev[m] = x.ev[m] BY <1>4, <1>5
<1>7. /\ \A u \in Tasks \ {t} : y.st[u] = x.st[u] /\ y.wake[u] = x.wake[u]
      /\ \A u \in Tasks : y.st[u] = "ready" => x.st[u] = "ready" \/ (u = t /\ x.susp = 0)
      /\ (y.st[t] = x.st[t] /\ y.wake[t] = x.wake[t]) \/ y.st[t] = "ready"
  BY <1>3, <1>4, <1>5
<1>8. Wakes(x, y) BY <1>3, <1>4, <1>5 DEF Wakes
<1>9. TimesOK(y) BY <1>4, <1>7 DEF TimesOK, KernelOK
<1>10. ListsOK(y)
  <2>1. ASSUME NEW m \in Lists
        PROVE  /\ List(y.ev[m]) /\ ToSet(y.ev[m]) \subseteq ToSet(x.ev[m]) /\ t \notin ToSet(y.ev[m])
    <3>1. CASE m = l BY <1>3, <1>6, <3>1
    <3>2. CASE m # l BY <1>3, <1>6, <3>2 DEF KernelOK, ListsOK
    <3> QED BY <3>1, <3>2
  <2>2. ASSUME NEW m \in Lists, NEW u \in ToSet(y.ev[m]) PROVE y.st[u] # "ready"
    <3>1. u \in ToSet(x.ev[m]) /\ u # t /\ u \in Tasks
      <4>1. x.ev[m] \in Seq(Tasks) BY <1>5
      <4> QED BY <2>1, <4>1, InList
    <3> QED BY <1>7, <3>1 DEF KernelOK, ListsOK
  <2>3. /\ List(y.pending) /\ \A u \in ToSet(y.pending) : y.st[u] # "ready"
        /\ \A u \in ToSet(y.pending), m \in Lists : u \notin ToSet(y.ev[m])
    <3>1. CASE x.susp = 0
      <4>1. y.pending = <<>> BY <1>4, <3>1 DEF KernelOK, ListsOK
      <4> QED BY <4>1 DEF List, ToSet
    <3>2. CASE x.susp # 0
      <4>1. y.pending = Append(x.pending, t) /\ y.st = x.st BY <1>4, <3>2
      <4>2. List(x.pending) /\ t \notin ToSet(x.pending) BY <1>3 DEF KernelOK, ListsOK
      <4>3. List(y.pending) BY <1>3, <4>1, <4>2, AppendList
      <4>4. ToSet(y.pending) = ToSet(x.pending) \cup {t} BY <1>3, <1>5, <4>1, AppendJoins
      <4>5. \A u \in ToSet(y.pending) : y.st[u] # "ready"
        BY <1>3, <4>1, <4>4 DEF KernelOK, ListsOK
      <4>6. \A u \in ToSet(y.pending), m \in Lists : u \notin ToSet(y.ev[m])
        BY <2>1, <4>4 DEF KernelOK, ListsOK
      <4> QED BY <4>3, <4>5, <4>6
    <3> QED BY <3>1, <3>2
  <2>4. \A m, n \in Lists : m # n => \A u \in ToSet(y.ev[m]) : u \notin ToSet(y.ev[n])
    BY <2>1 DEF KernelOK, ListsOK
  <2>5. y.susp = 0 => y.pending = <<>> BY <1>4 DEF KernelOK, ListsOK
  <2> QED BY <2>1, <2>2, <2>3, <2>4, <2>5 DEF ListsOK
<1>11. KernelOK(y) BY <1>4, <1>9, <1>10 DEF KernelOK, PrioOK
<1>12. NoneAbove(x) /\ ~Outranks(x, t) => NoneAbove(y)
  <2> SUFFICES ASSUME NoneAbove(x), ~Outranks(x, t), NEW u \in Tasks, y.st[u] = "ready"
               PROVE  y.prio[u] <= PrioOf(y, y.cur)
    BY DEF NoneAbove
  <2>1. PrioOf(y, y.cur) = PrioOf(x, x.cur) BY <1>4 DEF PrioOf
  <2>2. PrioOf(x, x.cur) \in Nat /\ x.prio[u] \in Nat BY <1>1, KernelFields DEF PrioOf
  <2>3. CASE x.st[u] = "ready" BY <1>4, <2>1, <2>3 DEF NoneAbove
  <2>4. CASE u = t BY <1>4, <2>1, <2>2, <2>4 DEF Outranks
  <2> QED BY <1>7, <2>3, <2>4
<1> QED BY <1>2, <1>4, <1>6, <1>8, <1>11, <1>12

\* A request for a switch changes nothing else.
OnlySwi(x, y) ==
  /\ y.st = x.st /\ y.wake = x.wake /\ y.ev = x.ev /\ y.pending = x.pending /\ y.prio = x.prio
  /\ y.cur = x.cur /\ y.susp = x.susp /\ y.tick = x.tick /\ y.over = x.over /\ y.next = x.next
  /\ y.pended = x.pended /\ y.yield = x.yield

\* A request for a switch disturbs nothing.
LEMMA YieldKeeps ==
  ASSUME NEW x, KernelOK(x), NEW y, y = portYIELD(x)
  PROVE  KernelOK(y) /\ OnlySwi(x, y) /\ y.swi
<1>1. x \in Kernels BY DEF KernelOK
<1>2. y \in Kernels /\ OnlySwi(x, y) /\ y.swi BY <1>1 DEF portYIELD, Kernels, OnlySwi
<1> QED BY <1>2 DEF KernelOK, OnlySwi, PrioOK, ListsOK, TimesOK

\* A step after which the processor is with a task of the highest priority, or a switch
\* is requested, if it was so before.
Served(x, y) ==
  /\ KernelOK(y) /\ Wakes(x, y) /\ (x.swi => y.swi)
  /\ NoneAbove(x) /\ ~y.swi => NoneAbove(y)
  /\ x.susp # 0 => y.st = x.st

\* To do nothing serves a kernel.
LEMMA SameServed == ASSUME NEW x, KernelOK(x) PROVE Served(x, x)
  BY DEF Served, Wakes

\* Waking the first waiter of a list keeps the kernel in order and asks for a switch when one is due.
LEMMA WakeFirstServes ==
  ASSUME NEW x, KernelOK(x), NEW l \in Lists, NEW y, y = WakeFirst(x, l)
  PROVE  Served(x, y) /\ SameTime(x, y)
<1>1. CASE x.ev[l] = <<>> BY <1>1, SameServed DEF WakeFirst, SameTime
<1>2. CASE x.ev[l] # <<>>
  <2>1. PICK z : z = xTaskRemoveFromEventList(x, l) OBVIOUS
  <2>2. /\ KernelOK(z) /\ Wakes(x, z) /\ z.swi = x.swi
        /\ NoneAbove(x) /\ ~Outranks(x, Head(x.ev[l])) => NoneAbove(z)
        /\ x.susp # 0 => z.st = x.st
        /\ SameTime(x, z)
    BY <1>2, <2>1, RemoveKeeps
  <2>3. CASE Outranks(x, Head(x.ev[l]))
    <3>1. y = portYIELD(z) BY <1>2, <2>1, <2>3 DEF WakeFirst, portYIELD_if
    <3>2. KernelOK(y) /\ OnlySwi(z, y) /\ y.swi BY <2>2, <3>1, YieldKeeps
    <3> QED BY <2>2, <3>2 DEF Served, OnlySwi, Wakes, SameTime
  <2>4. CASE ~Outranks(x, Head(x.ev[l]))
    <3>1. y = z BY <1>2, <2>1, <2>4 DEF WakeFirst, portYIELD_if
    <3> QED BY <2>2, <2>4, <3>1 DEF Served
  <2> QED BY <2>3, <2>4
<1> QED BY <1>1, <1>2

\* The first waiter of a list, if there is one, leaves it.
LEMMA WakeFirstTakes ==
  ASSUME NEW x, KernelOK(x), NEW l \in Lists, NEW y, y = WakeFirst(x, l)
  PROVE  /\ \A m \in Lists \ {l} : y.ev[m] = x.ev[m]
         /\ x.ev[l] = <<>> => y.ev[l] = <<>>
         /\ x.ev[l] # <<>> => y.ev[l] = Tail(x.ev[l])
<1>1. CASE x.ev[l] = <<>> BY <1>1 DEF WakeFirst
<1>2. CASE x.ev[l] # <<>>
  <2>1. PICK z : z = xTaskRemoveFromEventList(x, l) OBVIOUS
  <2>2. KernelOK(z) /\ z.ev[l] = Tail(x.ev[l]) /\ \A m \in Lists \ {l} : z.ev[m] = x.ev[m]
    BY <1>2, <2>1, RemoveKeeps
  <2>3. CASE Outranks(x, Head(x.ev[l]))
    <3>1. y = portYIELD(z) BY <1>2, <2>1, <2>3 DEF WakeFirst, portYIELD_if
    <3>2. OnlySwi(z, y) BY <2>2, <3>1, YieldKeeps
    <3> QED BY <1>2, <2>2, <3>2 DEF OnlySwi
  <2>4. CASE ~Outranks(x, Head(x.ev[l]))
    <3>1. y = z BY <1>2, <2>1, <2>4 DEF WakeFirst, portYIELD_if
    <3> QED BY <1>2, <2>2, <3>1
  <2> QED BY <2>3, <2>4
<1> QED BY <1>1, <1>2

\* The fields that a tick leaves alone.
Ticks(x, y) ==
  /\ y.cur = x.cur /\ y.susp = x.susp /\ y.prio = x.prio /\ y.pended = x.pended
  /\ y.yield = x.yield /\ y.swi = x.swi

\* The tick counter goes on, and its overflows are counted.
Advances(x, y) ==
  /\ y.tick = IF x.tick = portMAX_DELAY THEN 0 ELSE x.tick + 1
  /\ y.over = IF x.tick = portMAX_DELAY THEN 1 - x.over ELSE x.over

\* Counting the tick: now some tasks may be due.
LEMMA TickCountedFields ==
  ASSUME NEW x, KernelOK(x), NEW y, y = TickCounted(x)
  PROVE  /\ y \in Kernels /\ Ticks(x, y) /\ y.ev = x.ev /\ y.pending = x.pending
         /\ \A t \in Tasks : y.st[t] = "ready" <=> x.st[t] = "ready"
         /\ TimesDue(y) /\ Advances(x, y)
<1>0. x \in Kernels /\ TimesOK(x) BY DEF KernelOK
<1>1. /\ x.st \in [Tasks -> States] /\ x.wake \in [Tasks -> TickType] /\ x.tick \in TickType /\ x.over \in Overflows
      /\ x.next \in TickType
  BY <1>0, KernelFields
<1>2. PICK n : n = (x.tick + 1) % (portMAX_DELAY + 1) OBVIOUS
<1>3. /\ n \in TickType /\ n = (IF x.tick = portMAX_DELAY THEN 0 ELSE x.tick + 1)
      /\ \A a \in TickType : a \in Nat /\ a <= portMAX_DELAY
  BY <1>1, <1>2, TickTypes DEF TickType
<1>4. PICK k1 : k1 = [x EXCEPT !.tick = n] OBVIOUS
<1>5. /\ k1 \in Kernels /\ Ticks(x, k1) /\ k1.ev = x.ev /\ k1.pending = x.pending /\ k1.st = x.st
      /\ k1.wake = x.wake /\ k1.next = x.next /\ k1.tick = n /\ k1.over = x.over
  BY <1>0, <1>3, <1>4 DEF Kernels, Ticks
<1>6. y = IF n = 0 THEN taskSWITCH_DELAYED_LISTS(k1) ELSE k1
  BY <1>0, <1>2, <1>4 DEF TickCounted, Kernels
<1>7. CASE n # 0
  <2>1. y = k1 BY <1>6, <1>7
  <2>2. n = x.tick + 1 BY <1>3, <1>7
  <2>3. TimesDue(y)
    <3>1. x.tick \in Nat /\ y.tick = x.tick + 1 /\ y.st = x.st /\ y.wake = x.wake /\ y.next = x.next
      BY <1>1, <1>3, <1>5, <2>1, <2>2
    <3>2. \A t \in Tasks : x.wake[t] \in Nat BY <1>1, <1>3
    <3>3. ASSUME NEW t \in Tasks, x.st[t] = "delayed" PROVE x.wake[t] >= x.tick + 1 /\ x.next <= x.wake[t]
      BY <1>0, <3>1, <3>2, <3>3 DEF TimesOK
    <3>4. ASSUME NEW t \in Tasks, x.st[t] = "overflow" PROVE x.wake[t] <= x.tick + 1
      BY <1>0, <3>1, <3>2, <3>4 DEF TimesOK
    <3> QED BY <3>1, <3>3, <3>4 DEF TimesDue
  <2>4. Advances(x, y) BY <1>1, <1>3, <1>5, <1>7, <2>1 DEF Advances
  <2> QED BY <1>5, <2>1, <2>3, <2>4
<1>8. CASE n = 0
  <2>1. x.tick = portMAX_DELAY
    <3>1. x.tick \in Nat BY ONLY <1>1, <1>3
    <3>2. x.tick + 1 # 0 BY ONLY <3>1
    <3> QED BY ONLY <1>3, <1>8, <3>2
  <2>2. \A t \in Tasks : x.st[t] # "delayed" BY <1>0, <1>1, <1>3, <2>1 DEF TimesOK
  <2>3. PICK s : s = [t \in Tasks |-> CASE x.st[t] = "overflow" -> "delayed"
                                       [] x.st[t] = "delayed" -> "overflow"
                                       [] OTHER -> x.st[t]] OBVIOUS
  <2>4. /\ s \in [Tasks -> States]
        /\ \A t \in Tasks : (s[t] = "ready" <=> x.st[t] = "ready") /\ s[t] # "overflow"
    BY <1>1, <2>2, <2>3 DEF States
  <2>5. PICK o : o = (x.over + 1) % Cardinality(Overflows) OBVIOUS
  <2>6. o \in Overflows /\ o = 1 - x.over
    <3>1. Cardinality(0 .. 1) = 2
      <4>1. PICK a \in Int, b \in Int : a = 0 /\ b = 1 OBVIOUS
      <4>2. Cardinality(a .. b) = IF a > b THEN 0 ELSE b - a + 1 BY FS_Interval
      <4> QED BY <4>1, <4>2
    <3> QED BY <1>1, <2>5, <3>1 DEF Overflows
  <2>7. PICK k2 : k2 = [k1 EXCEPT !.over = o, !.st = s] OBVIOUS
  <2>8. /\ k2 \in Kernels /\ Ticks(k1, k2) /\ k2.ev = k1.ev /\ k2.pending = k1.pending /\ k2.st = s
        /\ k2.wake = k1.wake /\ k2.tick = n /\ k2.over = o
    BY <1>5, <2>4, <2>6, <2>7 DEF Kernels, Ticks
  <2>9. y = prvResetNextTaskUnblockTime(k2)
    <3>1. k1.st = x.st /\ k1.over = x.over BY <1>5
    <3>2. taskSWITCH_DELAYED_LISTS(k1) = prvResetNextTaskUnblockTime([k1 EXCEPT !.over = o, !.st = s])
      BY <1>5, <2>3, <2>5, <3>1 DEF taskSWITCH_DELAYED_LISTS, Kernels
    <3> QED BY <1>6, <1>8, <2>7, <3>2
  <2>10. /\ y \in Kernels /\ OnlyNext(k2, y)
         /\ \A t \in Tasks : k2.st[t] = "delayed" => y.next <= k2.wake[t]
    BY <2>8, <2>9, ResetNext
  <2>11. TimesDue(y)
    <3>1. y.st = s /\ y.wake = x.wake /\ y.tick = 0 BY <1>5, <1>8, <2>8, <2>10 DEF OnlyNext
    <3>2. \A t \in Tasks : x.wake[t] >= 0
      <4>1. \A t \in Tasks : x.wake[t] \in TickType BY <1>1
      <4>2. \A a \in TickType : a >= 0 BY <1>3
      <4> QED BY <4>1, <4>2
    <3> QED BY <2>4, <2>8, <2>10, <3>1, <3>2, <1>5 DEF TimesDue
  <2>12. Ticks(x, y) /\ y.ev = x.ev /\ y.pending = x.pending /\ y.st = s
    BY <1>5, <2>8, <2>10 DEF OnlyNext, Ticks
  <2>13. Advances(x, y) BY <1>8, <2>1, <2>6, <2>8, <2>10 DEF Advances, OnlyNext
  <2> QED BY <2>4, <2>10, <2>11, <2>12, <2>13
<1> QED BY <1>7, <1>8

\* A list that is empty.
LEMMA EmptyList == ASSUME NEW s \in Seq(Tasks), ToSet(s) = {} PROVE s = <<>>
<1>1. s \in Seq(Tasks) /\ Len(s) \in Nat OBVIOUS
<1>2. \A i \in 1 .. Len(s) : FALSE BY <1>1, InList
<1>3. Len(s) = 0
  <2>1. Len(s) # 0 => 1 \in 1 .. Len(s) BY <1>1
  <2> QED BY <1>2, <2>1
<1> QED BY <1>1, <1>3

\* Tasks join no event list, and those that leave one are ready.
Shrinks(x, y) ==
  \A l \in Lists : /\ ToSet(y.ev[l]) \subseteq ToSet(x.ev[l])
                   /\ \A t \in ToSet(x.ev[l]) : t \notin ToSet(y.ev[l]) => y.st[t] = "ready"

\* Nobody in an event list changes places with another.
Thinned(x, y) == y.ev = x.ev \/ \E D : \A l \in Lists : y.ev[l] = Without(x.ev[l], D)

\* The tasks that are due become ready and leave every list.
LEMMA DueKeeps ==
  ASSUME NEW x \in Kernels, PrioOK(x), ListsOK(x), TimesDue(x), NEW y, y = DueUnblocked(x)
  PROVE  /\ KernelOK(y) /\ Ticks(x, y) /\ SameTime(x, y)
         /\ \A t \in Tasks : y.st[t] = "ready" <=> x.st[t] = "ready" \/ t \in DueTasks(x)
         /\ Shrinks(x, y) /\ Thinned(x, y)
<1>1. /\ x.st \in [Tasks -> States] /\ x.wake \in [Tasks -> TickType] /\ x.ev \in [Lists -> Seq(Tasks)]
      /\ x.pending \in Seq(Tasks) /\ x.tick \in TickType /\ x.next \in TickType
  BY KernelFields
<1>2. \A a \in TickType : a \in Nat BY TickTypes DEF TickType
<1>3. \A t \in Tasks : x.wake[t] \in Nat /\ x.tick \in Nat /\ x.next \in Nat BY <1>1, <1>2
<1>4. PICK due : due = DueTasks(x) OBVIOUS
<1>5. CASE x.tick < x.next
  <2>1. y = x /\ DueTasks(x) = {} BY <1>1, <1>2, <1>5 DEF DueUnblocked, DueTasks
  <2>2. TimesOK(x)
    <3>1. ASSUME NEW t \in Tasks, x.st[t] = "delayed" PROVE x.wake[t] > x.tick /\ x.next <= x.wake[t]
      BY <1>3, <1>5, <3>1 DEF TimesDue
    <3> QED BY <3>1 DEF TimesOK, TimesDue
  <2> QED BY <2>1, <2>2 DEF KernelOK, Ticks, SameTime, Shrinks, Thinned
<1>6. CASE ~(x.tick < x.next)
  <2>1. PICK s, w : /\ s = [t \in Tasks |-> IF t \in due THEN "ready" ELSE x.st[t]]
                    /\ w = [t \in Tasks |-> IF t \in due THEN 0 ELSE x.wake[t]] OBVIOUS
  <2>2. PICK e, p : e = [l \in Lists |-> Without(x.ev[l], due)] /\ p = Without(x.pending, due) OBVIOUS
  <2>3. /\ \A l \in Lists : List(e[l]) /\ ToSet(e[l]) = ToSet(x.ev[l]) \ due
        /\ List(p) /\ ToSet(p) = ToSet(x.pending) \ due
    BY <2>2, WithoutLeaves DEF ListsOK
  <2>4. /\ s \in [Tasks -> States] /\ w \in [Tasks -> TickType]
        /\ e \in [Lists -> Seq(Tasks)] /\ p \in Seq(Tasks)
    <3>1. s \in [Tasks -> States] /\ w \in [Tasks -> TickType] BY <1>1, <2>1, TickTypes DEF States
    <3>2. e \in [Lists -> Seq(Tasks)] /\ p \in Seq(Tasks) BY <2>2, <2>3 DEF List
    <3> QED BY <3>1, <3>2
  <2>5. PICK z : z = [x EXCEPT !.st = s, !.wake = w, !.ev = e, !.pending = p] OBVIOUS
  <2>6. /\ z \in Kernels /\ Ticks(x, z) /\ z.st = s /\ z.wake = w /\ z.ev = e /\ z.pending = p
        /\ z.tick = x.tick /\ SameTime(x, z)
    BY <2>4, <2>5 DEF Kernels, Ticks, SameTime
  <2>7. y = prvResetNextTaskUnblockTime(z) BY <1>4, <1>6, <2>1, <2>2, <2>5 DEF DueUnblocked, Kernels
  <2>8. /\ y \in Kernels /\ OnlyNext(z, y) /\ \A t \in Tasks : z.st[t] = "delayed" => y.next <= z.wake[t]
    BY <2>6, <2>7, ResetNext
  <2>9. /\ y.st = s /\ y.wake = w /\ y.ev = e /\ y.pending = p /\ y.tick = x.tick /\ Ticks(x, y)
        /\ SameTime(x, y)
    BY <2>6, <2>8 DEF OnlyNext, Ticks, SameTime
  <2>10. \A t \in Tasks : /\ t \in due => s[t] = "ready"
                          /\ t \notin due => s[t] = x.st[t] /\ w[t] = x.wake[t]
    BY <2>1
  <2>11. TimesOK(y)
    <3>1. ASSUME NEW t \in Tasks, y.st[t] = "delayed" PROVE y.wake[t] > y.tick /\ y.next <= y.wake[t]
      <4>1. t \notin due /\ x.st[t] = "delayed" /\ y.wake[t] = x.wake[t] BY <2>9, <2>10, <3>1
      <4>2. ~(x.wake[t] <= x.tick) BY <1>3, <1>4, <1>6, <4>1 DEF DueTasks, On
      <4>3. y.next <= y.wake[t] BY <2>6, <2>8, <2>9, <3>1
      <4> QED BY <1>3, <2>9, <4>1, <4>2, <4>3
    <3>2. ASSUME NEW t \in Tasks, y.st[t] = "overflow" PROVE y.wake[t] <= y.tick
      <4>1. t \notin due /\ x.st[t] = "overflow" /\ y.wake[t] = x.wake[t] BY <2>9, <2>10, <3>2
      <4> QED BY <2>9, <4>1 DEF TimesDue
    <3> QED BY <3>1, <3>2 DEF TimesOK
  <2>12. ListsOK(y)
    <3>1. ASSUME NEW l \in Lists, NEW t \in ToSet(y.ev[l]) PROVE y.st[t] # "ready"
      <4>1. t \in ToSet(x.ev[l]) /\ t \notin due BY <2>3, <2>9
      <4>2. t \in Tasks BY <1>1, <4>1, InList
      <4> QED BY <2>9, <2>10, <4>1, <4>2 DEF ListsOK
    <3>2. ASSUME NEW t \in ToSet(y.pending) PROVE y.st[t] # "ready"
      <4>1. t \in ToSet(x.pending) /\ t \notin due BY <2>3, <2>9
      <4>2. t \in Tasks BY <1>1, <4>1, InList
      <4> QED BY <2>9, <2>10, <4>1, <4>2 DEF ListsOK
    <3>3. \A l \in Lists : List(y.ev[l]) /\ ToSet(y.ev[l]) \subseteq ToSet(x.ev[l]) BY <2>3, <2>9
    <3>4. List(y.pending) /\ ToSet(y.pending) \subseteq ToSet(x.pending) BY <2>3, <2>9
    <3>5. y.susp = 0 => y.pending = <<>>
      <4>1. x.pending = <<>> => ToSet(x.pending) = {} BY DEF ToSet
      <4>2. y.susp = 0 => ToSet(y.pending) = {} BY <2>9, <3>4, <4>1 DEF ListsOK, Ticks
      <4> QED BY <3>4, <4>2, EmptyList DEF List
    <3> QED BY <3>1, <3>2, <3>3, <3>4, <3>5 DEF ListsOK
  <2>13. PrioOK(y) BY <2>9 DEF PrioOK, Ticks
  <2>14. \A t \in Tasks : y.st[t] = "ready" <=> x.st[t] = "ready" \/ t \in DueTasks(x)
    BY <1>4, <2>9, <2>10
  <2>15. Shrinks(x, y)
    <3>1. ASSUME NEW l \in Lists, NEW t \in ToSet(x.ev[l]), t \notin ToSet(y.ev[l]) PROVE y.st[t] = "ready"
      <4>1. t \in due BY <2>3, <2>9, <3>1
      <4>2. t \in Tasks BY <1>1, InList
      <4> QED BY <2>9, <2>10, <4>1, <4>2
    <3> QED BY <2>3, <2>9, <3>1 DEF Shrinks
  <2>16. Thinned(x, y)
    <3>1. \A l \in Lists : y.ev[l] = Without(x.ev[l], due) BY <2>2, <2>9
    <3> QED BY <3>1 DEF Thinned
  <2> QED BY <2>8, <2>9, <2>11, <2>12, <2>13, <2>14, <2>15, <2>16 DEF KernelOK
<1> QED BY <1>5, <1>6

\* One tick, and what it asks for.
Ticked(x, r) ==
  /\ KernelOK(r.kernel) /\ Ticks(x, r.kernel) /\ Advances(x, r.kernel) /\ r.switch \in BOOLEAN
  /\ \A u \in Tasks : x.st[u] = "ready" => r.kernel.st[u] = "ready"
  /\ NoneAbove(x) /\ ~r.switch => NoneAbove(r.kernel)
  /\ Shrinks(x, r.kernel) /\ Thinned(x, r.kernel)

\* xTaskIncrementTick keeps the kernel in order and says whether a switch is due.
LEMMA IncrementTicks ==
  ASSUME NEW x, KernelOK(x), NEW r, r = xTaskIncrementTick(x)
  PROVE  Ticked(x, r)
<1>1. PICK a, b : a = TickCounted(x) /\ b = DueUnblocked(a) OBVIOUS
<1>2. /\ a \in Kernels /\ Ticks(x, a) /\ a.ev = x.ev /\ a.pending = x.pending
      /\ \A t \in Tasks : a.st[t] = "ready" <=> x.st[t] = "ready"
      /\ TimesDue(a) /\ Advances(x, a)
  BY <1>1, TickCountedFields
<1>3. x \in Kernels /\ PrioOK(x) /\ ListsOK(x) BY DEF KernelOK
<1>4. PrioOK(a) BY <1>2, <1>3 DEF PrioOK, Ticks
<1>5. ListsOK(a)
  <2>1. \A l \in Lists : ToSet(x.ev[l]) \subseteq Tasks BY <1>3, KernelFields, InList
  <2>2. ToSet(x.pending) \subseteq Tasks BY <1>3, KernelFields, InList
  <2> QED BY <1>2, <1>3, <2>1, <2>2 DEF ListsOK, Ticks
<1>6. /\ KernelOK(b) /\ Ticks(a, b) /\ SameTime(a, b)
      /\ \A t \in Tasks : b.st[t] = "ready" <=> a.st[t] = "ready" \/ t \in DueTasks(a)
      /\ Shrinks(a, b) /\ Thinned(a, b)
  BY <1>1, <1>2, <1>4, <1>5, DueKeeps
<1>7. Ticks(x, b) /\ Advances(x, b) BY <1>2, <1>6 DEF Ticks, SameTime, Advances
<1>8. PICK n : n = Cardinality({t \in On(b, "ready") : b.prio[t] = PrioOf(x, x.cur)}) OBVIOUS
<1>9. PICK c \in BOOLEAN : c = ((\E t \in DueTasks(a) : Outranks(x, t)) \/ n > 1 \/ b.yield)
  OBVIOUS
<1>10. r = [kernel |-> b, switch |-> c] BY <1>1, <1>8, <1>9 DEF xTaskIncrementTick
<1>11. r.kernel = b /\ r.switch = c BY <1>10
<1>12. NoneAbove(x) /\ ~r.switch => NoneAbove(b)
  <2> SUFFICES ASSUME NoneAbove(x), ~r.switch, NEW u \in Tasks, b.st[u] = "ready"
               PROVE  b.prio[u] <= PrioOf(b, b.cur)
    BY DEF NoneAbove
  <2>1. PrioOf(b, b.cur) = PrioOf(x, x.cur) /\ b.prio = x.prio BY <1>7 DEF PrioOf, Ticks
  <2>2. PrioOf(x, x.cur) \in Nat /\ x.prio[u] \in Nat BY <1>3, KernelFields DEF PrioOf
  <2>3. CASE x.st[u] = "ready" BY <2>1, <2>3 DEF NoneAbove
  <2>4. CASE u \in DueTasks(a)
    <3>1. ~Outranks(x, u) BY <1>9, <1>11, <2>4, Zenon
    <3> QED BY <2>1, <2>2, <3>1 DEF Outranks
  <2> QED BY <1>2, <1>6, <2>3, <2>4
<1>13. Shrinks(x, b) /\ Thinned(x, b) BY <1>2, <1>6 DEF Shrinks, Thinned
<1> QED BY <1>2, <1>6, <1>7, <1>11, <1>12, <1>13 DEF Ticked

\* A tick interrupt.
LEMMA TickServes ==
  ASSUME NEW x, KernelOK(x), NEW y, y = TickInterrupt(x)
  PROVE  /\ Served(x, y) /\ (x.susp # 0 => y.ev = x.ev)
         /\ x.susp # 0 => y.tick = x.tick /\ y.over = x.over /\ y.pended = x.pended + 1
         /\ x.susp = 0 => Advances(x, y) /\ y.pended = x.pended
         /\ Shrinks(x, y) /\ Thinned(x, y) /\ (x.susp # 0 => y.pending = x.pending)
<1>0. x \in Kernels BY DEF KernelOK
<1>1. CASE x.susp # 0
  <2>1. PICK n : n = x.pended + 1 OBVIOUS
  <2>2. n \in Nat BY <1>0, <2>1, KernelFields
  <2>3. y = [x EXCEPT !.pended = n] BY <1>1, <2>1 DEF TickInterrupt
  <2>4. /\ y \in Kernels /\ y.st = x.st /\ y.wake = x.wake /\ y.ev = x.ev /\ y.pending = x.pending
        /\ y.prio = x.prio /\ y.cur = x.cur /\ y.susp = x.susp /\ y.tick = x.tick /\ y.next = x.next
        /\ y.swi = x.swi /\ y.over = x.over /\ y.pended = x.pended + 1
    BY <1>0, <2>1, <2>2, <2>3 DEF Kernels
  <2>5. KernelOK(y) BY <2>4 DEF KernelOK, PrioOK, ListsOK, TimesOK
  <2>6. NoneAbove(x) => NoneAbove(y) BY <2>4 DEF NoneAbove, PrioOf
  <2> QED BY <1>1, <2>4, <2>5, <2>6 DEF Served, Wakes, Shrinks, Thinned
<1>2. CASE x.susp = 0
  <2>1. PICK r : r = xTaskIncrementTick(x) OBVIOUS
  <2>2. Ticked(x, r) BY <2>1, IncrementTicks
  <2>3. y = portYIELD_if(r.kernel, r.switch) BY <1>2, <2>1 DEF TickInterrupt
  <2>4. CASE r.switch
    <3>1. y = portYIELD(r.kernel) BY <2>3, <2>4 DEF portYIELD_if
    <3>2. KernelOK(r.kernel) BY <2>2 DEF Ticked
    <3>3. KernelOK(y) /\ OnlySwi(r.kernel, y) /\ y.swi BY <3>1, <3>2, YieldKeeps
    <3>4. Advances(x, y) /\ y.pended = x.pended BY <2>2, <3>3 DEF Ticked, Ticks, OnlySwi, Advances
    <3>5. Shrinks(x, y) /\ Thinned(x, y) BY <2>2, <3>3 DEF Ticked, OnlySwi, Shrinks, Thinned
    <3> QED BY <1>2, <2>2, <3>3, <3>4, <3>5 DEF Ticked, Ticks, Served, OnlySwi, Wakes
  <2>5. CASE ~r.switch
    <3>1. y = r.kernel BY <2>3, <2>5 DEF portYIELD_if
    <3> QED BY <1>2, <2>2, <2>5, <3>1 DEF Ticked, Ticks, Served, Wakes
  <2> QED BY <2>4, <2>5
<1> QED BY <1>1, <1>2

\* A step after which a switch is pending if one is called for.
Ran(x, y) ==
  /\ KernelOK(y) /\ Wakes(x, y) /\ y.swi = x.swi /\ (x.yield => y.yield)
  /\ NoneAbove(x) /\ ~y.yield => NoneAbove(y)
  /\ Shrinks(x, y)

\* One stretch of kernel work after another is one.
LEMMA RanOn == ASSUME NEW x, KernelOK(x), NEW y, NEW z, Ran(x, y), Ran(y, z) PROVE Ran(x, z)
<1>1. \A l \in Lists : ToSet(x.ev[l]) \subseteq Tasks BY KernelFields, InList DEF KernelOK
<1>2. Shrinks(x, z)
  <2>1. ASSUME NEW l \in Lists, NEW t \in ToSet(x.ev[l]), t \notin ToSet(z.ev[l]) PROVE z.st[t] = "ready"
    <3>1. t \in Tasks BY <1>1
    <3>2. CASE t \in ToSet(y.ev[l]) BY <2>1, <3>2 DEF Ran, Shrinks
    <3>3. CASE t \notin ToSet(y.ev[l])
      <4>1. y.st[t] = "ready" BY <3>3 DEF Ran, Shrinks
      <4> QED BY <3>1, <4>1 DEF Ran, Wakes
    <3> QED BY <3>2, <3>3
  <2>2. \A l \in Lists : ToSet(z.ev[l]) \subseteq ToSet(x.ev[l]) BY DEF Ran, Shrinks
  <2> QED BY <2>1, <2>2 DEF Shrinks
<1> QED BY <1>2 DEF Ran, Wakes

\* A tick that was pended.
LEMMA PendedTickRan ==
  ASSUME NEW x, KernelOK(x), NEW y, y = PendedTick(x) PROVE Ran(x, y) /\ Advances(x, y)
<1>1. PICK r : r = xTaskIncrementTick(x) OBVIOUS
<1>2. Ticked(x, r) BY <1>1, IncrementTicks
<1>3. PICK z : z = r.kernel OBVIOUS
<1>4. KernelOK(z) /\ z \in Kernels BY <1>2, <1>3 DEF Ticked, KernelOK
<1>5. PICK b \in BOOLEAN : b = (z.yield \/ r.switch) OBVIOUS
<1>6. y = [z EXCEPT !.yield = b] BY <1>1, <1>3, <1>5 DEF PendedTick
<1>7. /\ y \in Kernels /\ y.st = z.st /\ y.wake = z.wake /\ y.ev = z.ev /\ y.pending = z.pending
      /\ y.prio = z.prio /\ y.cur = z.cur /\ y.susp = z.susp /\ y.tick = z.tick /\ y.next = z.next
      /\ y.swi = z.swi /\ y.yield = b /\ y.over = z.over
  BY <1>4, <1>6 DEF Kernels
<1>8. KernelOK(y) BY <1>4, <1>7 DEF KernelOK, PrioOK, ListsOK, TimesOK
<1>9. NoneAbove(z) => NoneAbove(y) BY <1>7 DEF NoneAbove, PrioOf
<1>10. Shrinks(x, y) BY <1>2, <1>3, <1>7 DEF Ticked, Shrinks
<1> QED BY <1>2, <1>3, <1>5, <1>7, <1>8, <1>9, <1>10 DEF Ran, Ticked, Ticks, Wakes, Advances

\* All of them.
TicksOn(x, f, n) == f = [i \in 0 .. n |-> IF i = 0 THEN x ELSE PendedTick(f[i - 1])]

\* The recursion of PendedTicks goes one step further.
LEMMA TicksOnExtends ==
  ASSUME NEW x, NEW n \in Nat, NEW f, TicksOn(x, f, n)
  PROVE  \E g : TicksOn(x, g, n + 1)
<1>1. \A i \in 0 .. n : f[i] = IF i = 0 THEN x ELSE PendedTick(f[i - 1]) BY Zenon DEF TicksOn
<1>2. PICK v : v = PendedTick(f[n]) OBVIOUS
<1>3. PICK g : g = [i \in 0 .. n + 1 |-> IF i = n + 1 THEN v ELSE f[i]] OBVIOUS
<1>4. ASSUME NEW i \in 0 .. n + 1
      PROVE  g[i] = IF i = 0 THEN x ELSE PendedTick(g[i - 1])
  <2>1. CASE i = n + 1
    <3>1. i - 1 = n /\ n \in 0 .. n + 1 /\ n # n + 1 /\ i # 0 BY <2>1
    <3>2. g[i] = v /\ g[n] = f[n] BY <1>3, <2>1, <3>1
    <3> QED BY <1>2, <2>1, <3>1, <3>2
  <2>2. CASE i # n + 1
    <3>1. i \in 0 .. n /\ (i # 0 => i - 1 \in 0 .. n + 1 /\ i - 1 # n + 1) BY <2>2
    <3>2. g[i] = f[i] /\ (i # 0 => g[i - 1] = f[i - 1]) BY <1>3, <2>2, <3>1
    <3> QED BY <1>1, <3>1, <3>2
  <2> QED BY <2>1, <2>2
<1>5. g = [i \in 0 .. n + 1 |-> g[i]] BY <1>3
<1>6. TicksOn(x, g, n + 1) BY <1>4, <1>5, Zenon DEF TicksOn
<1> QED BY <1>6

\* PendedTicks has a value for every number of ticks.
LEMMA TicksOnExists == ASSUME NEW x, NEW n \in Nat PROVE \E f : TicksOn(x, f, n)
<1> DEFINE T == {m \in Nat : \E f : TicksOn(x, f, m)}
<1>1. 0 \in T
  <2>1. PICK f : f = [i \in 0 .. 0 |-> x] OBVIOUS
  <2>2. \A i \in 0 .. 0 : f[i] = IF i = 0 THEN x ELSE PendedTick(f[i - 1]) BY <2>1
  <2>3. f = [i \in 0 .. 0 |-> f[i]] BY <2>1
  <2>4. TicksOn(x, f, 0) BY <2>2, <2>3, Zenon DEF TicksOn
  <2> QED BY <2>4
<1>2. \A m \in Nat : m \in T => m + 1 \in T BY TicksOnExtends
<1>3. Nat \subseteq T
  <2> HIDE DEF T
  <2> QED BY <1>1, <1>2, Reaches
<1> QED BY <1>3

\* The loop of xTaskResumeAll over the pended ticks keeps the kernel in order.
LEMMA PendedTicksRan ==
  ASSUME NEW x, KernelOK(x), NEW n \in Nat, NEW y, y = PendedTicks(x, n) PROVE Ran(x, y)
<1>1. PICK f : f = CHOOSE g : TicksOn(x, g, n) OBVIOUS
<1>2. TicksOn(x, f, n) BY <1>1, TicksOnExists
<1>3. y = f[n] BY <1>1 DEF PendedTicks, TicksOn
<1>4. \A i \in 0 .. n : f[i] = IF i = 0 THEN x ELSE PendedTick(f[i - 1]) BY <1>2, Zenon DEF TicksOn
<1> DEFINE T == {m \in Nat : m <= n => Ran(x, f[m])}
<1>5. 0 \in T
  <2>1. f[0] = x BY <1>4
  <2>2. Ran(x, x) BY DEF Ran, Wakes, Shrinks
  <2> QED BY <2>1, <2>2
<1>6. ASSUME NEW m \in Nat, m \in T PROVE m + 1 \in T
  <2> SUFFICES ASSUME m + 1 <= n PROVE Ran(x, f[m + 1]) OBVIOUS
  <2>1. m + 1 \in 0 .. n /\ (m + 1) - 1 = m /\ m + 1 # 0 /\ m <= n OBVIOUS
  <2>2. Ran(x, f[m]) BY <1>6, <2>1
  <2>3. f[m + 1] = PendedTick(f[m]) BY <1>4, <2>1
  <2>4. KernelOK(f[m]) BY <2>2 DEF Ran
  <2>5. Ran(f[m], f[m + 1]) BY <2>3, <2>4, PendedTickRan
  <2> QED BY <2>2, <2>5, RanOn
<1>7. Nat \subseteq T
  <2> HIDE DEF T
  <2> QED BY <1>5, <1>6, Reaches
<1>8. n \in T /\ n <= n BY <1>7
<1> QED BY <1>3, <1>8

\* The scheduler goes on: it is no longer suspended.
Released(x, y) ==
  /\ KernelOK(y) /\ SameTime(x, y)
  /\ y.cur = x.cur /\ y.prio = x.prio /\ y.susp = 0 /\ y.swi = x.swi
  /\ \A u \in Tasks : x.st[u] = "ready" \/ u \in ToSet(x.pending) => y.st[u] = "ready"
  /\ NoneAbove(x) /\ ~y.yield => NoneAbove(y)
  /\ y.ev = x.ev

\* The tasks that were woken meanwhile.
LEMMA PendingReleased ==
  ASSUME NEW x, WokenOK(x), x.susp = 1, NEW y, y = PendingReadied([x EXCEPT !.susp = @ - 1])
  PROVE  Released(x, y)
<1>0. x \in Kernels /\ PrioOK(x) /\ EventsOK(x) /\ TimesOK(x) BY DEF WokenOK
<1>1. /\ x.st \in [Tasks -> States] /\ x.wake \in [Tasks -> TickType] /\ x.ev \in [Lists -> Seq(Tasks)]
      /\ x.pending \in Seq(Tasks) /\ x.yield \in BOOLEAN
  BY <1>0, KernelFields
<1>2. PICK k1 : k1 = [x EXCEPT !.susp = 0] OBVIOUS
<1>3. /\ k1 \in Kernels /\ k1.st = x.st /\ k1.wake = x.wake /\ k1.ev = x.ev /\ k1.pending = x.pending
      /\ k1.prio = x.prio /\ k1.cur = x.cur /\ k1.susp = 0 /\ k1.tick = x.tick /\ k1.next = x.next
      /\ k1.swi = x.swi /\ k1.yield = x.yield /\ SameTime(x, k1)
  BY <1>0, <1>2 DEF Kernels, SameTime
<1>4. [x EXCEPT !.susp = @ - 1] = k1 BY <1>2
<1>5. PICK woken : woken = ToSet(x.pending) OBVIOUS
<1>6. woken \subseteq Tasks BY <1>1, <1>5, InList
<1>7. CASE woken = {}
  <2>1. y = k1 BY <1>3, <1>4, <1>5, <1>7 DEF PendingReadied
  <2>2. y.pending = <<>> BY <1>1, <1>3, <1>5, <1>7, <2>1, EmptyList
  <2>3. ListsOK(y)
    <3>1. List(<<>>) /\ ToSet(<<>>) = {} BY DEF List, ToSet
    <3> QED BY <1>0, <1>3, <2>1, <2>2, <3>1 DEF EventsOK, ListsOK
  <2>4. KernelOK(y) BY <1>0, <1>3, <2>1, <2>3 DEF KernelOK, PrioOK, TimesOK
  <2>5. NoneAbove(x) => NoneAbove(y) BY <1>3, <2>1 DEF NoneAbove, PrioOf
  <2> QED BY <1>3, <1>5, <1>7, <2>1, <2>4, <2>5 DEF Released
<1>8. CASE woken # {}
  <2>1. PICK s, w : /\ s = [t \in Tasks |-> IF t \in woken THEN "ready" ELSE x.st[t]]
                    /\ w = [t \in Tasks |-> IF t \in woken THEN 0 ELSE x.wake[t]] OBVIOUS
  <2>2. s \in [Tasks -> States] /\ w \in [Tasks -> TickType] BY <1>1, <2>1, TickTypes DEF States
  <2>3. PICK b \in BOOLEAN : b = (x.yield \/ \E t \in woken : Outranks(k1, t)) OBVIOUS
  <2>4. <<>> \in Seq(Tasks) OBVIOUS
  <2>5. PICK p \in Seq(Tasks) : p = <<>> BY <2>4, Zenon
  <2>6. PICK z : z = [k1 EXCEPT !.st = s, !.wake = w, !.pending = p, !.yield = b] OBVIOUS
  <2>7. /\ z \in Kernels /\ z.st = s /\ z.wake = w /\ z.ev = x.ev /\ z.pending = <<>>
        /\ z.prio = x.prio /\ z.cur = x.cur /\ z.susp = 0 /\ z.tick = x.tick
        /\ z.swi = x.swi /\ z.yield = b /\ SameTime(x, z)
    BY <1>3, <2>2, <2>3, <2>5, <2>6 DEF Kernels, SameTime
  <2>8. y = prvResetNextTaskUnblockTime(z)
    <3>1. ToSet(k1.pending) = woken BY <1>3, <1>5
    <3>2. PendingReadied(k1) = prvResetNextTaskUnblockTime([k1 EXCEPT !.st = s, !.wake = w, !.pending = p, !.yield = b])
      <4>1. /\ s = [t \in Tasks |-> IF t \in ToSet(k1.pending) THEN "ready" ELSE k1.st[t]]
            /\ w = [t \in Tasks |-> IF t \in ToSet(k1.pending) THEN 0 ELSE k1.wake[t]]
            /\ b = (k1.yield \/ \E t \in ToSet(k1.pending) : Outranks(k1, t)) /\ ToSet(k1.pending) # {}
        BY <1>3, <1>8, <2>1, <2>3, <3>1, Zenon
      <4> QED BY <2>5, <4>1, Zenon DEF PendingReadied
    <3> QED BY <1>4, <2>6, <3>2
  <2>9. /\ y \in Kernels /\ OnlyNext(z, y) /\ \A t \in Tasks : z.st[t] = "delayed" => y.next <= z.wake[t]
    BY <2>7, <2>8, ResetNext
  <2>10. /\ y.st = s /\ y.wake = w /\ y.ev = x.ev /\ y.pending = <<>> /\ y.prio = x.prio /\ y.cur = x.cur
         /\ y.susp = 0 /\ y.tick = x.tick /\ y.swi = x.swi /\ y.yield = b /\ SameTime(x, y)
    BY <2>7, <2>9 DEF OnlyNext, SameTime
  <2>11. \A t \in Tasks : /\ t \in woken => s[t] = "ready"
                          /\ t \notin woken => s[t] = x.st[t] /\ w[t] = x.wake[t]
    BY <2>1
  <2>12. TimesOK(y)
    <3>1. ASSUME NEW t \in Tasks, y.st[t] # "ready" PROVE y.st[t] = x.st[t] /\ y.wake[t] = x.wake[t]
      BY <2>10, <2>11, <3>1
    <3>2. \A t \in Tasks : y.st[t] = "delayed" => y.next <= y.wake[t] BY <2>7, <2>9, <2>10
    <3> QED BY <1>0, <2>10, <3>1, <3>2 DEF TimesOK
  <2>13. ListsOK(y)
    <3>1. ASSUME NEW l \in Lists, NEW t \in ToSet(x.ev[l]) PROVE y.st[t] # "ready"
      <4>1. t \in Tasks /\ t \notin woken BY <1>0, <1>1, <1>5, InList DEF EventsOK
      <4> QED BY <1>0, <2>10, <2>11, <4>1 DEF EventsOK
    <3>2. List(<<>>) /\ ToSet(<<>>) = {} BY DEF List, ToSet
    <3> QED BY <1>0, <2>10, <3>1, <3>2 DEF EventsOK, ListsOK
  <2>14. NoneAbove(x) /\ ~y.yield => NoneAbove(y)
    <3> SUFFICES ASSUME NoneAbove(x), ~y.yield, NEW u \in Tasks, y.st[u] = "ready"
                 PROVE  y.prio[u] <= PrioOf(y, y.cur)
      BY DEF NoneAbove
    <3>1. /\ PrioOf(y, y.cur) = PrioOf(x, x.cur) /\ PrioOf(k1, k1.cur) = PrioOf(x, x.cur)
          /\ y.prio = x.prio /\ k1.prio = x.prio
      BY <1>3, <2>10 DEF PrioOf
    <3>2. PrioOf(x, x.cur) \in Nat /\ x.prio[u] \in Nat BY <1>0, KernelFields DEF PrioOf
    <3>3. CASE x.st[u] = "ready" BY <3>1, <3>3 DEF NoneAbove
    <3>4. CASE u \in woken
      <4>1. ~Outranks(k1, u) BY <2>3, <2>10, <3>4, Zenon
      <4> QED BY <3>1, <3>2, <4>1 DEF Outranks
    <3> QED BY <2>10, <2>11, <3>3, <3>4
  <2>15. \A u \in Tasks : x.st[u] = "ready" \/ u \in ToSet(x.pending) => y.st[u] = "ready"
    BY <1>5, <2>10, <2>11
  <2>16. PrioOK(y) BY <1>0, <2>10 DEF PrioOK
  <2> QED BY <2>9, <2>10, <2>12, <2>13, <2>14, <2>15, <2>16 DEF Released, KernelOK
<1> QED BY <1>7, <1>8

\* xTaskResumeAll.
LEMMA ResumeServes ==
  ASSUME NEW x, WokenOK(x), x.susp = 1, NEW y, y = xTaskResumeAll(x)
  PROVE  /\ KernelOK(y) /\ y.cur = x.cur /\ y.prio = x.prio /\ y.susp = 0
         /\ \A u \in Tasks : x.st[u] = "ready" \/ u \in ToSet(x.pending) => y.st[u] = "ready"
         /\ y.swi = (x.swi \/ y.yield) /\ y.pended = 0
         /\ NoneAbove(x) /\ ~y.swi => NoneAbove(y)
         /\ Shrinks(x, y)
<1>0. x \in Kernels BY DEF WokenOK
<1>1. PICK a : a = PendingReadied([x EXCEPT !.susp = @ - 1]) OBVIOUS
<1>2. Released(x, a) BY <1>1, PendingReleased
<1>3. PICK b : b = PendedTicks(a, x.pended) OBVIOUS
<1>4. Ran(a, b)
  <2>1. x.pended \in Nat /\ KernelOK(a) BY <1>0, <1>2, KernelFields DEF Released
  <2> QED BY <1>3, <2>1, PendedTicksRan
<1>5. PICK c : c = [b EXCEPT !.pended = 0] OBVIOUS
<1>6. KernelOK(b) /\ b \in Kernels BY <1>4 DEF Ran, KernelOK
<1>7. /\ c \in Kernels /\ c.st = b.st /\ c.wake = b.wake /\ c.ev = b.ev /\ c.pending = b.pending
      /\ c.prio = b.prio /\ c.cur = b.cur /\ c.susp = b.susp /\ c.tick = b.tick /\ c.next = b.next
      /\ c.swi = b.swi /\ c.yield = b.yield /\ c.pended = 0
  BY <1>5, <1>6 DEF Kernels
<1>8. KernelOK(c) BY <1>6, <1>7 DEF KernelOK, PrioOK, ListsOK, TimesOK
<1>9. NoneAbove(b) => NoneAbove(c) BY <1>7 DEF NoneAbove, PrioOf
<1>10. y = portYIELD_if(c, c.yield)
  <2>1. [x EXCEPT !.susp = @ - 1].susp = 0 BY <1>0 DEF Kernels
  <2> QED BY <1>1, <1>3, <1>5, <2>1 DEF xTaskResumeAll
<1>11. /\ c.cur = x.cur /\ c.prio = x.prio /\ c.susp = 0 /\ c.swi = x.swi
       /\ \A u \in Tasks : x.st[u] = "ready" \/ u \in ToSet(x.pending) => c.st[u] = "ready"
       /\ NoneAbove(x) /\ ~c.yield => NoneAbove(c)
       /\ Shrinks(x, c)
  BY <1>2, <1>4, <1>7, <1>9 DEF Released, Ran, Wakes, Shrinks
<1>12. x.swi \in BOOLEAN /\ c.yield \in BOOLEAN BY <1>0, <1>7, KernelFields
<1>13. CASE c.yield
  <2>1. y = portYIELD(c) BY <1>10, <1>13 DEF portYIELD_if
  <2>2. KernelOK(y) /\ OnlySwi(c, y) /\ y.swi /\ y.swi \in BOOLEAN
    <3>1. KernelOK(y) /\ OnlySwi(c, y) /\ y.swi BY <1>8, <2>1, YieldKeeps
    <3>2. y.swi \in BOOLEAN BY <3>1, KernelFields DEF KernelOK
    <3> QED BY <3>1, <3>2
  <2>3. Shrinks(x, y) BY <1>11, <2>2 DEF OnlySwi, Shrinks
  <2> QED BY <1>7, <1>11, <1>12, <1>13, <2>2, <2>3 DEF OnlySwi
<1>14. CASE ~c.yield
  <2>1. y = c BY <1>10, <1>14 DEF portYIELD_if
  <2> QED BY <1>7, <1>8, <1>11, <1>12, <1>14, <2>1
<1> QED BY <1>13, <1>14

\* The place that vListInsert finds.
LEMMA InsertedList ==
  ASSUME NEW x, NEW s, List(s), NEW t \in Tasks \ ToSet(s), NEW r, r = Inserted(x, s, t)
  PROVE  List(r) /\ ToSet(r) = ToSet(s) \cup {t}
<1>1. s \in Seq(Tasks) /\ Len(s) \in Nat /\ DOMAIN s = 1 .. Len(s) BY DEF List
<1>2. PICK S : S = {i \in DOMAIN s : x.prio[s[i]] < x.prio[t]} \cup {Len(s) + 1} OBVIOUS
<1>3. S \subseteq 1 .. Len(s) + 1 /\ S # {} /\ S \subseteq Nat BY <1>1, <1>2
<1>4. Min(S) \in 1 .. Len(s) + 1 BY <1>3, MinLeast
<1>5. PICK n : n = Min(S) - 1 OBVIOUS
<1>6. n \in 0 .. Len(s) BY <1>1, <1>4, <1>5
<1>7. r = SubSeq(s, 1, n) \o <<t>> \o SubSeq(s, n + 1, Len(s)) BY <1>2, <1>5, Zenon DEF Inserted
<1> QED BY <1>6, <1>7, InsertedJoins

\* The current task leaves the ready list for an event list and a list of waiting tasks.
Blocked(x, y) ==
  /\ KernelOK(y) /\ SameTime(x, y)
  /\ y.cur = x.cur /\ y.susp = x.susp /\ y.prio = x.prio /\ y.swi = x.swi
  /\ \A u \in Tasks : y.st[u] = "ready" => x.st[u] = "ready"

\* A running task that leaves the ready list for a delayed list keeps the kernel in order.
LEMMA BlockedKeeps ==
  ASSUME NEW x, KernelOK(x), x.cur \in Tasks, x.st[x.cur] = "ready", NEW l \in Lists,
         NEW y \in Kernels, y.cur = x.cur, y.susp = x.susp, y.prio = x.prio, y.swi = x.swi,
         y.pending = x.pending, SameTime(x, y), y.next <= x.next,
         y.ev[l] = Inserted(x, x.ev[l], x.cur), \A m \in Lists \ {l} : y.ev[m] = x.ev[m],
         \A u \in Tasks \ {x.cur} : y.st[u] = x.st[u] /\ y.wake[u] = x.wake[u],
         y.st[x.cur] # "ready",
         y.st[x.cur] = "delayed" => y.wake[x.cur] > x.tick /\ y.next <= y.wake[x.cur],
         y.st[x.cur] = "overflow" => y.wake[x.cur] <= x.tick
  PROVE  Blocked(x, y)
<1>0. x \in Kernels /\ PrioOK(x) /\ ListsOK(x) /\ TimesOK(x) BY DEF KernelOK
<1>1. PICK t \in Tasks : t = x.cur /\ y.tick = x.tick BY DEF SameTime
<1>2. t \notin ToSet(x.pending) /\ \A m \in Lists : t \notin ToSet(x.ev[m])
  BY <1>0, <1>1 DEF ListsOK
<1>3. List(y.ev[l]) /\ ToSet(y.ev[l]) = ToSet(x.ev[l]) \cup {t}
  BY <1>0, <1>1, <1>2, InsertedList DEF ListsOK
<1>4. ASSUME NEW m \in Lists
      PROVE  List(y.ev[m]) /\ \A u \in ToSet(y.ev[m]) : u \in Tasks /\ (u \in ToSet(x.ev[m]) \/ (u = t /\ m = l))
  <2>1. x.ev[m] \in Seq(Tasks) BY <1>0, KernelFields
  <2>2. ToSet(x.ev[m]) \subseteq Tasks BY <2>1, InList
  <2>3. CASE m = l BY <1>3, <2>2, <2>3
  <2>4. CASE m # l BY <1>0, <2>2, <2>4 DEF ListsOK
  <2> QED BY <2>3, <2>4
<1>5. ToSet(x.pending) \subseteq Tasks BY <1>0, KernelFields, InList
<1>6. ListsOK(y)
  <2>1. \A m \in Lists : \A u \in ToSet(y.ev[m]) : y.st[u] # "ready" BY <1>0, <1>1, <1>4 DEF ListsOK
  <2>2. \A u \in ToSet(y.pending) : y.st[u] # "ready" BY <1>0, <1>1, <1>2, <1>5 DEF ListsOK
  <2>3. \A u \in ToSet(y.pending), m \in Lists : u \notin ToSet(y.ev[m]) BY <1>0, <1>2, <1>4 DEF ListsOK
  <2>4. ASSUME NEW m \in Lists, NEW n \in Lists, m # n, NEW u \in ToSet(y.ev[m]), u \in ToSet(y.ev[n])
        PROVE  FALSE
    <3>1. u \in ToSet(x.ev[m]) \/ (u = t /\ m = l) BY <1>4
    <3>2. u \in ToSet(x.ev[n]) \/ (u = t /\ n = l) BY <1>4, <2>4
    <3>3. CASE u = t BY <1>2, <2>4, <3>1, <3>2, <3>3
    <3>4. CASE u # t
      <4>1. u \in ToSet(x.ev[m]) /\ u \in ToSet(x.ev[n]) BY <3>1, <3>2, <3>4
      <4> QED BY <1>0, <2>4, <4>1 DEF ListsOK
    <3> QED BY <3>3, <3>4
  <2>5. List(y.pending) /\ (y.susp = 0 => y.pending = <<>>) BY <1>0 DEF ListsOK
  <2> QED BY <1>4, <2>1, <2>2, <2>3, <2>4, <2>5 DEF ListsOK
<1>7. TimesOK(y)
  <2>1. \A a \in TickType : a \in Nat BY TickTypes DEF TickType
  <2>2. \A u \in Tasks : x.wake[u] \in Nat /\ x.next \in Nat /\ y.next \in Nat
    BY <1>0, <2>1, KernelFields
  <2>3. ASSUME NEW u \in Tasks, u # t, y.st[u] = "delayed" PROVE y.wake[u] > y.tick /\ y.next <= y.wake[u]
    BY <1>0, <1>1, <2>2, <2>3 DEF TimesOK
  <2>4. ASSUME NEW u \in Tasks, u # t, y.st[u] = "overflow" PROVE y.wake[u] <= y.tick
    BY <1>0, <1>1, <2>4 DEF TimesOK
  <2> QED BY <1>1, <2>3, <2>4 DEF TimesOK
<1>8. \A u \in Tasks : y.st[u] = "ready" => x.st[u] = "ready" BY <1>1
<1> QED BY <1>0, <1>6, <1>7, <1>8 DEF Blocked, KernelOK, PrioOK

\* The current task leaves the ready list for the list that its time to wait calls for.
Delayed(x, y) ==
  /\ y \in Kernels /\ y.cur = x.cur /\ y.susp = x.susp /\ y.prio = x.prio /\ y.swi = x.swi
  /\ y.pending = x.pending /\ y.ev = x.ev /\ SameTime(x, y) /\ y.next <= x.next
  /\ \A u \in Tasks \ {x.cur} : y.st[u] = x.st[u] /\ y.wake[u] = x.wake[u]
  /\ y.st[x.cur] # "ready"
  /\ y.st[x.cur] = "delayed" => y.wake[x.cur] > x.tick /\ y.next <= y.wake[x.cur]
  /\ y.st[x.cur] = "overflow" => y.wake[x.cur] <= x.tick

\* What such a step does to the lists.
LEMMA DelayedFields ==
  ASSUME NEW x \in Kernels, NEW t \in Tasks, t = x.cur, NEW a \in States \ {"ready"}, NEW v \in TickType,
         NEW n \in TickType, n <= x.next, a = "delayed" => v > x.tick /\ n <= v, a = "overflow" => v <= x.tick,
         NEW y, y = [x EXCEPT !.st = [x.st EXCEPT ![t] = a], !.wake = [x.wake EXCEPT ![t] = v], !.next = n]
  PROVE  Delayed(x, y)
<1>1. x.st \in [Tasks -> States] /\ x.wake \in [Tasks -> TickType] BY KernelFields
<1>2. PICK b, w : b = [x.st EXCEPT ![t] = a] /\ w = [x.wake EXCEPT ![t] = v] OBVIOUS
<1>3. b \in [Tasks -> States] /\ w \in [Tasks -> TickType] BY <1>1, <1>2
<1>4. /\ y \in Kernels /\ y.st = b /\ y.wake = w /\ y.ev = x.ev /\ y.pending = x.pending
      /\ y.prio = x.prio /\ y.cur = x.cur /\ y.susp = x.susp /\ y.tick = x.tick /\ y.next = n
      /\ y.swi = x.swi /\ SameTime(x, y)
  BY <1>2, <1>3 DEF Kernels, SameTime
<1>5. /\ \A u \in Tasks \ {t} : y.st[u] = x.st[u] /\ y.wake[u] = x.wake[u]
      /\ y.st[t] = a /\ y.wake[t] = v
  BY <1>1, <1>2, <1>4
<1> QED BY <1>4, <1>5 DEF Delayed

\* A sum of two times, in the width of the counter.
LEMMA TimeSum == \A N \in Nat : \A a, b \in 0 .. N : (a + b) % (N + 1) = IF a + b <= N THEN a + b ELSE a + b - (N + 1)
  OBVIOUS

\* prvAddCurrentTaskToDelayedList, for a time or for ever.
LEMMA DelayBlocks ==
  ASSUME NEW x \in Kernels, x.cur \in Tasks, NEW d \in TickType \ {0}, NEW c \in BOOLEAN,
         NEW y, y = prvAddCurrentTaskToDelayedList(x, d, c)
  PROVE  Delayed(x, y)
<1>1. x.st \in [Tasks -> States] /\ x.wake \in [Tasks -> TickType] /\ x.tick \in TickType /\ x.next \in TickType
  BY KernelFields
<1>2. PICK t \in Tasks : t = x.cur OBVIOUS
<1>3. PICK w : w = (x.tick + d) % (portMAX_DELAY + 1) OBVIOUS
<1>4. w \in TickType /\ w # x.tick /\ w \in Nat /\ x.tick \in Nat /\ x.next \in Nat
  <2>1. PICK N : N = portMAX_DELAY OBVIOUS
  <2>2. N \in Nat /\ x.tick \in 0 .. N /\ d \in 0 .. N /\ d # 0 /\ x.next \in 0 .. N
    BY <1>1, <2>1, TickTypes DEF TickType
  <2>3. w = IF x.tick + d <= N THEN x.tick + d ELSE x.tick + d - (N + 1)
    BY <1>3, <2>1, <2>2, TimeSum
  <2>4. w \in 0 .. N /\ w # x.tick BY <2>2, <2>3
  <2> QED BY <2>1, <2>2, <2>4 DEF TickType
<1>5. CASE d = portMAX_DELAY /\ c
  <2>1. y = [x EXCEPT !.st = [x.st EXCEPT ![t] = "suspended"]]
    BY <1>2, <1>5, Zenon DEF prvAddCurrentTaskToDelayedList
  <2>2. PICK v \in TickType : v = x.wake[t] BY <1>1
  <2>3. PICK b, u : b = [x.st EXCEPT ![t] = "suspended"] /\ u = [x.wake EXCEPT ![t] = v] OBVIOUS
  <2>4. u = x.wake BY <1>1, <2>2, <2>3
  <2>5. PICK n \in TickType : n = x.next BY <1>1
  <2>6. y = [x EXCEPT !.st = b, !.wake = u, !.next = n] BY <2>1, <2>3, <2>4, <2>5 DEF Kernels
  <2>7. PICK a \in States \ {"ready"} : a = "suspended" BY DEF States
  <2>8. n <= x.next /\ a # "delayed" /\ a # "overflow" BY <1>4, <2>5, <2>7
  <2>9. y = [x EXCEPT !.st = [x.st EXCEPT ![t] = a], !.wake = [x.wake EXCEPT ![t] = v], !.next = n]
    BY <2>3, <2>6, <2>7
  <2> QED BY <1>2, <2>8, <2>9, DelayedFields
<1>6. CASE ~(d = portMAX_DELAY /\ c) /\ w < x.tick
  <2>1. y = [x EXCEPT !.st = [x.st EXCEPT ![t] = "overflow"], !.wake = [x.wake EXCEPT ![t] = w]]
    BY <1>2, <1>3, <1>6, Zenon DEF prvAddCurrentTaskToDelayedList
  <2>2. PICK b, u : b = [x.st EXCEPT ![t] = "overflow"] /\ u = [x.wake EXCEPT ![t] = w] OBVIOUS
  <2>3. PICK n \in TickType : n = x.next BY <1>1
  <2>4. y = [x EXCEPT !.st = b, !.wake = u, !.next = n] BY <2>1, <2>2, <2>3 DEF Kernels
  <2>5. PICK a \in States \ {"ready"} : a = "overflow" BY DEF States
  <2>6. n <= x.next /\ a # "delayed" /\ w <= x.tick BY <1>4, <1>6, <2>3, <2>5
  <2>7. y = [x EXCEPT !.st = [x.st EXCEPT ![t] = a], !.wake = [x.wake EXCEPT ![t] = w], !.next = n]
    BY <2>2, <2>4, <2>5
  <2> QED BY <1>2, <1>4, <2>6, <2>7, DelayedFields
<1>7. CASE ~(d = portMAX_DELAY /\ c) /\ ~(w < x.tick)
  <2>1. PICK n : n = IF w < x.next THEN w ELSE x.next OBVIOUS
  <2>2. y = [x EXCEPT !.st = [x.st EXCEPT ![t] = "delayed"], !.wake = [x.wake EXCEPT ![t] = w], !.next = n]
    BY <1>2, <1>3, <1>7, <2>1, Zenon DEF prvAddCurrentTaskToDelayedList
  <2>3. n \in TickType /\ n <= x.next /\ n <= w /\ w > x.tick /\ "delayed" \in States \ {"ready"}
    BY <1>1, <1>4, <1>7, <2>1 DEF States
  <2> QED BY <1>2, <1>4, <2>2, <2>3, DelayedFields
<1> QED BY <1>5, <1>6, <1>7

\* vTaskPlaceOnEventList.
LEMMA PlaceBlocks ==
  ASSUME NEW x, KernelOK(x), x.cur \in Tasks, x.st[x.cur] = "ready", NEW l \in Lists,
         NEW d \in TickType \ {0}, NEW y, y = vTaskPlaceOnEventList(x, l, d)
  PROVE  /\ Blocked(x, y) /\ y.st[x.cur] # "ready" /\ \A u \in Tasks \ {x.cur} : y.st[u] = x.st[u]
         /\ y.ev[l] = Inserted(x, x.ev[l], x.cur) /\ \A m \in Lists \ {l} : y.ev[m] = x.ev[m]
<1>0. x \in Kernels /\ ListsOK(x) BY DEF KernelOK
<1>1. x.ev \in [Lists -> Seq(Tasks)] BY <1>0, KernelFields
<1>2. PICK r : r = Inserted(x, x.ev[l], x.cur) OBVIOUS
<1>3. r \in Seq(Tasks)
  <2>1. List(x.ev[l]) /\ x.cur \notin ToSet(x.ev[l]) BY <1>0 DEF ListsOK
  <2>2. List(r) BY <1>2, <2>1, InsertedList
  <2> QED BY <2>2 DEF List
<1>4. PICK e : e = [x.ev EXCEPT ![l] = r] OBVIOUS
<1>5. e \in [Lists -> Seq(Tasks)] /\ e[l] = r /\ \A m \in Lists \ {l} : e[m] = x.ev[m] BY <1>1, <1>3, <1>4
<1>6. PICK a : a = [x EXCEPT !.ev = e] OBVIOUS
<1>7. /\ a \in Kernels /\ a.st = x.st /\ a.wake = x.wake /\ a.ev = e /\ a.pending = x.pending
      /\ a.prio = x.prio /\ a.cur = x.cur /\ a.susp = x.susp /\ a.tick = x.tick /\ a.next = x.next
      /\ a.swi = x.swi /\ SameTime(x, a)
  BY <1>0, <1>5, <1>6 DEF Kernels, SameTime
<1>8. y = prvAddCurrentTaskToDelayedList(a, d, TRUE)
  BY <1>2, <1>4, <1>6, Zenon DEF vTaskPlaceOnEventList
<1>9. Delayed(a, y) BY <1>7, <1>8, DelayBlocks
<1>10. /\ y \in Kernels /\ y.cur = x.cur /\ y.susp = x.susp /\ y.prio = x.prio /\ y.swi = x.swi
       /\ y.pending = x.pending /\ y.ev = e /\ SameTime(x, y) /\ y.next <= x.next
  BY <1>7, <1>9 DEF Delayed, SameTime
<1>11. /\ \A u \in Tasks \ {x.cur} : y.st[u] = x.st[u] /\ y.wake[u] = x.wake[u]
       /\ y.st[x.cur] # "ready"
       /\ y.st[x.cur] = "delayed" => y.wake[x.cur] > x.tick /\ y.next <= y.wake[x.cur]
       /\ y.st[x.cur] = "overflow" => y.wake[x.cur] <= x.tick
  BY <1>7, <1>9 DEF Delayed
<1>12. y.ev[l] = Inserted(x, x.ev[l], x.cur) /\ \A m \in Lists \ {l} : y.ev[m] = x.ev[m] BY <1>2, <1>5, <1>10
<1>13. Blocked(x, y) BY <1>10, <1>11, <1>12, BlockedKeeps
<1> QED BY <1>11, <1>12, <1>13

(* ---------------------------- counting the time --------------------------- *)

\* A time to wait can be longer than none.
LEMMA SomeDelay == portMAX_DELAY >= 1
<1>1. IsFiniteSet(1 .. TickBits) /\ 1 \in 1 .. TickBits BY KernelAssumption, FS_Interval
<1>2. PICK S : S = 1 .. TickBits OBVIOUS
<1>3. IsFiniteSet(SUBSET S) /\ Cardinality(SUBSET S) = 2 ^ Cardinality(S) BY <1>1, <1>2, FS_SUBSET
<1>4. Cardinality(S) = TickBits BY <1>2, KernelAssumption, FS_Interval
<1>5. PICK E : E = {} OBVIOUS
<1>6. E # S /\ {E} \subseteq SUBSET S /\ S \in SUBSET S BY <1>1, <1>2, <1>5
<1>7. Cardinality({E}) = 1 /\ IsFiniteSet({E}) BY FS_Singleton
<1>8. IsFiniteSet({E} \cup {S}) /\ Cardinality({E} \cup {S}) = 2
  <2>1. S \notin {E} BY <1>6
  <2> QED BY <1>7, <2>1, FS_AddElement
<1>9. {E} \cup {S} \subseteq SUBSET S BY <1>6
<1>10. Cardinality({E} \cup {S}) <= Cardinality(SUBSET S) BY <1>3, <1>9, FS_Subset
<1>11. 2 ^ TickBits >= 2 BY <1>3, <1>4, <1>8, <1>10
<1>12. 2 ^ TickBits \in Nat BY <1>3, <1>4, FS_CardinalityType
<1> QED BY <1>11, <1>12 DEF portMAX_DELAY

\* A timeout c: how long to wait in all, how much of it was left at the time noted in
\* tick and over, and how many ticks have come since the call began, up to want.
TimeOutOK(c) ==
  /\ c.want \in TickType /\ c.left \in TickType /\ c.tick \in TickType /\ c.over \in Overflows
  /\ c.age \in Nat /\ c.age <= c.want /\ c.left <= c.want

\* The ticks between the time that c notes and that of x, if it is less than a round.
SameRound(x, c) == IF c.over = x.over THEN c.tick <= x.tick ELSE x.tick < c.tick
Since(x, c) == IF c.over = x.over THEN x.tick - c.tick ELSE x.tick - c.tick + portMAX_DELAY + 1

\* All the time has passed, or as much of it as the counters say, p ticks pending.
Counted(x, c, p) ==
  c.age = c.want \/ (SameRound(x, c) /\ c.want - c.left + Since(x, c) + p <= c.age)

\* A tick that is counted adds one to the time since a call began, also when the counter wraps.
LEMMA TickIsCounted ==
  ASSUME NEW x \in Kernels, NEW y \in Kernels, Advances(x, y), NEW c, TimeOutOK(c), NEW p \in Nat,
         Counted(x, c, p + 1)
  PROVE  Counted(y, c, p)
<1>1. PICK N : N = portMAX_DELAY OBVIOUS
<1>2. N \in Nat /\ \A a : a \in TickType <=> a \in 0 .. N BY <1>1, TickTypes DEF TickType
<1>3. PICK want, left, tick, over, age : want = c.want /\ left = c.left /\ tick = c.tick /\ over = c.over /\ age = c.age
  OBVIOUS
<1>4. /\ want \in 0 .. N /\ left \in 0 .. N /\ tick \in 0 .. N /\ over \in 0 .. 1 /\ age \in Nat
      /\ age <= want /\ left <= want
  BY <1>2, <1>3 DEF TimeOutOK, Overflows
<1>5. PICK xt, xo, yt, yo : xt = x.tick /\ xo = x.over /\ yt = y.tick /\ yo = y.over OBVIOUS
<1>6. xt \in 0 .. N /\ xo \in 0 .. 1 BY <1>2, <1>5, KernelFields DEF Overflows
<1>7. yt = (IF xt = N THEN 0 ELSE xt + 1) /\ yo = (IF xt = N THEN 1 - xo ELSE xo) BY <1>1, <1>5 DEF Advances
<1>8. \/ age = want
      \/ over = xo /\ tick <= xt /\ want - left + (xt - tick) + (p + 1) <= age
      \/ over # xo /\ xt < tick /\ want - left + (xt - tick + N + 1) + (p + 1) <= age
  BY <1>1, <1>3, <1>5 DEF Counted, SameRound, Since
<1>9. \/ age = want
      \/ over = yo /\ tick <= yt /\ want - left + (yt - tick) + p <= age
      \/ over # yo /\ yt < tick /\ want - left + (yt - tick + N + 1) + p <= age
  <2>1. CASE age = want BY <2>1
  <2>2. CASE over = xo /\ tick <= xt /\ want - left + (xt - tick) + (p + 1) <= age
    <3>1. CASE xt = N BY <1>2, <1>4, <1>6, <1>7, <2>2, <3>1
    <3>2. CASE xt # N BY <1>2, <1>4, <1>6, <1>7, <2>2, <3>2
    <3> QED BY <3>1, <3>2
  <2>3. CASE over # xo /\ xt < tick /\ want - left + (xt - tick + N + 1) + (p + 1) <= age
    <3>1. xt # N BY <1>4, <1>6, <2>3
    <3> QED BY <1>2, <1>4, <1>6, <1>7, <2>3, <3>1
  <2> QED BY <1>8, <2>1, <2>2, <2>3
<1> QED BY <1>1, <1>3, <1>5, <1>9 DEF Counted, SameRound, Since

\* Only the counters matter.
LEMMA SameCounted ==
  ASSUME NEW x, NEW y, y.tick = x.tick, y.over = x.over, NEW c, NEW p, Counted(x, c, p) PROVE Counted(y, c, p)
  BY DEF Counted, SameRound, Since

\* The ticks that were pended are counted.
LEMMA PendedTicksCounted ==
  ASSUME NEW x, KernelOK(x), NEW n \in Nat, NEW y, y = PendedTicks(x, n), NEW c, TimeOutOK(c), Counted(x, c, n)
  PROVE  Counted(y, c, 0)
<1>1. PICK f : f = CHOOSE g : TicksOn(x, g, n) OBVIOUS
<1>2. TicksOn(x, f, n) BY <1>1, TicksOnExists
<1>3. y = f[n] BY <1>1 DEF PendedTicks, TicksOn
<1>4. \A i \in 0 .. n : f[i] = IF i = 0 THEN x ELSE PendedTick(f[i - 1]) BY <1>2, Zenon DEF TicksOn
<1> DEFINE T == {m \in Nat : m <= n => KernelOK(f[m]) /\ Counted(f[m], c, n - m)}
<1>5. 0 \in T
  <2>1. f[0] = x /\ n - 0 = n BY <1>4
  <2> QED BY <2>1
<1>6. ASSUME NEW m \in Nat, m \in T PROVE m + 1 \in T
  <2> SUFFICES ASSUME m + 1 <= n PROVE KernelOK(f[m + 1]) /\ Counted(f[m + 1], c, n - (m + 1)) OBVIOUS
  <2>1. m + 1 \in 0 .. n /\ (m + 1) - 1 = m /\ m + 1 # 0 /\ m <= n OBVIOUS
  <2>2. KernelOK(f[m]) /\ Counted(f[m], c, n - m) BY <1>6, <2>1
  <2>3. f[m + 1] = PendedTick(f[m]) BY <1>4, <2>1
  <2>4. Ran(f[m], f[m + 1]) /\ Advances(f[m], f[m + 1]) BY <2>2, <2>3, PendedTickRan
  <2>5. f[m] \in Kernels /\ f[m + 1] \in Kernels /\ KernelOK(f[m + 1]) BY <2>2, <2>4 DEF Ran, KernelOK
  <2>6. PICK p \in Nat : p = n - (m + 1) BY <2>1
  <2>7. Counted(f[m], c, p + 1)
    <3>1. p + 1 = n - m BY <2>6
    <3> QED BY <2>2, <3>1
  <2>8. Counted(f[m + 1], c, p) BY <2>4, <2>5, <2>7, TickIsCounted
  <2> QED BY <2>5, <2>6, <2>8
<1>7. Nat \subseteq T
  <2> HIDE DEF T
  <2> QED BY <1>5, <1>6, Reaches
<1>8. n \in T /\ n <= n /\ n - n = 0 BY <1>7
<1> QED BY <1>3, <1>8

\* xTaskResumeAll moves the pended ticks into the counter and loses none of them.
LEMMA ResumeCounted ==
  ASSUME NEW x, KernelOK(x), x.susp = 1, NEW y, y = xTaskResumeAll(x), NEW c, TimeOutOK(c), Counted(x, c, x.pended)
  PROVE  Counted(y, c, 0)
<1>0. x \in Kernels /\ x.pended \in Nat BY KernelFields DEF KernelOK
<1>1. PICK a : a = PendingReadied([x EXCEPT !.susp = @ - 1]) OBVIOUS
<1>2. KernelOK(a) /\ SameTime(x, a) BY <1>1, KernelWoken, PendingReleased DEF Released
<1>3. PICK b : b = PendedTicks(a, x.pended) OBVIOUS
<1>4. Counted(a, c, x.pended) BY <1>2, SameCounted DEF SameTime
<1>5. Counted(b, c, 0) BY <1>0, <1>2, <1>3, <1>4, PendedTicksCounted
<1>6. b \in Kernels BY <1>0, <1>2, <1>3, PendedTicksRan DEF Ran, KernelOK
<1>7. PICK d : d = [b EXCEPT !.pended = 0] OBVIOUS
<1>8. d.tick = b.tick /\ d.over = b.over /\ d \in Kernels BY <1>6, <1>7 DEF Kernels
<1>9. y = portYIELD_if(d, d.yield)
  <2>1. [x EXCEPT !.susp = @ - 1].susp = 0 BY <1>0 DEF Kernels
  <2> QED BY <1>1, <1>3, <1>7, <2>1 DEF xTaskResumeAll
<1>10. y.tick = d.tick /\ y.over = d.over BY <1>8, <1>9 DEF portYIELD_if, portYIELD, Kernels
<1> QED BY <1>5, <1>8, <1>10, SameCounted

===============================================================================
