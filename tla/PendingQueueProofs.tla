------------------------- MODULE PendingQueueProofs -------------------------
(***************************************************************************)
(* What the pending queue's operators return, for queues of any length:    *)
(* sorting keeps the operations, keeping some of them keeps just those,    *)
(* and a merge loses an operation only to another of the same card         *)
(* that takes it up.  The recursive functions among them are unfolded by   *)
(* induction on the length of the queue.  The second half ranks the        *)
(* operations: a merge keeps the commands of a card in the order of their  *)
(* ranks, and what the queue will do to the card as it was.                *)
(***************************************************************************)
EXTENDS PendingQueue, SequenceTheorems, WellFoundedInduction, TLAPS

\* Induction over the natural numbers, for a set instead of a predicate: the
\* least number outside T would have a predecessor in T.
LEMMA SetInduction ==
    ASSUME NEW T, 0 \in T, \A n \in Nat : n \in T => n + 1 \in T
    PROVE  \A n \in Nat : n \in T
<1> DEFINE U == Nat \ T
           R == {ss \in Nat \X Nat : ss[1] < ss[2]}
<1>1. SUFFICES ASSUME U # {} PROVE FALSE
  OBVIOUS
<1>2. IsWellFoundedOn(R, Nat)
  BY NatLessThanWellFounded, Zenon DEF OpToRel
<1>3. U \subseteq Nat
  OBVIOUS
<1> HIDE DEF U, R
<1>4. PICK x \in U : \A y \in U : ~(<<y, x>> \in R)
  BY <1>1, <1>2, <1>3, WFMin
<1>5. \A y \in U : ~(y < x)
  BY <1>3, <1>4 DEF R
<1>6. x \in Nat /\ x # 0 /\ x \notin T
  BY <1>4 DEF U
<1>7. x - 1 \in Nat /\ x - 1 < x
  BY <1>6
<1>8. x - 1 \in T
  BY <1>5, <1>7 DEF U
<1> QED BY <1>6, <1>7, <1>8

-----------------------------------------------------------------------------
(* The operations of a sequence.                                           *)

\* The empty queue holds no operations.
LEMMA OpsOfEmpty == Ops(<<>>) = {}
BY DEF Ops

\* A sequence of elements of a set holds elements of that set.
LEMMA OpsIn ==
    ASSUME NEW E, NEW s \in Seq(E)
    PROVE  Ops(s) \subseteq E
BY ElementOfSeq, LenProperties DEF Ops

\* Appending adds one operation.
LEMMA OpsOfAppend ==
    ASSUME NEW E, NEW s \in Seq(E), NEW x \in E
    PROVE  Ops(Append(s, x)) = Ops(s) \cup {x}
<1> DEFINE a == Append(s, x)
<1>1. /\ DOMAIN a = 1 .. Len(s) + 1
      /\ DOMAIN s = 1 .. Len(s)
      /\ \A i \in 1 .. Len(s) : a[i] = s[i]
      /\ a[Len(s) + 1] = x
      /\ Len(s) \in Nat
  BY AppendProperties, LenProperties
<1> HIDE DEF a
<1>2. Ops(a) = {a[i] : i \in 1 .. Len(s)} \cup {a[Len(s) + 1]}
  BY <1>1 DEF Ops
<1>3. {a[i] : i \in 1 .. Len(s)} = Ops(s)
  BY <1>1 DEF Ops
<1> QED BY <1>1, <1>2, <1>3 DEF a

\* A concatenation holds what its parts hold.
LEMMA OpsOfConcat ==
    ASSUME NEW E, NEW s \in Seq(E), NEW t \in Seq(E)
    PROVE  Ops(s \o t) = Ops(s) \cup Ops(t)
<1> DEFINE a == s \o t
<1>1. /\ a \in Seq(E)
      /\ Len(a) = Len(s) + Len(t)
      /\ \A i \in 1 .. Len(s) + Len(t) :
            a[i] = IF i <= Len(s) THEN s[i] ELSE t[i - Len(s)]
  BY ConcatProperties
<1>2. /\ DOMAIN a = 1 .. Len(s) + Len(t)
      /\ DOMAIN s = 1 .. Len(s) /\ Len(s) \in Nat
      /\ DOMAIN t = 1 .. Len(t) /\ Len(t) \in Nat
  BY <1>1, LenProperties
<1> HIDE DEF a
<1>3. ASSUME NEW x \in Ops(a) PROVE x \in Ops(s) \cup Ops(t)
  <2>1. PICK i \in 1 .. Len(s) + Len(t) : x = a[i]
    BY <1>2 DEF Ops
  <2>2. CASE i <= Len(s)
    BY <1>1, <1>2, <2>1, <2>2 DEF Ops
  <2>3. CASE ~(i <= Len(s))
    <3>1. i - Len(s) \in 1 .. Len(t) /\ x = t[i - Len(s)]
      BY <1>1, <1>2, <2>1, <2>3
    <3> QED BY <1>2, <3>1 DEF Ops
  <2> QED BY <2>2, <2>3
<1>4. ASSUME NEW x \in Ops(s) PROVE x \in Ops(a)
  <2>1. PICK i \in 1 .. Len(s) : x = s[i]
    BY <1>2 DEF Ops
  <2>2. i \in 1 .. Len(s) + Len(t) /\ a[i] = x
    BY <1>1, <1>2, <2>1
  <2> QED BY <1>2, <2>2 DEF Ops
<1>5. ASSUME NEW x \in Ops(t) PROVE x \in Ops(a)
  <2>1. PICK i \in 1 .. Len(t) : x = t[i]
    BY <1>2 DEF Ops
  <2>2. /\ Len(s) + i \in 1 .. Len(s) + Len(t)
        /\ ~(Len(s) + i <= Len(s))
        /\ Len(s) + i - Len(s) = i
    BY <1>2
  <2>3. a[Len(s) + i] = x
    BY <1>1, <2>1, <2>2
  <2> QED BY <1>2, <2>2, <2>3 DEF Ops
<1> QED BY <1>3, <1>4, <1>5 DEF a

\* A sequence of one holds that one.
LEMMA OpsOfOne ==
    ASSUME NEW x
    PROVE  Ops(<<x>>) = {x}
BY DEF Ops

-----------------------------------------------------------------------------
(* Sequences in the order of their time stamps.                            *)

Sorted(s) == \A i, j \in DOMAIN s : i < j => s[i].at <= s[j].at

\* Two sorted sequences make a sorted one if nothing in the first is later than
\* anything in the second.
LEMMA SortedConcat ==
    ASSUME NEW E, NEW s \in Seq(E), NEW t \in Seq(E), Sorted(s), Sorted(t),
           \A x \in Ops(s), y \in Ops(t) : x.at <= y.at
    PROVE  Sorted(s \o t)
<1> DEFINE a == s \o t
<1>1. /\ a \in Seq(E)
      /\ Len(a) = Len(s) + Len(t)
      /\ \A i \in 1 .. Len(s) + Len(t) :
            a[i] = IF i <= Len(s) THEN s[i] ELSE t[i - Len(s)]
  BY ConcatProperties
<1>2. /\ DOMAIN a = 1 .. Len(s) + Len(t)
      /\ DOMAIN s = 1 .. Len(s) /\ Len(s) \in Nat
      /\ DOMAIN t = 1 .. Len(t) /\ Len(t) \in Nat
  BY <1>1, LenProperties
<1> HIDE DEF a
<1>3. ASSUME NEW i \in DOMAIN a, NEW j \in DOMAIN a, i < j
      PROVE  a[i].at <= a[j].at
  <2>1. CASE j <= Len(s)
    BY <1>1, <1>2, <1>3, <2>1 DEF Sorted
  <2>2. CASE i <= Len(s) /\ ~(j <= Len(s))
    <3>1. a[i] = s[i] /\ i \in DOMAIN s
      BY <1>1, <1>2, <2>2
    <3>2. a[j] = t[j - Len(s)] /\ j - Len(s) \in DOMAIN t
      BY <1>1, <1>2, <2>2
    <3>3. a[i] \in Ops(s) /\ a[j] \in Ops(t)
      BY <3>1, <3>2 DEF Ops
    <3> QED BY <3>3
  <2>3. CASE ~(i <= Len(s)) /\ ~(j <= Len(s))
    <3>1. a[i] = t[i - Len(s)] /\ i - Len(s) \in DOMAIN t
      BY <1>1, <1>2, <2>3
    <3>2. a[j] = t[j - Len(s)] /\ j - Len(s) \in DOMAIN t
      BY <1>1, <1>2, <2>3
    <3>3. i - Len(s) < j - Len(s)
      BY <1>2, <1>3
    <3> QED BY <3>1, <3>2, <3>3 DEF Sorted
  <2> QED BY <1>2, <1>3, <2>1, <2>2, <2>3
<1> QED BY <1>3, Zenon DEF Sorted, a

\* A sequence of one is sorted.
LEMMA SortedOne ==
    ASSUME NEW x
    PROVE  Sorted(<<x>>)
BY DEF Sorted

\* A sorted sequence stays sorted when something not earlier is appended.
LEMMA SortedAppend ==
    ASSUME NEW E, NEW s \in Seq(E), NEW x \in E, Sorted(s),
           \A y \in Ops(s) : y.at <= x.at
    PROVE  Sorted(Append(s, x))
<1>1. Append(s, x) = s \o <<x>>
  BY AppendIsConcat
<1>2. <<x>> \in Seq(E) /\ Sorted(<<x>>) /\ Ops(<<x>>) = {x}
  BY SortedOne, OpsOfOne
<1> QED BY <1>1, <1>2, SortedConcat

-----------------------------------------------------------------------------
(* Keep                                                                    *)

\* f keeps, for every n up to m, what is in S of the first n of q.
Keeps(f, q, S, m) ==
    f = [n \in 0 .. m |->
           IF n = 0 THEN <<>>
           ELSE IF q[n] \in S THEN Append(f[n - 1], q[n]) ELSE f[n - 1]]

\* The recursive function of Keep exists, for sequences of any length.
LEMMA KeepsExists ==
    ASSUME NEW q, NEW S, NEW m \in Nat
    PROVE  \E f : Keeps(f, q, S, m)
<1> DEFINE T == {k \in Nat : \E f : Keeps(f, q, S, k)}
<1>1. 0 \in T
  <2> DEFINE f == [n \in 0 .. 0 |-> <<>>]
  <2>1. Keeps(f, q, S, 0)
    BY DEF Keeps
  <2> QED BY <2>1
<1>2. ASSUME NEW k \in Nat, k \in T PROVE k + 1 \in T
  <2>1. PICK f : Keeps(f, q, S, k)
    BY <1>2
  <2> DEFINE last == IF q[k + 1] \in S THEN Append(f[k], q[k + 1]) ELSE f[k]
             g == [n \in 0 .. k + 1 |-> IF n = k + 1 THEN last ELSE f[n]]
  <2>2. \A n \in 0 .. k : f[n] = IF n = 0 THEN <<>>
                                 ELSE IF q[n] \in S THEN Append(f[n - 1], q[n])
                                 ELSE f[n - 1]
    BY <2>1, Zenon DEF Keeps
  <2>3. ASSUME NEW n \in 0 .. k + 1
        PROVE  g[n] = IF n = 0 THEN <<>>
                      ELSE IF q[n] \in S THEN Append(g[n - 1], q[n])
                      ELSE g[n - 1]
    BY <2>2
  <2>4. Keeps(g, q, S, k + 1)
    <3> HIDE DEF last
    <3> QED BY <2>3 DEF Keeps
  <2> HIDE DEF g
  <2> QED BY <2>4
<1> HIDE DEF T
<1>3. m \in T
  BY <1>1, <1>2, SetInduction
<1> QED BY <1>3 DEF T

\* Keep is the last value of that function.
LEMMA KeepIs ==
    ASSUME NEW q, NEW S, Len(q) \in Nat
    PROVE  \E f : Keeps(f, q, S, Len(q)) /\ Keep(q, S) = f[Len(q)]
<1>1. Keep(q, S) = (CHOOSE f : Keeps(f, q, S, Len(q)))[Len(q)]
  BY Zenon DEF Keep, Keeps
<1>2. \E f : Keeps(f, q, S, Len(q))
  BY KeepsExists
<1>3. Keeps(CHOOSE f : Keeps(f, q, S, Len(q)), q, S, Len(q))
  BY <1>2, Zenon
<1> QED BY <1>1, <1>3, Zenon

\* Keep returns the operations of q that are in S, in their order.
LEMMA KeepFacts ==
    ASSUME NEW E, NEW q \in Seq(E), NEW S
    PROVE  /\ Keep(q, S) \in Seq(E)
           /\ Ops(Keep(q, S)) = Ops(q) \cap S
           /\ Sorted(q) => Sorted(Keep(q, S))
<1>1. PICK f : Keeps(f, q, S, Len(q)) /\ Keep(q, S) = f[Len(q)]
  BY KeepIs
<1>2. \A n \in 0 .. Len(q) : f[n] = IF n = 0 THEN <<>>
                                    ELSE IF q[n] \in S THEN Append(f[n - 1], q[n])
                                    ELSE f[n - 1]
  BY <1>1, Zenon DEF Keeps
<1> DEFINE Right(k) == /\ f[k] \in Seq(E)
                       /\ Ops(f[k]) = {q[j] : j \in 1 .. k} \cap S
                       /\ Sorted(q) => Sorted(f[k])
           T == {k \in Nat : k <= Len(q) => Right(k)}
<1>3. 0 \in T
  <2>1. f[0] = <<>> /\ {q[j] : j \in 1 .. 0} = {}
    BY <1>2
  <2>2. Right(0)
    <3>1. f[0] \in Seq(E)
      BY <2>1
    <3>2. Ops(f[0]) = {q[j] : j \in 1 .. 0} \cap S
      BY <2>1, OpsOfEmpty
    <3>3. Sorted(f[0])
      BY <2>1 DEF Sorted
    <3> QED BY <3>1, <3>2, <3>3
  <2> QED BY <2>2
<1>4. ASSUME NEW k \in Nat, k \in T PROVE k + 1 \in T
  <2>1. SUFFICES ASSUME k + 1 <= Len(q) PROVE Right(k + 1)
    OBVIOUS
  <2>2. Right(k) /\ k + 1 \in 0 .. Len(q) /\ k + 1 # 0 /\ q[k + 1] \in E
    BY <1>4, <2>1
  <2>3. {q[j] : j \in 1 .. k + 1} = {q[j] : j \in 1 .. k} \cup {q[k + 1]}
    BY <2>2
  <2>4. CASE q[k + 1] \in S
    <3>1. f[k + 1] = Append(f[k], q[k + 1])
      <4>1. (k + 1) - 1 = k
        OBVIOUS
      <4> QED BY <1>2, <2>2, <2>4, <4>1
    <3>2. f[k + 1] \in Seq(E)
      BY <2>2, <3>1
    <3>3. Ops(f[k + 1]) = Ops(f[k]) \cup {q[k + 1]}
      BY <2>2, <3>1, OpsOfAppend
    <3>4. ASSUME Sorted(q) PROVE Sorted(f[k + 1])
      <4>1. ASSUME NEW y \in Ops(f[k]) PROVE y.at <= q[k + 1].at
        <5>1. PICK j \in 1 .. k : y = q[j]
          BY <2>2
        <5> QED BY <2>2, <3>4, <5>1 DEF Sorted
      <4> QED BY <2>2, <3>1, <3>4, <4>1, SortedAppend
    <3> QED BY <2>2, <2>3, <2>4, <3>2, <3>3, <3>4
  <2>5. CASE q[k + 1] \notin S
    BY <1>2, <2>2, <2>3, <2>5
  <2> QED BY <2>4, <2>5
<1> HIDE DEF T
<1>5. Len(q) \in T
  BY <1>3, <1>4, SetInduction
<1>6. Right(Len(q))
  BY <1>5 DEF T
<1>7. {q[j] : j \in 1 .. Len(q)} = Ops(q)
  BY DEF Ops
<1> QED BY <1>1, <1>6, <1>7

-----------------------------------------------------------------------------
(* SortByTime                                                              *)

Timed(E) == \A x \in E : x.at \in Int

\* Inserting an operation adds it and keeps the order.
LEMMA InsertFacts ==
    ASSUME NEW E, Timed(E), NEW q \in Seq(E), NEW op \in E
    PROVE  /\ InsertByTime(q, op) \in Seq(E)
           /\ Ops(InsertByTime(q, op)) = Ops(q) \cup {op}
           /\ Sorted(q) => Sorted(InsertByTime(q, op))
<1> DEFINE L == {x \in Ops(q) : x.at <= op.at}
           G == {x \in Ops(q) : x.at > op.at}
           lo == Keep(q, L)
           hi == Keep(q, G)
<1>1. lo \in Seq(E) /\ Ops(lo) = L /\ (Sorted(q) => Sorted(lo))
  <2>1. Ops(q) \cap L = L
    OBVIOUS
  <2> HIDE DEF L
  <2> QED BY <2>1, KeepFacts
<1>2. hi \in Seq(E) /\ Ops(hi) = G /\ (Sorted(q) => Sorted(hi))
  <2>1. Ops(q) \cap G = G
    OBVIOUS
  <2> HIDE DEF G
  <2> QED BY <2>1, KeepFacts
<1>3. <<op>> \in Seq(E) /\ Ops(<<op>>) = {op} /\ Sorted(<<op>>)
  BY OpsOfOne, SortedOne
<1>4. InsertByTime(q, op) = lo \o <<op>> \o hi
  BY Zenon DEF InsertByTime
<1>5. Ops(q) \subseteq E
  BY DEF Ops
<1>6. \A x \in Ops(q) : x.at \in Int /\ op.at \in Int
  BY <1>5 DEF Timed
<1> HIDE DEF lo, hi
<1>7. lo \o <<op>> \in Seq(E) /\ Ops(lo \o <<op>>) = L \cup {op}
  <2>1. Ops(lo \o <<op>>) = Ops(lo) \cup Ops(<<op>>)
    <3> DEFINE one == <<op>>
    <3>1. lo \in Seq(E) /\ one \in Seq(E)
      BY <1>1, <1>3
    <3> HIDE DEF one, L, G
    <3>2. Ops(lo \o one) = Ops(lo) \cup Ops(one)
      BY <3>1, OpsOfConcat
    <3> QED BY <3>2 DEF one
  <2>2. lo \o <<op>> \in Seq(E)
    BY <1>1, <1>3, ConcatProperties
  <2> QED BY <1>1, <1>3, <2>1, <2>2
<1>8. (lo \o <<op>>) \o hi \in Seq(E)
      /\ Ops((lo \o <<op>>) \o hi) = L \cup {op} \cup G
  <2> DEFINE mid == lo \o <<op>>
  <2>1. mid \in Seq(E) /\ Ops(mid) = L \cup {op}
    BY <1>7
  <2> HIDE DEF mid
  <2>2. Ops(mid \o hi) = Ops(mid) \cup Ops(hi)
    BY <1>2, <2>1, OpsOfConcat
  <2>3. mid \o hi \in Seq(E)
    BY <1>2, <2>1, ConcatProperties
  <2> QED BY <1>2, <2>1, <2>2, <2>3 DEF mid
<1>9. L \cup {op} \cup G = Ops(q) \cup {op}
  BY <1>6
<1>10. ASSUME Sorted(q) PROVE Sorted((lo \o <<op>>) \o hi)
  <2>1. Sorted(lo \o <<op>>)
    BY <1>1, <1>3, <1>10, SortedConcat
  <2>2. \A x \in L \cup {op}, y \in G : x.at <= y.at
    BY <1>6
  <2> QED BY <1>2, <1>7, <1>10, <2>1, <2>2, SortedConcat
<1> QED BY <1>4, <1>8, <1>9, <1>10

\* f sorts, for every n up to m, the first n of q.
Sorts(f, q, m) ==
    f = [n \in 0 .. m |-> IF n = 0 THEN <<>> ELSE InsertByTime(f[n - 1], q[n])]

\* The recursive function of SortByTime exists, for sequences of any length.
LEMMA SortsExists ==
    ASSUME NEW q, NEW m \in Nat
    PROVE  \E f : Sorts(f, q, m)
<1> DEFINE T == {k \in Nat : \E f : Sorts(f, q, k)}
<1>1. 0 \in T
  <2> DEFINE f == [n \in 0 .. 0 |-> <<>>]
  <2>1. Sorts(f, q, 0)
    BY DEF Sorts
  <2> QED BY <2>1
<1>2. ASSUME NEW k \in Nat, k \in T PROVE k + 1 \in T
  <2>1. PICK f : Sorts(f, q, k)
    BY <1>2
  <2> DEFINE last == InsertByTime(f[k], q[k + 1])
             g == [n \in 0 .. k + 1 |-> IF n = k + 1 THEN last ELSE f[n]]
  <2>2. \A n \in 0 .. k : f[n] = IF n = 0 THEN <<>>
                                 ELSE InsertByTime(f[n - 1], q[n])
    BY <2>1, Zenon DEF Sorts
  <2>3. ASSUME NEW n \in 0 .. k + 1
        PROVE  g[n] = IF n = 0 THEN <<>> ELSE InsertByTime(g[n - 1], q[n])
    BY <2>2
  <2>4. Sorts(g, q, k + 1)
    <3> HIDE DEF last
    <3> QED BY <2>3 DEF Sorts
  <2> HIDE DEF g
  <2> QED BY <2>4
<1> HIDE DEF T
<1>3. m \in T
  BY <1>1, <1>2, SetInduction
<1> QED BY <1>3 DEF T

\* SortByTime is the last value of that function.
LEMMA SortIs ==
    ASSUME NEW q, Len(q) \in Nat
    PROVE  \E f : Sorts(f, q, Len(q)) /\ SortByTime(q) = f[Len(q)]
<1>1. SortByTime(q) = (CHOOSE f : Sorts(f, q, Len(q)))[Len(q)]
  BY Zenon DEF SortByTime, Sorts
<1>2. \E f : Sorts(f, q, Len(q))
  BY SortsExists
<1>3. Sorts(CHOOSE f : Sorts(f, q, Len(q)), q, Len(q))
  BY <1>2, Zenon
<1> QED BY <1>1, <1>3, Zenon

\* Sorting keeps the operations and puts them in order.
LEMMA SortFacts ==
    ASSUME NEW E, Timed(E), NEW q \in Seq(E)
    PROVE  /\ SortByTime(q) \in Seq(E)
           /\ Ops(SortByTime(q)) = Ops(q)
           /\ Sorted(SortByTime(q))
<1>1. PICK f : Sorts(f, q, Len(q)) /\ SortByTime(q) = f[Len(q)]
  BY SortIs
<1>2. \A n \in 0 .. Len(q) : f[n] = IF n = 0 THEN <<>>
                                    ELSE InsertByTime(f[n - 1], q[n])
  BY <1>1, Zenon DEF Sorts
<1> DEFINE Right(k) == /\ f[k] \in Seq(E)
                       /\ Ops(f[k]) = {q[j] : j \in 1 .. k}
                       /\ Sorted(f[k])
           T == {k \in Nat : k <= Len(q) => Right(k)}
<1>3. 0 \in T
  <2>1. f[0] = <<>> /\ {q[j] : j \in 1 .. 0} = {}
    BY <1>2
  <2>2. Right(0)
    <3>1. f[0] \in Seq(E)
      BY <2>1
    <3>2. Ops(f[0]) = {q[j] : j \in 1 .. 0}
      BY <2>1, OpsOfEmpty
    <3>3. Sorted(f[0])
      BY <2>1 DEF Sorted
    <3> QED BY <3>1, <3>2, <3>3
  <2> QED BY <2>2
<1>4. ASSUME NEW k \in Nat, k \in T PROVE k + 1 \in T
  <2>1. SUFFICES ASSUME k + 1 <= Len(q) PROVE Right(k + 1)
    OBVIOUS
  <2>2. Right(k) /\ k + 1 \in 0 .. Len(q) /\ k + 1 # 0 /\ q[k + 1] \in E
        /\ (k + 1) - 1 = k
    BY <1>4, <2>1
  <2>3. {q[j] : j \in 1 .. k + 1} = {q[j] : j \in 1 .. k} \cup {q[k + 1]}
    BY <2>2
  <2>4. f[k + 1] = InsertByTime(f[k], q[k + 1])
    BY <1>2, <2>2
  <2> DEFINE s == f[k]
             op == q[k + 1]
  <2>5. /\ InsertByTime(s, op) \in Seq(E)
        /\ Ops(InsertByTime(s, op)) = Ops(s) \cup {op}
        /\ Sorted(InsertByTime(s, op))
    <3>1. s \in Seq(E) /\ op \in E /\ Sorted(s)
      BY <2>2
    <3> HIDE DEF s, op
    <3> QED BY <3>1, InsertFacts
  <2> QED BY <2>2, <2>3, <2>4, <2>5
<1> HIDE DEF T
<1>5. Len(q) \in T
  BY <1>3, <1>4, SetInduction
<1>6. Right(Len(q))
  BY <1>5 DEF T
<1>7. {q[j] : j \in 1 .. Len(q)} = Ops(q)
  BY DEF Ops
<1> QED BY <1>1, <1>6, <1>7

-----------------------------------------------------------------------------
(* Absorb                                                                  *)

\* Folding a patch into a later one stays in E and keeps what the later one
\* is.
Foldable(E) ==
    \A x, y \in E : x.kind = "patch" /\ y.kind = "patch" /\ x.card = y.card =>
        /\ FoldPatch(x, y) \in E
        /\ FoldPatch(x, y).id = y.id
        /\ FoldPatch(x, y).card = y.card

\* An id stands for one operation, whatever fields were folded into it.
Identified(E) ==
    \A x, y \in E : x.id = y.id => /\ x.kind = y.kind
                                   /\ x.card = y.card
                                   /\ x.at = y.at

\* What may take an operation x out of a queue.
Takes(z, x) ==
    /\ z.id # x.id
    /\ z.card = x.card
    /\ \/ z.kind = "delete"
       \/ x.at <= z.at /\ z.kind = "create"
       \/ x.at <= z.at /\ z.kind = "patch" /\ x.kind = "patch"

HasId(s, i) == \E y \in Ops(s) : y.id = i

\* A sequence that is not empty holds its last element and what comes before.
LEMMA LastFacts ==
    ASSUME NEW E, NEW s \in Seq(E), s # <<>>
    PROVE  /\ Last(s) \in Ops(s)
           /\ Last(s) \in E
           /\ Front(s) \in Seq(E)
           /\ Ops(s) = Ops(Front(s)) \cup {Last(s)}
<1>1. Len(s) \in Nat /\ Len(s) # 0 /\ DOMAIN s = 1 .. Len(s)
  BY EmptySeq, LenProperties
<1>2. Last(s) = s[Len(s)] /\ Front(s) = SubSeq(s, 1, Len(s) - 1)
  BY DEF Last, Front
<1>3. \A i \in 1 .. Len(s) : s[i] \in E
  BY ElementOfSeq
<1> DEFINE t == SubSeq(s, 1, Len(s) - 1)
<1>4. /\ t \in Seq(E)
      /\ Len(t) = Len(s) - 1
      /\ \A i \in 1 .. Len(s) - 1 : t[i] = s[i]
  BY <1>1, <1>3, SubSeqProperties
<1>5. DOMAIN t = 1 .. Len(s) - 1
  BY <1>4, LenProperties
<1> HIDE DEF t
<1>6. Ops(s) = {s[i] : i \in 1 .. Len(s) - 1} \cup {s[Len(s)]}
  BY <1>1 DEF Ops
<1>7. {s[i] : i \in 1 .. Len(s) - 1} = Ops(t)
  BY <1>4, <1>5 DEF Ops
<1> QED BY <1>1, <1>2, <1>3, <1>4, <1>6, <1>7 DEF t

\* Absorbing an operation loses another one only to an operation that takes
\* it.
LEMMA AbsorbFacts ==
    ASSUME NEW E, Foldable(E), NEW cmds \in Seq(E), NEW op \in E,
           \A x \in Ops(cmds) : x.card = op.card
    PROVE  /\ Absorb(cmds, op) \in Seq(E)
           /\ \A x \in Ops(Absorb(cmds, op)) : x.card = op.card
           /\ (\A x \in Ops(cmds) : x.at <= op.at) =>
                 \A x \in Ops(cmds) \cup {op} :
                    \/ HasId(Absorb(cmds, op), x.id)
                    \/ \E z \in Ops(cmds) \cup {op} : Takes(z, x)
<1> DEFINE result == Absorb(cmds, op)
           Good(s) == /\ s \in Seq(E)
                      /\ \A x \in Ops(s) : x.card = op.card
                      /\ (\A x \in Ops(cmds) : x.at <= op.at) =>
                            \A x \in Ops(cmds) \cup {op} :
                               \/ HasId(s, x.id)
                               \/ \E z \in Ops(cmds) \cup {op} : Takes(z, x)
<1>1. SUFFICES Good(result)
  OBVIOUS
<1>2. <<op>> \in Seq(E) /\ Ops(<<op>>) = {op}
  BY OpsOfOne
<1>3. CASE cmds = <<>>
  <2>1. result = <<op>>
    BY <1>3 DEF Absorb
  <2>2. Ops(cmds) = {}
    BY <1>3, OpsOfEmpty
  <2> HIDE DEF result
  <2> QED BY <1>2, <2>1, <2>2 DEF HasId
<1>4. CASE cmds # <<>> /\ Last(cmds).kind = "delete"
           /\ ~(op.kind = "create" /\ op.at >= Last(cmds).at)
  <2>1. result = cmds
    BY <1>4, Zenon DEF Absorb
  <2>2. Last(cmds) \in Ops(cmds)
    BY <1>4, LastFacts
  <2>3. HasId(cmds, op.id) \/ Takes(Last(cmds), op)
    BY <1>4, <2>2 DEF HasId, Takes
  <2> HIDE DEF result
  <2> QED BY <2>1, <2>2, <2>3 DEF HasId
<1>5. CASE cmds # <<>> /\ \/ /\ Last(cmds).kind = "delete"
                             /\ op.kind = "create" /\ op.at >= Last(cmds).at
                          \/ /\ Last(cmds).kind # "delete"
                             /\ op.kind \in {"create", "delete"}
  <2>1. result = <<op>>
    BY <1>5, Zenon DEF Absorb
  <2>2. op.kind \in {"create", "delete"}
    BY <1>5
  <2>3. ASSUME NEW x \in Ops(cmds), x.at <= op.at
        PROVE  x.id = op.id \/ Takes(op, x)
    BY <2>2, <2>3 DEF Takes
  <2> HIDE DEF result
  <2> QED BY <1>2, <2>1, <2>3 DEF HasId
<1>6. CASE cmds # <<>> /\ Last(cmds).kind # "delete"
           /\ op.kind \notin {"create", "delete"} /\ FoldsWith(Last(cmds), op)
  <2> DEFINE l == Last(cmds)
             n == FoldPatch(l, op)
             front == Front(cmds)
  <2>1. result = front \o <<n>>
    BY <1>6, Zenon DEF Absorb
  <2>2. l \in Ops(cmds) /\ l \in E /\ front \in Seq(E)
        /\ Ops(cmds) = Ops(front) \cup {l}
    BY <1>6, LastFacts
  <2>3. l.kind = "patch" /\ op.kind = "patch" /\ l.card = op.card
    BY <1>6, <2>2 DEF FoldsWith
  <2>4. n \in E /\ n.id = op.id /\ n.card = op.card
    BY <2>2, <2>3, Zenon DEF Foldable
  <2> HIDE DEF n, l, front
  <2>5. <<n>> \in Seq(E) /\ Ops(<<n>>) = {n}
    BY <2>4, OpsOfOne
  <2>6. Ops(front \o <<n>>) = Ops(front) \cup {n}
        /\ front \o <<n>> \in Seq(E)
    <3> DEFINE one == <<n>>
    <3>1. one \in Seq(E) /\ front \in Seq(E)
      BY <2>2, <2>5
    <3> HIDE DEF one
    <3>2. Ops(front \o one) = Ops(front) \cup Ops(one)
      BY <3>1, OpsOfConcat
    <3>3. front \o one \in Seq(E)
      BY <3>1, ConcatProperties
    <3> QED BY <2>5, <3>2, <3>3 DEF one
  <2>7. ASSUME l.at <= op.at PROVE l.id = op.id \/ Takes(op, l)
    BY <2>3, <2>7 DEF Takes
  <2> HIDE DEF result
  <2> QED BY <2>1, <2>2, <2>4, <2>6, <2>7 DEF HasId
<1>7. CASE cmds # <<>> /\ Last(cmds).kind # "delete"
           /\ op.kind \notin {"create", "delete"} /\ ~FoldsWith(Last(cmds), op)
  <2>1. result = Append(cmds, op)
    BY <1>7, Zenon DEF Absorb
  <2>2. Append(cmds, op) \in Seq(E) /\ Ops(Append(cmds, op)) = Ops(cmds) \cup {op}
    BY OpsOfAppend, AppendProperties
  <2> HIDE DEF result
  <2> QED BY <2>1, <2>2 DEF HasId
<1> HIDE DEF result
<1> QED BY <1>3, <1>4, <1>5, <1>6, <1>7, Zenon

\* A sequence whose elements are all in a set is a sequence over that set.
LEMMA SeqOfOps ==
    ASSUME NEW E, NEW F, NEW s \in Seq(E), Ops(s) \subseteq F
    PROVE  s \in Seq(F)
<1>1. Len(s) \in Nat /\ s \in [1 .. Len(s) -> E]
  BY LenProperties
<1>2. \A i \in 1 .. Len(s) : s[i] \in F
  BY <1>1 DEF Ops
<1>3. s \in [1 .. Len(s) -> F]
  BY <1>1, <1>2
<1>4. s \in UNION {[1 .. n -> F] : n \in Nat}
  BY <1>1, <1>3
<1> QED BY <1>4, SeqDef

\* Absorbing one operation into a queue loses one only to another that takes it
\* up.
LEMMA AbsorbIntoFacts ==
    ASSUME NEW E, Foldable(E), NEW q \in Seq(E), NEW op \in E
    PROVE  /\ AbsorbInto(q, op) \in Seq(E)
           /\ (\A x \in Ops(q) : x.at <= op.at) =>
                 \A x \in Ops(q) \cup {op} :
                    \/ HasId(AbsorbInto(q, op), x.id)
                    \/ \E z \in Ops(q) \cup {op} : Takes(z, x)
<1> DEFINE On == {x \in Ops(q) : x.card = op.card}
           Off == {x \in Ops(q) : x.card # op.card}
           on == CommandsOn(q, op.card)
           pre == CommandsBefore(q, op.card)
           post == CommandsAfter(q, op.card)
           new == Absorb(on, op)
<1>1. on \in Seq(E) /\ Ops(on) = On
  <2>1. on = Keep(q, On)
    BY Zenon DEF CommandsOn
  <2>2. Ops(q) \cap On = On
    OBVIOUS
  <2> HIDE DEF On, on
  <2> QED BY <2>1, <2>2, KeepFacts
<1>2. pre \in Seq(E) /\ Ops(pre) \subseteq Off
  <2> DEFINE B == {q[k] : k \in {i \in DOMAIN q : \A j \in 1 .. i : q[j].card # op.card}}
  <2>1. pre = Keep(q, B)
    BY Zenon DEF CommandsBefore
  <2>2. Ops(q) \cap B \subseteq Off
    <3>1. Len(q) \in Nat /\ DOMAIN q = 1 .. Len(q)
      BY LenProperties
    <3>2. ASSUME NEW i \in DOMAIN q, \A j \in 1 .. i : q[j].card # op.card
          PROVE  q[i].card # op.card
      BY <3>1, <3>2
    <3> QED BY <3>2
  <2> HIDE DEF Off, B, pre
  <2> QED BY <2>1, <2>2, KeepFacts
<1>3. post \in Seq(E) /\ Ops(post) = Off \ Ops(pre)
  <2> DEFINE A == Off \ Ops(pre)
  <2>1. post = Keep(q, A)
    BY Zenon DEF CommandsAfter
  <2>2. Ops(q) \cap A = A
    OBVIOUS
  <2> HIDE DEF A, pre, post
  <2>3. post \in Seq(E) /\ Ops(post) = A
    BY <2>1, <2>2, KeepFacts
  <2> QED BY <2>3 DEF A
<1>4. AbsorbInto(q, op) = pre \o new \o post
  BY Zenon DEF AbsorbInto
<1> HIDE DEF on, pre, post
<1>5. /\ new \in Seq(E)
      /\ (\A x \in On : x.at <= op.at) =>
            \A x \in On \cup {op} :
               \/ HasId(new, x.id)
               \/ \E z \in On \cup {op} : Takes(z, x)
  BY <1>1, AbsorbFacts
<1> HIDE DEF new
<1> DEFINE r == pre \o new \o post
<1>6. r \in Seq(E) /\ Ops(r) = Off \cup Ops(new)
  <2> DEFINE l == pre \o new
  <2>1. l \in Seq(E) /\ Ops(l) = Ops(pre) \cup Ops(new)
    BY <1>2, <1>5, ConcatProperties, OpsOfConcat
  <2> HIDE DEF l
  <2>2. l \o post \in Seq(E) /\ Ops(l \o post) = Ops(l) \cup Ops(post)
    BY <1>3, <2>1, ConcatProperties, OpsOfConcat
  <2>3. Ops(l \o post) = Off \cup Ops(new)
    BY <1>2, <1>3, <2>1, <2>2
  <2> QED BY <2>2, <2>3 DEF l
<1> HIDE DEF r
<1>7. Ops(q) = On \cup Off
  OBVIOUS
<1>8. ASSUME \A x \in Ops(q) : x.at <= op.at, NEW x \in Ops(q) \cup {op}
      PROVE  \/ HasId(r, x.id)
             \/ \E z \in Ops(q) \cup {op} : Takes(z, x)
  <2>1. CASE x \in Off
    BY <1>6, <2>1 DEF HasId
  <2>2. CASE x \in On \cup {op}
    <3>1. \/ HasId(new, x.id)
          \/ \E z \in On \cup {op} : Takes(z, x)
      BY <1>5, <1>8, <2>2
    <3> QED BY <1>6, <1>7, <3>1 DEF HasId
  <2> QED BY <1>7, <1>8, <2>1, <2>2
<1> QED BY <1>4, <1>6, <1>8 DEF r

-----------------------------------------------------------------------------
(* AbsorbAll and Merge                                                     *)

\* f absorbs, for every n up to m, the first n of q.
AbsorbsAll(f, q, m) ==
    f = [n \in 0 .. m |-> IF n = 0 THEN <<>> ELSE AbsorbInto(f[n - 1], q[n])]

\* The recursive function of AbsorbAll exists, for sequences of any length.
LEMMA AbsorbsAllExists ==
    ASSUME NEW q, NEW m \in Nat
    PROVE  \E f : AbsorbsAll(f, q, m)
<1> DEFINE T == {k \in Nat : \E f : AbsorbsAll(f, q, k)}
<1>1. 0 \in T
  <2> DEFINE f == [n \in 0 .. 0 |-> <<>>]
  <2>1. AbsorbsAll(f, q, 0)
    BY DEF AbsorbsAll
  <2> QED BY <2>1
<1>2. ASSUME NEW k \in Nat, k \in T PROVE k + 1 \in T
  <2>1. PICK f : AbsorbsAll(f, q, k)
    BY <1>2
  <2> DEFINE last == AbsorbInto(f[k], q[k + 1])
             g == [n \in 0 .. k + 1 |-> IF n = k + 1 THEN last ELSE f[n]]
  <2>2. \A n \in 0 .. k : f[n] = IF n = 0 THEN <<>>
                                 ELSE AbsorbInto(f[n - 1], q[n])
    BY <2>1, Zenon DEF AbsorbsAll
  <2>3. ASSUME NEW n \in 0 .. k + 1
        PROVE  g[n] = IF n = 0 THEN <<>> ELSE AbsorbInto(g[n - 1], q[n])
    BY <2>2
  <2>4. AbsorbsAll(g, q, k + 1)
    <3> HIDE DEF last
    <3> QED BY <2>3 DEF AbsorbsAll
  <2> HIDE DEF g
  <2> QED BY <2>4
<1> HIDE DEF T
<1>3. m \in T
  BY <1>1, <1>2, SetInduction
<1> QED BY <1>3 DEF T

\* AbsorbAll is the last value of that function.
LEMMA AbsorbAllIs ==
    ASSUME NEW q, Len(q) \in Nat
    PROVE  \E f : AbsorbsAll(f, q, Len(q)) /\ AbsorbAll(q) = f[Len(q)]
<1>1. AbsorbAll(q) = (CHOOSE f : AbsorbsAll(f, q, Len(q)))[Len(q)]
  BY Zenon DEF AbsorbAll, AbsorbsAll
<1>2. \E f : AbsorbsAll(f, q, Len(q))
  BY AbsorbsAllExists
<1>3. AbsorbsAll(CHOOSE f : AbsorbsAll(f, q, Len(q)), q, Len(q))
  BY <1>2, Zenon
<1> QED BY <1>1, <1>3, Zenon

\* What holds of every operation that a fold can produce holds of the result.
LEMMA AbsorbAllType ==
    ASSUME NEW E, Foldable(E), NEW q \in Seq(E)
    PROVE  AbsorbAll(q) \in Seq(E)
<1>1. PICK f : AbsorbsAll(f, q, Len(q)) /\ AbsorbAll(q) = f[Len(q)]
  BY AbsorbAllIs
<1>2. \A n \in 0 .. Len(q) : f[n] = IF n = 0 THEN <<>>
                                    ELSE AbsorbInto(f[n - 1], q[n])
  BY <1>1, Zenon DEF AbsorbsAll
<1> DEFINE T == {k \in Nat : k <= Len(q) => f[k] \in Seq(E)}
<1>3. 0 \in T
  <2>1. f[0] = <<>>
    <3>1. 0 \in 0 .. Len(q)
      BY LenProperties
    <3> HIDE DEF T
    <3> QED BY <1>2, <3>1
  <2>2. f[0] \in Seq(E)
    BY <2>1
  <2> QED BY <2>2
<1>4. ASSUME NEW k \in Nat, k \in T PROVE k + 1 \in T
  <2>1. SUFFICES ASSUME k + 1 <= Len(q) PROVE f[k + 1] \in Seq(E)
    OBVIOUS
  <2>2. f[k] \in Seq(E) /\ k + 1 \in 0 .. Len(q) /\ k + 1 # 0 /\ q[k + 1] \in E
        /\ (k + 1) - 1 = k
    BY <1>4, <2>1
  <2>3. f[k + 1] = AbsorbInto(f[k], q[k + 1])
    BY <1>2, <2>2
  <2> QED BY <2>2, <2>3, AbsorbIntoFacts
<1> HIDE DEF T
<1>5. Len(q) \in T
  BY <1>3, <1>4, SetInduction
<1> QED BY <1>1, <1>5 DEF T

\* Absorbing the operations in the order of their stamps loses one of them
\* only to another that takes it.
LEMMA AbsorbAllLoss ==
    ASSUME NEW E, Foldable(E), Identified(E), NEW q \in Seq(E), Sorted(q),
           NEW x \in Ops(q)
    PROVE  HasId(AbsorbAll(q), x.id) \/ \E z \in Ops(q) : Takes(z, x)
<1>1. PICK f : AbsorbsAll(f, q, Len(q)) /\ AbsorbAll(q) = f[Len(q)]
  BY AbsorbAllIs
<1>2. \A n \in 0 .. Len(q) : f[n] = IF n = 0 THEN <<>>
                                    ELSE AbsorbInto(f[n - 1], q[n])
  BY <1>1, Zenon DEF AbsorbsAll
<1> DEFINE Safe(s, i) == HasId(s, i.id) \/ \E z \in Ops(q) : Takes(z, i)
           Of(k) == {y \in E : \E j \in 1 .. k : y.id = q[j].id}
           Right(k) == /\ f[k] \in Seq(Of(k))
                       /\ \A j \in 1 .. k : Safe(f[k], q[j])
           T == {k \in Nat : k <= Len(q) => Right(k)}
<1>3. 0 \in T
  <2>1. f[0] = <<>>
    <3>1. 0 \in 0 .. Len(q)
      BY LenProperties
    <3> HIDE DEF T
    <3> QED BY <1>2, <3>1
  <2>2. Right(0)
    <3>1. f[0] \in Seq(Of(0))
      BY <2>1
    <3>2. \A j \in 1 .. 0 : Safe(f[0], q[j])
      OBVIOUS
    <3> QED BY <3>1, <3>2
  <2> QED BY <2>2
<1>4. ASSUME NEW k \in Nat, k \in T PROVE k + 1 \in T
  <2>1. SUFFICES ASSUME k + 1 <= Len(q) PROVE Right(k + 1)
    OBVIOUS
  <2>2. Right(k) /\ k + 1 \in 0 .. Len(q) /\ k + 1 # 0 /\ q[k + 1] \in E
        /\ (k + 1) - 1 = k
    BY <1>4, <2>1
  <2> DEFINE s == f[k]
             op == q[k + 1]
             F == Of(k + 1)
  <2>3. f[k + 1] = AbsorbInto(s, op)
    BY <1>2, <2>2
  <2>4. \A j \in 1 .. k + 1 : q[j] \in E /\ q[j] \in Ops(q)
    BY <2>2 DEF Ops
  <2>5. Ops(s) \subseteq Of(k)
    <3>1. s \in Seq(Of(k))
      BY <2>2
    <3> HIDE DEF s, Of
    <3> QED BY <3>1, OpsIn
  <2>6. s \in Seq(F)
    <3>1. Ops(s) \subseteq F
      BY <2>5
    <3>2. s \in Seq(Of(k))
      BY <2>2
    <3> HIDE DEF s, F, Of
    <3> QED BY <3>1, <3>2, SeqOfOps
  <2>7. op \in F
    BY <2>2
  <2>8. Foldable(F)
    <3>1. ASSUME NEW y \in F, NEW z \in F,
                 y.kind = "patch", z.kind = "patch", y.card = z.card
          PROVE  /\ FoldPatch(y, z) \in F
                 /\ FoldPatch(y, z).id = z.id
                 /\ FoldPatch(y, z).card = z.card
      <4>1. /\ FoldPatch(y, z) \in E
            /\ FoldPatch(y, z).id = z.id
            /\ FoldPatch(y, z).card = z.card
        BY <3>1, Zenon DEF Foldable
      <4> QED BY <4>1
    <3> QED BY <3>1, Zenon DEF Foldable
  <2>9. \A y \in Ops(s) : y.at <= op.at
    <3>1. SUFFICES ASSUME NEW y \in Ops(s) PROVE y.at <= op.at
      OBVIOUS
    <3>2. PICK j \in 1 .. k : y.id = q[j].id /\ y \in E
      BY <2>5
    <3>3. y.at = q[j].at
      BY <2>4, <3>2 DEF Identified
    <3>4. j \in DOMAIN q /\ k + 1 \in DOMAIN q /\ j < k + 1
      BY <2>2
    <3> QED BY <3>3, <3>4 DEF Sorted
  <2> DEFINE r == AbsorbInto(s, op)
  <2>10. /\ r \in Seq(F)
         /\ \A y \in Ops(s) \cup {op} :
               \/ HasId(r, y.id)
               \/ \E z \in Ops(s) \cup {op} : Takes(z, y)
    <3> HIDE DEF s, op, F, r
    <3> QED BY <2>6, <2>7, <2>8, <2>9, AbsorbIntoFacts DEF r
  <2> HIDE DEF r
  <2>11. ASSUME NEW j \in 1 .. k + 1 PROVE Safe(r, q[j])
    <3>1. SUFFICES ASSUME ~(\E z \in Ops(q) : Takes(z, q[j]))
                   PROVE  HasId(r, q[j].id)
      OBVIOUS
    <3>2. PICK y \in Ops(s) \cup {op} : y.id = q[j].id
      <4>1. CASE j = k + 1
        BY <4>1
      <4>2. CASE j \in 1 .. k
        BY <2>2, <3>1, <4>2 DEF HasId
      <4> QED BY <4>1, <4>2
    <3>3. Ops(s) \cup {op} \subseteq F
      BY <2>5, <2>7
    <3>4. y \in E /\ y.kind = q[j].kind /\ y.card = q[j].card /\ y.at = q[j].at
      BY <2>4, <3>2, <3>3 DEF Identified
    <3>5. ASSUME NEW z \in Ops(s) \cup {op}, Takes(z, y) PROVE FALSE
      <4>1. PICK m \in 1 .. k + 1 : z.id = q[m].id
        BY <3>3
      <4>2. z \in E /\ z.kind = q[m].kind /\ z.card = q[m].card /\ z.at = q[m].at
        BY <2>4, <3>3, <4>1 DEF Identified
      <4>3. Takes(q[m], q[j])
        BY <3>2, <3>4, <3>5, <4>1, <4>2 DEF Takes
      <4> QED BY <2>4, <3>1, <4>3
    <3> QED BY <2>10, <3>2, <3>5
  <2> QED BY <2>3, <2>10, <2>11 DEF r
<1> HIDE DEF T
<1>5. Len(q) \in T
  BY <1>3, <1>4, SetInduction
<1>6. Right(Len(q))
  BY <1>5 DEF T
<1>7. PICK j \in 1 .. Len(q) : x = q[j]
  BY DEF Ops
<1> QED BY <1>1, <1>6, <1>7

\* What a merge produces: operations of the same kind as those a fold can,
\* in the order of their stamps, and it loses one only to another that takes
\* it.
LEMMA MergeFacts ==
    ASSUME NEW E, Timed(E), Foldable(E), NEW q \in Seq(E)
    PROVE  /\ Merge(q) \in Seq(E)
           /\ Sorted(Merge(q))
           /\ Identified(E) =>
                 \A x \in Ops(q) : \/ HasId(Merge(q), x.id)
                                   \/ \E z \in Ops(q) : Takes(z, x)
<1> DEFINE s == SortByTime(q)
           a == AbsorbAll(s)
<1>1. s \in Seq(E) /\ Ops(s) = Ops(q) /\ Sorted(s)
  BY SortFacts
<1>2. Merge(q) = SortByTime(a)
  BY Zenon DEF Merge
<1> HIDE DEF s
<1>3. a \in Seq(E)
  BY <1>1, AbsorbAllType
<1>4. ASSUME Identified(E), NEW x \in Ops(q)
      PROVE  HasId(a, x.id) \/ \E z \in Ops(q) : Takes(z, x)
  BY <1>1, <1>4, AbsorbAllLoss
<1> HIDE DEF a
<1>5. SortByTime(a) \in Seq(E) /\ Ops(SortByTime(a)) = Ops(a)
      /\ Sorted(SortByTime(a))
  BY <1>3, SortFacts
<1> QED BY <1>2, <1>4, <1>5 DEF HasId

-----------------------------------------------------------------------------
(* Order in a sequence.                                                    *)

\* x stands before y in q.
Follows(q, x, y) == \E i, j \in DOMAIN q : i < j /\ q[i] = x /\ q[j] = y

\* What follows what in a concatenation.
LEMMA FollowsConcat ==
    ASSUME NEW E, NEW s \in Seq(E), NEW t \in Seq(E), NEW x, NEW y, Follows(s \o t, x, y)
    PROVE  Follows(s, x, y) \/ Follows(t, x, y) \/ (x \in Ops(s) /\ y \in Ops(t))
<1> DEFINE a == s \o t
<1>1. /\ Len(a) = Len(s) + Len(t) /\ Len(s) \in Nat /\ Len(t) \in Nat
      /\ DOMAIN a = 1 .. Len(a) /\ DOMAIN s = 1 .. Len(s) /\ DOMAIN t = 1 .. Len(t)
      /\ \A i \in 1 .. Len(s) + Len(t) : a[i] = IF i <= Len(s) THEN s[i] ELSE t[i - Len(s)]
  BY ConcatProperties, LenProperties
<1> HIDE DEF a
<1>2. PICK i \in DOMAIN a, j \in DOMAIN a : i < j /\ a[i] = x /\ a[j] = y
  BY DEF Follows, a
<1>3. CASE j <= Len(s)
  <2>1. i \in DOMAIN s /\ j \in DOMAIN s /\ s[i] = x /\ s[j] = y
    BY <1>1, <1>2, <1>3
  <2> QED BY <1>2, <2>1 DEF Follows
<1>4. CASE i <= Len(s) /\ ~(j <= Len(s))
  <2>1. i \in DOMAIN s /\ j - Len(s) \in DOMAIN t /\ s[i] = x /\ t[j - Len(s)] = y
    BY <1>1, <1>2, <1>4
  <2> QED BY <2>1 DEF Ops
<1>5. CASE ~(i <= Len(s))
  <2>1. /\ i - Len(s) \in DOMAIN t /\ j - Len(s) \in DOMAIN t /\ i - Len(s) < j - Len(s)
        /\ t[i - Len(s)] = x /\ t[j - Len(s)] = y
    BY <1>1, <1>2, <1>5
  <2> QED BY <2>1 DEF Follows
<1> QED BY <1>1, <1>2, <1>3, <1>4, <1>5

\* Nothing follows in a sequence of one.
LEMMA FollowsOne ==
    ASSUME NEW z, NEW x, NEW y
    PROVE  ~Follows(<<z>>, x, y)
BY DEF Follows

\* What follows what when one is appended.
LEMMA FollowsAppend ==
    ASSUME NEW E, NEW s \in Seq(E), NEW z \in E, NEW x, NEW y, Follows(Append(s, z), x, y)
    PROVE  Follows(s, x, y) \/ (x \in Ops(s) /\ y = z)
<1> DEFINE one == <<z>>
<1>1. Append(s, z) = s \o one
  BY AppendIsConcat
<1>2. one \in Seq(E) /\ Ops(one) = {z} /\ ~Follows(one, x, y)
  BY OpsOfOne, FollowsOne
<1> HIDE DEF one
<1> QED BY <1>1, <1>2, FollowsConcat

\* Who follows is in the sequence.
LEMMA FollowsIn ==
    ASSUME NEW q, NEW x, NEW y, Follows(q, x, y)
    PROVE  x \in Ops(q) /\ y \in Ops(q)
BY DEF Follows, Ops

\* Keep does not change the order.
LEMMA FollowsKeep ==
    ASSUME NEW E, NEW q \in Seq(E), NEW S, NEW x, NEW y, Follows(Keep(q, S), x, y)
    PROVE  Follows(q, x, y)
<1>1. PICK f : Keeps(f, q, S, Len(q)) /\ Keep(q, S) = f[Len(q)]
  BY KeepIs
<1>2. \A n \in 0 .. Len(q) : f[n] = IF n = 0 THEN <<>>
                                    ELSE IF q[n] \in S THEN Append(f[n - 1], q[n])
                                    ELSE f[n - 1]
  BY <1>1, Zenon DEF Keeps
<1> DEFINE Up(k) == \E i, j \in 1 .. k : i < j /\ q[i] = x /\ q[j] = y
           Right(k) == /\ f[k] \in Seq(E)
                       /\ Ops(f[k]) \subseteq {q[j] : j \in 1 .. k}
                       /\ Follows(f[k], x, y) => Up(k)
           T == {k \in Nat : k <= Len(q) => Right(k)}
<1>0. Len(q) \in Nat /\ DOMAIN q = 1 .. Len(q)
  BY LenProperties
<1>3. 0 \in T
  <2>1. f[0] = <<>>
    BY <1>0, <1>2
  <2>2. f[0] \in Seq(E) /\ Ops(f[0]) = {} /\ ~Follows(f[0], x, y)
    BY <2>1, OpsOfEmpty DEF Follows
  <2> HIDE DEF Up
  <2> QED BY <2>2
<1>4. ASSUME NEW k \in Nat, k \in T PROVE k + 1 \in T
  <2>1. SUFFICES ASSUME k + 1 <= Len(q) PROVE Right(k + 1)
    OBVIOUS
  <2>2. Right(k) /\ k + 1 \in 0 .. Len(q) /\ k + 1 # 0 /\ q[k + 1] \in E
        /\ (k + 1) - 1 = k
    BY <1>4, <2>1
  <2>3. Up(k) => Up(k + 1)
    BY <2>2
  <2>4. CASE q[k + 1] \in S
    <3> DEFINE s == f[k]
               z == q[k + 1]
    <3>1. f[k + 1] = Append(s, z)
      BY <1>2, <2>2, <2>4
    <3>2. s \in Seq(E) /\ z \in E
      BY <2>2
    <3>3. Append(s, z) \in Seq(E) /\ Ops(Append(s, z)) = Ops(s) \cup {z}
      <4> HIDE DEF s, z
      <4> QED BY <3>2, OpsOfAppend, AppendProperties
    <3>4. Follows(Append(s, z), x, y) => Follows(s, x, y) \/ (x \in Ops(s) /\ y = z)
      <4> HIDE DEF s, z
      <4> QED BY <3>2, FollowsAppend
    <3>5. ASSUME x \in Ops(s), y = z PROVE Up(k + 1)
      <4>1. PICK j \in 1 .. k : x = q[j]
        BY <2>2, <3>5
      <4>2. j \in 1 .. k + 1 /\ k + 1 \in 1 .. k + 1 /\ j < k + 1
        BY <2>2
      <4> QED BY <3>5, <4>1, <4>2
    <3>6. Ops(s) \cup {z} \subseteq {q[j] : j \in 1 .. k + 1}
      BY <2>2
    <3> HIDE DEF Up
    <3> QED BY <2>2, <2>3, <3>1, <3>3, <3>4, <3>5, <3>6
  <2>5. CASE q[k + 1] \notin S
    <3>1. f[k + 1] = f[k]
      BY <1>2, <2>2, <2>5
    <3>2. {q[j] : j \in 1 .. k} \subseteq {q[j] : j \in 1 .. k + 1}
      BY <2>2
    <3> HIDE DEF Up
    <3> QED BY <2>2, <2>3, <3>1, <3>2
  <2> QED BY <2>4, <2>5
<1> HIDE DEF T
<1>5. Len(q) \in T
  BY <1>0, <1>3, <1>4, SetInduction
<1>6. Right(Len(q))
  BY <1>0, <1>5 DEF T
<1> QED BY <1>0, <1>1, <1>6 DEF Follows

-----------------------------------------------------------------------------
(* Operations of a card in an order of their own: r ranks their ids.       *)

InRank(q, r) == \A x, y \in Ops(q) : Follows(q, x, y) /\ x.card = y.card => r[x.id] < r[y.id]
\* The stamps agree with it.
Ranked(E, r) == /\ \A x \in E : r[x.id] \in Nat
                /\ \A x, y \in E : x.card = y.card /\ r[x.id] <= r[y.id] => x.at <= y.at

\* Where it may be sorted into that order: what is not later follows in rank.
Stable(q, r) == \A x, y : Follows(q, x, y) /\ x.card = y.card /\ x.at <= y.at
                            => r[x.id] < r[y.id]

\* A ranked queue is.
LEMMA RankStable ==
    ASSUME NEW q, NEW r, InRank(q, r)
    PROVE  Stable(q, r)
BY FollowsIn DEF InRank, Stable

\* Keep and concatenation keep the rank,
LEMMA RankKeep ==
    ASSUME NEW E, NEW r, NEW q \in Seq(E), InRank(q, r), NEW S
    PROVE  InRank(Keep(q, S), r)
<1>1. Ops(Keep(q, S)) \subseteq Ops(q)
  BY KeepFacts
<1> QED BY <1>1, FollowsKeep DEF InRank

\* Two ranked queues, one after the other, are ranked if none of the second
\* ranks below one of the first on its card.
LEMMA RankConcat ==
    ASSUME NEW E, NEW r, NEW s \in Seq(E), NEW t \in Seq(E), InRank(s, r), InRank(t, r),
           \A x \in Ops(s), y \in Ops(t) : x.card = y.card => r[x.id] < r[y.id]
    PROVE  InRank(s \o t, r)
<1> DEFINE a == s \o t
<1>1. \A x, y \in Ops(a) :
         Follows(a, x, y) => Follows(s, x, y) \/ Follows(t, x, y) \/ (x \in Ops(s) /\ y \in Ops(t))
  BY FollowsConcat
<1> HIDE DEF a
<1>2. InRank(a, r)
  BY <1>1, FollowsIn DEF InRank
<1> QED BY <1>2 DEF a

\* as does inserting by time what ranks above all that is not later.
LEMMA RankInsert ==
    ASSUME NEW E, Timed(E), NEW r, Ranked(E, r), NEW q \in Seq(E), InRank(q, r), NEW op \in E,
           \A x \in Ops(q) : x.card = op.card /\ x.at <= op.at => r[x.id] < r[op.id]
    PROVE  InRank(InsertByTime(q, op), r)
<1> DEFINE lo == Keep(q, {x \in Ops(q) : x.at <= op.at})
           hi == Keep(q, {x \in Ops(q) : x.at > op.at})
           one == <<op>>
           l == lo \o one
<1>0. Ops(q) \subseteq E
  BY OpsIn
<1>1. lo \in Seq(E) /\ Ops(lo) = {x \in Ops(q) : x.at <= op.at} /\ InRank(lo, r)
  <2> DEFINE L == {x \in Ops(q) : x.at <= op.at}
  <2>1. Ops(q) \cap L = L
    OBVIOUS
  <2> HIDE DEF L, lo, hi, one, l
  <2>2. Keep(q, L) \in Seq(E) /\ Ops(Keep(q, L)) = L
    BY <2>1, KeepFacts
  <2>3. InRank(Keep(q, L), r)
    BY RankKeep
  <2> QED BY <2>2, <2>3 DEF L, lo
<1>2. hi \in Seq(E) /\ Ops(hi) = {x \in Ops(q) : x.at > op.at} /\ InRank(hi, r)
  <2> DEFINE G == {x \in Ops(q) : x.at > op.at}
  <2>1. Ops(q) \cap G = G
    OBVIOUS
  <2> HIDE DEF G, lo, hi, one, l
  <2>2. Keep(q, G) \in Seq(E) /\ Ops(Keep(q, G)) = G
    BY <2>1, KeepFacts
  <2>3. InRank(Keep(q, G), r)
    BY RankKeep
  <2> QED BY <2>2, <2>3 DEF G, hi
<1>3. one \in Seq(E) /\ Ops(one) = {op} /\ InRank(one, r)
  BY OpsOfOne, FollowsOne DEF InRank
<1>4. InsertByTime(q, op) = l \o hi
  BY Zenon DEF InsertByTime
<1> HIDE DEF lo, hi, one
<1>5. l \in Seq(E) /\ InRank(l, r) /\ Ops(l) = Ops(lo) \cup {op}
  <2>1. \A x \in Ops(lo), y \in Ops(one) : x.card = y.card => r[x.id] < r[y.id]
    BY <1>1, <1>3
  <2>2. InRank(lo \o one, r)
    BY <1>1, <1>3, <2>1, RankConcat
  <2>3. lo \o one \in Seq(E)
    BY <1>1, <1>3, ConcatProperties
  <2>4. Ops(lo \o one) = Ops(lo) \cup Ops(one)
    BY <1>1, <1>3, OpsOfConcat
  <2> QED BY <1>3, <2>2, <2>3, <2>4
<1>6. ASSUME NEW x \in Ops(l), NEW y \in Ops(hi), x.card = y.card PROVE r[x.id] < r[y.id]
  <2>1. y \in E /\ y.at > op.at /\ x \in E /\ (x = op \/ x.at <= op.at)
    BY <1>0, <1>1, <1>2, <1>5
  <2>2. x.at \in Int /\ y.at \in Int /\ op.at \in Int /\ r[x.id] \in Nat /\ r[y.id] \in Nat
    BY <2>1 DEF Timed, Ranked
  <2>3. ~(y.at <= x.at)
    BY <2>1, <2>2
  <2>4. ~(r[y.id] <= r[x.id])
    BY <1>6, <2>1, <2>3 DEF Ranked
  <2> QED BY <2>2, <2>4
<1> HIDE DEF l
<1> QED BY <1>2, <1>4, <1>5, <1>6, RankConcat

\* The first k of q.
First(q, k) == {q[j] : j \in 1 .. k}

\* One that comes later in a ranked queue ranks above its card's earlier ones.
LEMMA RankFirst ==
    ASSUME NEW E, NEW r, NEW q \in Seq(E), InRank(q, r), NEW k \in Nat, k + 1 <= Len(q),
           NEW x \in First(q, k), x.card = q[k + 1].card
    PROVE  r[x.id] < r[q[k + 1].id]
<1>1. PICK j \in 1 .. k : x = q[j]
  BY DEF First
<1>2. j \in DOMAIN q /\ k + 1 \in DOMAIN q /\ j < k + 1
  BY LenProperties
<1>3. Follows(q, x, q[k + 1]) /\ x \in Ops(q) /\ q[k + 1] \in Ops(q)
  BY <1>1, <1>2 DEF Follows, Ops
<1> QED BY <1>3 DEF InRank

\* The first k sorted are the first k in their ranks.
LEMMA SortsPrefix ==
    ASSUME NEW E, Timed(E), NEW r, Ranked(E, r), NEW q \in Seq(E), Stable(q, r),
           NEW f, Sorts(f, q, Len(q)), NEW m \in 0 .. Len(q)
    PROVE  f[m] \in Seq(E) /\ Ops(f[m]) = First(q, m) /\ InRank(f[m], r)
<1>1. Len(q) \in Nat /\ DOMAIN q = 1 .. Len(q)
  BY LenProperties
<1>2. \A n \in 0 .. Len(q) : f[n] = IF n = 0 THEN <<>>
                                    ELSE InsertByTime(f[n - 1], q[n])
  BY Zenon DEF Sorts
<1> DEFINE Right(k) == f[k] \in Seq(E) /\ Ops(f[k]) = First(q, k) /\ InRank(f[k], r)
           T == {k \in Nat : k <= Len(q) => Right(k)}
<1>3. 0 \in T
  <2>1. f[0] = <<>>
    BY <1>1, <1>2
  <2>2. First(q, 0) = {}
    BY DEF First
  <2>3. f[0] \in Seq(E) /\ Ops(f[0]) = {} /\ InRank(f[0], r)
    BY <2>1, OpsOfEmpty DEF InRank
  <2> QED BY <2>2, <2>3
<1>4. ASSUME NEW k \in Nat, k \in T PROVE k + 1 \in T
  <2>1. SUFFICES ASSUME k + 1 <= Len(q) PROVE Right(k + 1)
    OBVIOUS
  <2>2. Right(k) /\ k + 1 \in 0 .. Len(q) /\ k + 1 # 0 /\ q[k + 1] \in E
        /\ (k + 1) - 1 = k
    BY <1>1, <1>4, <2>1
  <2>3. First(q, k + 1) = First(q, k) \cup {q[k + 1]}
    BY <2>2 DEF First
  <2> DEFINE s == f[k]
             op == q[k + 1]
  <2>4. f[k + 1] = InsertByTime(s, op)
    BY <1>2, <2>2
  <2>5. s \in Seq(E) /\ op \in E /\ InRank(s, r) /\ Ops(s) = First(q, k)
    BY <2>2
  <2>6. ASSUME NEW x \in Ops(s), x.card = op.card, x.at <= op.at PROVE r[x.id] < r[op.id]
    <3>1. PICK j \in 1 .. k : x = q[j]
      BY <2>5, <2>6 DEF First
    <3>2. j \in DOMAIN q /\ k + 1 \in DOMAIN q /\ j < k + 1
      BY <1>1, <2>1
    <3>3. Follows(q, x, op)
      BY <3>1, <3>2 DEF Follows
    <3> QED BY <2>6, <3>3 DEF Stable
  <2> HIDE DEF s, op
  <2>7. /\ InsertByTime(s, op) \in Seq(E)
        /\ Ops(InsertByTime(s, op)) = Ops(s) \cup {op}
    BY <2>5, InsertFacts
  <2>8. InRank(InsertByTime(s, op), r)
    BY <2>5, <2>6, RankInsert
  <2> QED BY <2>3, <2>4, <2>5, <2>7, <2>8 DEF s, op
<1> HIDE DEF T
<1>5. m \in T /\ m \in Nat /\ m <= Len(q)
  BY <1>1, <1>3, <1>4, SetInduction
<1> QED BY <1>5 DEF T

\* Sorting puts a queue in rank.
LEMMA SortRank ==
    ASSUME NEW E, Timed(E), NEW r, Ranked(E, r), NEW q \in Seq(E), Stable(q, r)
    PROVE  InRank(SortByTime(q), r)
<1>1. PICK f : Sorts(f, q, Len(q)) /\ SortByTime(q) = f[Len(q)]
  BY SortIs, LenProperties
<1>2. Len(q) \in 0 .. Len(q)
  BY LenProperties
<1> QED BY <1>1, <1>2, SortsPrefix

\* What ranks last and is not earlier than any other is sorted last.
LEMMA SortAppend ==
    ASSUME NEW E, Timed(E), NEW r, Ranked(E, r), NEW q \in Seq(E), NEW op \in E,
           InRank(Append(q, op), r), \A x \in Ops(q) : x.at <= op.at
    PROVE  \E l \in Seq(E) : /\ Ops(l) = Ops(q)
                             /\ InRank(l, r)
                             /\ SortByTime(Append(q, op)) = Append(l, op)
<1> DEFINE a == Append(q, op)
           n == Len(q)
<1>1. /\ a \in Seq(E) /\ Len(a) = n + 1 /\ n \in Nat /\ DOMAIN q = 1 .. n
      /\ a[n + 1] = op /\ \A j \in 1 .. n : a[j] = q[j]
  BY AppendProperties, LenProperties
<1>2. First(a, n) = Ops(q)
  BY <1>1 DEF First, Ops
<1> HIDE DEF a, n
<1>3. PICK f : Sorts(f, a, Len(a)) /\ SortByTime(a) = f[Len(a)]
  BY <1>1, SortIs
<1>4. \A k \in 0 .. Len(a) : f[k] = IF k = 0 THEN <<>>
                                    ELSE InsertByTime(f[k - 1], a[k])
  BY <1>3, Zenon DEF Sorts
<1> DEFINE s == f[n]
<1>5. SortByTime(a) = InsertByTime(s, op)
  <2>1. n + 1 \in 0 .. Len(a) /\ n + 1 # 0 /\ (n + 1) - 1 = n
    BY <1>1
  <2> QED BY <1>1, <1>3, <1>4, <2>1
<1>6. s \in Seq(E) /\ Ops(s) = Ops(q) /\ InRank(s, r)
  <2>1. n \in 0 .. Len(a) /\ InRank(a, r)
    BY <1>1 DEF a
  <2> QED BY <1>1, <1>2, <1>3, <2>1, RankStable, SortsPrefix
<1> HIDE DEF s
<1> DEFINE L == {x \in Ops(s) : x.at <= op.at}
           G == {x \in Ops(s) : x.at > op.at}
           l == Keep(s, L)
           h == Keep(s, G)
           one == <<op>>
<1>7. InsertByTime(s, op) = (l \o one) \o h
  BY Zenon DEF InsertByTime
<1>8. Ops(s) \cap L = Ops(q) /\ Ops(s) \cap G = {}
  <2>1. Ops(q) \subseteq E
    BY OpsIn
  <2>2. \A x \in Ops(q) : x.at \in Int /\ op.at \in Int /\ x.at <= op.at /\ ~(x.at > op.at)
    BY <2>1 DEF Timed
  <2>3. Ops(s) \cap L = Ops(s)
    BY <1>6, <2>2
  <2>4. Ops(s) \cap G = {}
    BY <1>6, <2>2
  <2> HIDE DEF L, G
  <2> QED BY <1>6, <2>3, <2>4
<1> HIDE DEF L, G
<1>9. l \in Seq(E) /\ Ops(l) = Ops(q) /\ InRank(l, r)
  <2>1. InRank(l, r)
    BY <1>6, RankKeep
  <2>2. l \in Seq(E) /\ Ops(l) = Ops(s) \cap L
    BY <1>6, KeepFacts
  <2> QED BY <1>8, <2>1, <2>2
<1>10. h = <<>>
  <2>1. h \in Seq(E) /\ Ops(h) = Ops(s) \cap G
    BY <1>6, KeepFacts
  <2> HIDE DEF h
  <2>2. Len(h) = 0
    <3>1. Len(h) \in Nat /\ DOMAIN h = 1 .. Len(h)
      BY <2>1, LenProperties
    <3>2. 1 \notin DOMAIN h
      BY <1>8, <2>1 DEF Ops
    <3> QED BY <3>1, <3>2
  <2> QED BY <2>1, <2>2, EmptySeq
<1> HIDE DEF l, h
<1>11. (l \o one) \o h = Append(l, op)
  <2>1. l \o one = Append(l, op) /\ Append(l, op) \in Seq(E)
    BY <1>9, AppendIsConcat, AppendProperties
  <2> HIDE DEF one
  <2> QED BY <1>10, <2>1, ConcatEmptySeq
<1> QED BY <1>5, <1>7, <1>9, <1>11 DEF a

-----------------------------------------------------------------------------
(* What absorbing an operation makes of a ranked queue.                    *)

\* The last of a card's commands ranks above the others.
LEMMA LastRank ==
    ASSUME NEW E, NEW r, Ranked(E, r), NEW s \in Seq(E), s # <<>>, InRank(s, r), NEW c,
           \A x \in Ops(s) : x.card = c
    PROVE  /\ InRank(Front(s), r)
           /\ Ops(Front(s)) = Ops(s) \ {Last(s)}
           /\ \A x \in Ops(s) : x = Last(s) \/ r[x.id] < r[Last(s).id]
<1> DEFINE t == Front(s)
           l == Last(s)
<1>1. Len(s) \in Nat /\ Len(s) # 0 /\ DOMAIN s = 1 .. Len(s) /\ \A i \in 1 .. Len(s) : s[i] \in E
  BY EmptySeq, LenProperties, ElementOfSeq
<1>2. /\ t \in Seq(E) /\ Len(t) = Len(s) - 1 /\ DOMAIN t = 1 .. Len(s) - 1
      /\ \A i \in 1 .. Len(s) - 1 : t[i] = s[i]
  <2> DEFINE u == SubSeq(s, 1, Len(s) - 1)
  <2>1. /\ u \in Seq(E) /\ Len(u) = Len(s) - 1
        /\ \A i \in 1 .. Len(s) - 1 : u[i] = s[i]
    BY <1>1, SubSeqProperties
  <2> HIDE DEF u
  <2>2. DOMAIN u = 1 .. Len(s) - 1
    BY <2>1, LenProperties
  <2>3. t = u
    BY DEF Front, u
  <2> HIDE DEF t
  <2> QED BY <2>1, <2>2, <2>3
<1>3. l = s[Len(s)]
  BY DEF Last
<1>4. l \in Ops(s) /\ l \in E /\ Ops(s) = Ops(t) \cup {l}
  BY LastFacts
<1> HIDE DEF t, l
<1>5. ASSUME NEW x \in Ops(t) PROVE r[x.id] < r[l.id]
  <2>1. PICK i \in 1 .. Len(s) - 1 : x = t[i]
    BY <1>2 DEF Ops
  <2>2. i \in DOMAIN s /\ Len(s) \in DOMAIN s /\ i < Len(s) /\ s[i] = x
    BY <1>1, <1>2, <2>1
  <2>3. Follows(s, x, l)
    BY <1>3, <2>2 DEF Follows
  <2> QED BY <1>4, <2>3 DEF InRank
<1>6. l \notin Ops(t)
  <2>1. r[l.id] \in Nat
    BY <1>4 DEF Ranked
  <2> QED BY <1>5, <2>1
<1>7. InRank(t, r)
  <2>1. ASSUME NEW x, NEW y, Follows(t, x, y) PROVE Follows(s, x, y)
    BY <1>1, <1>2, <2>1 DEF Follows
  <2> QED BY <1>4, <2>1 DEF InRank
<1> QED BY <1>4, <1>5, <1>6, <1>7 DEF t, l

\* What op leaves, N, of the commands S of its card: it starts the card's
\* queue, or a delete of the card refuses it, or it takes the place of all of
\* them, or it takes in the patch on top, or it is queued behind it.
Absorbed(S, op, N, r) ==
    \/ S = {} /\ N = {op}
    \/ \E l \in S :
          /\ \A x \in S : x = l \/ r[x.id] < r[l.id]
          /\ \/ /\ l.kind = "delete" /\ ~(op.kind = "create" /\ op.at >= l.at)
                /\ N = S
             \/ /\ \/ l.kind = "delete" /\ op.kind = "create" /\ op.at >= l.at
                   \/ l.kind # "delete" /\ op.kind \in {"create", "delete"}
                /\ N = {op}
             \/ /\ l.kind # "delete" /\ op.kind \notin {"create", "delete"}
                /\ FoldsWith(l, op)
                /\ N = (S \ {l}) \cup {FoldPatch(l, op)}
             \/ /\ l.kind # "delete" /\ op.kind \notin {"create", "delete"}
                /\ ~FoldsWith(l, op)
                /\ N = S \cup {op}

\* Absorb leaves that, in rank.
LEMMA AbsorbRank ==
    ASSUME NEW E, Foldable(E), NEW r, Ranked(E, r), NEW s \in Seq(E), InRank(s, r), NEW op \in E,
           \A x \in Ops(s) : x.card = op.card /\ r[x.id] < r[op.id]
    PROVE  /\ Absorb(s, op) \in Seq(E)
           /\ InRank(Absorb(s, op), r)
           /\ \A x \in Ops(Absorb(s, op)) : x.card = op.card
           /\ Absorbed(Ops(s), op, Ops(Absorb(s, op)), r)
<1> DEFINE result == Absorb(s, op)
           one == <<op>>
           l == Last(s)
           t == Front(s)
           Good(a) == a \in Seq(E) /\ InRank(a, r) /\ Absorbed(Ops(s), op, Ops(a), r)
<1>0. (\A x \in Ops(result) : x.card = op.card) /\ result \in Seq(E)
  BY AbsorbFacts
<1>1. SUFFICES Good(result)
  BY <1>0
<1>2. one \in Seq(E) /\ Ops(one) = {op} /\ InRank(one, r)
  BY OpsOfOne, FollowsOne DEF InRank
<1>3. CASE s = <<>>
  <2>1. result = one
    BY <1>3 DEF Absorb
  <2>2. Ops(s) = {}
    BY <1>3, OpsOfEmpty
  <2> HIDE DEF result, one
  <2>3. Absorbed(Ops(s), op, Ops(one), r)
    BY <1>2, <2>2 DEF Absorbed
  <2> QED BY <1>2, <2>1, <2>3
<1>4. CASE s # <<>>
  <2>1. /\ l \in Ops(s) /\ l \in E /\ t \in Seq(E)
        /\ InRank(t, r) /\ Ops(t) = Ops(s) \ {l}
        /\ \A x \in Ops(s) : x = l \/ r[x.id] < r[l.id]
    BY <1>4, LastFacts, LastRank
  <2>2. CASE l.kind = "delete" /\ ~(op.kind = "create" /\ op.at >= l.at)
    <3>1. result = s
      BY <1>4, <2>2, Zenon DEF Absorb
    <3> HIDE DEF result, l
    <3>2. Absorbed(Ops(s), op, Ops(s), r)
      BY <2>1, <2>2 DEF Absorbed
    <3> QED BY <3>1, <3>2
  <2>3. CASE \/ l.kind = "delete" /\ op.kind = "create" /\ op.at >= l.at
             \/ l.kind # "delete" /\ op.kind \in {"create", "delete"}
    <3>1. result = one
      BY <1>4, <2>3, Zenon DEF Absorb
    <3> HIDE DEF result, l, one
    <3>2. Absorbed(Ops(s), op, Ops(one), r)
      BY <1>2, <2>1, <2>3 DEF Absorbed
    <3> QED BY <1>2, <3>1, <3>2
  <2>4. CASE l.kind # "delete" /\ op.kind \notin {"create", "delete"} /\ FoldsWith(l, op)
    <3> DEFINE n == FoldPatch(l, op)
               new == <<n>>
    <3>1. result = t \o new
      BY <1>4, <2>4, Zenon DEF Absorb
    <3>2. l.kind = "patch" /\ op.kind = "patch" /\ l.card = op.card
      BY <2>1, <2>4 DEF FoldsWith
    <3>3. n \in E /\ n.id = op.id /\ n.card = op.card
      BY <2>1, <3>2, Zenon DEF Foldable
    <3> HIDE DEF result, l, t, n
    <3>4. new \in Seq(E) /\ Ops(new) = {n} /\ InRank(new, r)
      BY <3>3, OpsOfOne, FollowsOne DEF InRank
    <3> HIDE DEF new
    <3>5. InRank(t \o new, r)
      <4>1. \A x \in Ops(t), y \in Ops(new) : x.card = y.card => r[x.id] < r[y.id]
        BY <2>1, <3>3, <3>4
      <4> QED BY <2>1, <3>4, <4>1, RankConcat
    <3>6. t \o new \in Seq(E) /\ Ops(t \o new) = (Ops(s) \ {l}) \cup {n}
      <4>1. t \o new \in Seq(E)
        BY <2>1, <3>4, ConcatProperties
      <4>2. Ops(t \o new) = Ops(t) \cup Ops(new)
        BY <2>1, <3>4, OpsOfConcat
      <4> QED BY <2>1, <3>4, <4>1, <4>2
    <3>7. Absorbed(Ops(s), op, Ops(t \o new), r)
      BY <2>1, <2>4, <3>6 DEF Absorbed, n
    <3> QED BY <3>1, <3>5, <3>6, <3>7
  <2>5. CASE l.kind # "delete" /\ op.kind \notin {"create", "delete"} /\ ~FoldsWith(l, op)
    <3>1. result = Append(s, op) /\ Append(s, op) = s \o one
      BY <1>4, <2>5, Zenon, AppendIsConcat DEF Absorb
    <3>2. Append(s, op) \in Seq(E) /\ Ops(Append(s, op)) = Ops(s) \cup {op}
      BY OpsOfAppend, AppendProperties
    <3> HIDE DEF result, l, one
    <3>3. InRank(s \o one, r)
      <4>1. \A x \in Ops(s), y \in Ops(one) : x.card = y.card => r[x.id] < r[y.id]
        BY <1>2
      <4> QED BY <1>2, <4>1, RankConcat
    <3>4. Absorbed(Ops(s), op, Ops(Append(s, op)), r)
      BY <2>1, <2>5, <3>2 DEF Absorbed
    <3> QED BY <3>1, <3>2, <3>3, <3>4
  <2> QED BY <2>2, <2>3, <2>4, <2>5
<1> QED BY <1>3, <1>4

OnCard(S, c) == {x \in S : x.card = c}
OffCard(S, c) == {x \in S : x.card # c}

\* Absorbing into a queue changes the commands of one card, in rank.
LEMMA AbsorbIntoRank ==
    ASSUME NEW E, Foldable(E), NEW r, Ranked(E, r), NEW q \in Seq(E), InRank(q, r), NEW op \in E,
           \A x \in Ops(q) : x.card = op.card => r[x.id] < r[op.id]
    PROVE  /\ AbsorbInto(q, op) \in Seq(E)
           /\ InRank(AbsorbInto(q, op), r)
           /\ \E N \in SUBSET E :
                 /\ \A x \in N : x.card = op.card
                 /\ Absorbed(OnCard(Ops(q), op.card), op, N, r)
                 /\ Ops(AbsorbInto(q, op)) = OffCard(Ops(q), op.card) \cup N
<1> DEFINE c == op.card
           B == {q[k] : k \in {i \in DOMAIN q : \A j \in 1 .. i : q[j].card # c}}
           on == CommandsOn(q, c)
           pre == CommandsBefore(q, c)
           A == OffCard(Ops(q), c) \ Ops(pre)
           post == CommandsAfter(q, c)
           new == Absorb(on, op)
           N == Ops(new)
<1>1. on \in Seq(E) /\ Ops(on) = OnCard(Ops(q), c) /\ InRank(on, r)
  <2> DEFINE S == OnCard(Ops(q), c)
  <2>1. on = Keep(q, S)
    BY Zenon DEF CommandsOn, OnCard
  <2>2. Ops(q) \cap S = S
    BY DEF OnCard
  <2> HIDE DEF S, on, pre, A, post, new, N
  <2>3. Keep(q, S) \in Seq(E) /\ Ops(Keep(q, S)) = S
    BY <2>2, KeepFacts
  <2>4. InRank(Keep(q, S), r)
    BY RankKeep
  <2> QED BY <2>1, <2>3, <2>4 DEF S
<1>2. pre \in Seq(E) /\ Ops(pre) = Ops(q) \cap B /\ InRank(pre, r)
  <2>1. pre = Keep(q, B)
    BY Zenon DEF CommandsBefore
  <2> HIDE DEF B, on, pre, A, post, new, N
  <2>2. Keep(q, B) \in Seq(E) /\ Ops(Keep(q, B)) = Ops(q) \cap B
    BY KeepFacts
  <2>3. InRank(Keep(q, B), r)
    BY RankKeep
  <2> QED BY <2>1, <2>2, <2>3
<1>3. post \in Seq(E) /\ Ops(post) = A /\ InRank(post, r)
  <2>1. post = Keep(q, A)
    BY Zenon DEF CommandsAfter, OffCard
  <2>2. Ops(q) \cap A = A
    BY DEF OffCard
  <2> HIDE DEF B, on, pre, A, post, new, N
  <2>3. Keep(q, A) \in Seq(E) /\ Ops(Keep(q, A)) = A
    BY <2>2, KeepFacts
  <2>4. InRank(Keep(q, A), r)
    BY RankKeep
  <2> QED BY <2>1, <2>3, <2>4
<1>4. AbsorbInto(q, op) = pre \o new \o post
  BY Zenon DEF AbsorbInto
<1>5. Ops(pre) \subseteq OffCard(Ops(q), c)
  <2>1. Len(q) \in Nat /\ DOMAIN q = 1 .. Len(q)
    BY LenProperties
  <2>2. ASSUME NEW i \in DOMAIN q, \A j \in 1 .. i : q[j].card # c
        PROVE  q[i].card # c
    BY <2>1, <2>2
  <2>3. B \subseteq OffCard(Ops(q), c)
    BY <2>2 DEF OffCard, Ops
  <2> HIDE DEF B, pre
  <2> QED BY <1>2, <2>3
<1>6. ASSUME NEW x \in Ops(pre), NEW y \in Ops(post), x.card = y.card PROVE r[x.id] < r[y.id]
  <2>1. Len(q) \in Nat /\ DOMAIN q = 1 .. Len(q)
    BY LenProperties
  <2>2. x \in B /\ x \in Ops(q) /\ y \in Ops(q) /\ y \notin B
    <3> HIDE DEF B, pre, post
    <3> QED BY <1>2, <1>3, <1>6 DEF OffCard
  <2>3. PICK k \in DOMAIN q : x = q[k] /\ \A j \in 1 .. k : q[j].card # c
    BY <2>2
  <2>4. PICK m \in DOMAIN q : y = q[m]
    BY <2>2 DEF Ops
  <2>5. ~(m <= k)
    <3>1. SUFFICES ASSUME m <= k PROVE y \in B
      BY <2>2
    <3>2. \A j \in 1 .. m : q[j].card # c
      BY <2>1, <2>3, <3>1
    <3> QED BY <2>4, <3>2
  <2>6. k < m
    BY <2>1, <2>5
  <2>7. Follows(q, x, y)
    BY <2>3, <2>4, <2>6 DEF Follows
  <2> QED BY <1>6, <2>2, <2>7 DEF InRank
<1> HIDE DEF on, pre, post, B
<1>7. /\ new \in Seq(E) /\ InRank(new, r) /\ \A x \in Ops(new) : x.card = c
      /\ Absorbed(OnCard(Ops(q), c), op, Ops(new), r)
  <2>1. \A x \in Ops(on) : x.card = c /\ r[x.id] < r[op.id]
    BY <1>1 DEF OnCard
  <2> QED BY <1>1, <2>1, AbsorbRank
<1> HIDE DEF new
<1> DEFINE l == pre \o new
<1>8. l \in Seq(E) /\ Ops(l) = Ops(pre) \cup Ops(new) /\ InRank(l, r)
  <2>1. \A x \in Ops(pre), y \in Ops(new) : x.card = y.card => r[x.id] < r[y.id]
    BY <1>5, <1>7 DEF OffCard
  <2>2. InRank(l, r)
    BY <1>2, <1>7, <2>1, RankConcat
  <2>3. l \in Seq(E)
    BY <1>2, <1>7, ConcatProperties
  <2>4. Ops(l) = Ops(pre) \cup Ops(new)
    BY <1>2, <1>7, OpsOfConcat
  <2> QED BY <2>2, <2>3, <2>4
<1> HIDE DEF l
<1>9. /\ l \o post \in Seq(E) /\ InRank(l \o post, r)
      /\ Ops(l \o post) = OffCard(Ops(q), c) \cup N
  <2>1. \A x \in Ops(l), y \in Ops(post) : x.card = y.card => r[x.id] < r[y.id]
    BY <1>3, <1>6, <1>7, <1>8 DEF OffCard
  <2>2. InRank(l \o post, r)
    BY <1>3, <1>8, <2>1, RankConcat
  <2>3. l \o post \in Seq(E)
    BY <1>3, <1>8, ConcatProperties
  <2>4. Ops(l \o post) = Ops(l) \cup Ops(post)
    BY <1>3, <1>8, OpsOfConcat
  <2> QED BY <1>3, <1>5, <1>8, <2>2, <2>3, <2>4
<1>10. N \in SUBSET E
  BY <1>7, OpsIn
<1> QED BY <1>4, <1>7, <1>9, <1>10 DEF l

-----------------------------------------------------------------------------
(* Proper queues: a card's delete is its only command, and its create ranks *)
(* below the card's other commands.                                        *)

Proper(S, r) == \A x, y \in S : x.card = y.card /\ x # y =>
                   x.kind # "delete" /\ (x.kind = "create" => r[x.id] < r[y.id])

\* The highest patch of a card that sets f.
WritesField(x, f) == x.kind = "patch" /\ f \in x.mask
TopWriter(S, r, x, f) == /\ x \in S /\ WritesField(x, f)
                         /\ \A y \in S : y.card = x.card /\ WritesField(y, f) => r[y.id] <= r[x.id]

\* T will do to the cards what S will: what is not a patch is in both, T has
\* no id that S has not and sets no field that S leaves alone, and each field
\* that S will set T sets to the same value, by a patch that ranks no lower.
Same(S, T, r) ==
    /\ \A x : x.kind # "patch" => (x \in T <=> x \in S)
    /\ \A y \in T : \E x \in S : x.id = y.id
    /\ \A y \in T : \A f : WritesField(y, f) => \E x \in S : x.card = y.card /\ WritesField(x, f)
    /\ \A x \in S : \A f : TopWriter(S, r, x, f) =>
          \E y \in T : /\ TopWriter(T, r, y, f)
                       /\ y.card = x.card /\ y.val[f] = x.val[f] /\ r[x.id] <= r[y.id]

\* What a fold of two patches of a card is.
Patching(E) ==
    \A x, y \in E : x.kind = "patch" /\ y.kind = "patch" /\ x.card = y.card =>
        LET n == FoldPatch(x, y) IN
        /\ n \in E /\ n.kind = "patch" /\ n.id = y.id /\ n.card = y.card
        /\ n.mask = x.mask \cup y.mask
        /\ \A f \in y.mask : n.val[f] = y.val[f]
        /\ \A f \in x.mask \ y.mask : n.val[f] = x.val[f]

\* One more operation, with those before it still proper, is queued behind them
\* or taken in by the patch on top.
LEMMA SameStep ==
    ASSUME NEW E, Patching(E), Identified(E), NEW r, Ranked(E, r),
           NEW S \in SUBSET E, NEW F \in SUBSET E, NEW op \in E, NEW N \in SUBSET E,
           Same(S, F, r), Proper(S \cup {op}, r),
           \A x \in S : x.card = op.card => r[x.id] < r[op.id],
           Absorbed(OnCard(F, op.card), op, N, r)
    PROVE  Same(S \cup {op}, OffCard(F, op.card) \cup N, r)
<1> DEFINE c == op.card
           T == OffCard(F, c) \cup N
           Then(x, y, f) == /\ TopWriter(T, r, y, f)
                            /\ y.card = x.card /\ y.val[f] = x.val[f] /\ r[x.id] <= r[y.id]
<1>0. \A x \in E : r[x.id] \in Nat
  BY DEF Ranked
<1>1. \A y \in F : \E x \in S : x.id = y.id /\ x.kind = y.kind /\ x.card = y.card
  BY DEF Same, Identified
<1>2. \A y \in F : y.card = c => r[y.id] < r[op.id]
  BY <1>1
<1>3. op \notin S
  BY <1>0
<1>4. \A x \in S : \A f : TopWriter(S \cup {op}, r, x, f) =>
         TopWriter(S, r, x, f) /\ ~(x.card = c /\ WritesField(op, f))
  BY <1>0 DEF TopWriter
<1>5. \A x \in S : \A f : TopWriter(S, r, x, f) =>
         \E y \in F : /\ TopWriter(F, r, y, f)
                      /\ y.card = x.card /\ y.val[f] = x.val[f] /\ r[x.id] <= r[y.id]
  BY DEF Same
<1>5a. \A y \in F : \A f : WritesField(y, f) => \E x \in S : x.card = y.card /\ WritesField(x, f)
  BY DEF Same
<1>6. ASSUME T = F \cup {op} PROVE Same(S \cup {op}, T, r)
  <2>1. \A x : x.kind # "patch" => (x \in T <=> x \in S \cup {op})
    BY <1>6 DEF Same
  <2>2. \A y \in T : \E x \in S \cup {op} : x.id = y.id
    BY <1>1, <1>6
  <2>2a. \A y \in T : \A f : WritesField(y, f) => \E x \in S \cup {op} : x.card = y.card /\ WritesField(x, f)
    BY <1>6, <1>5a
  <2>3. ASSUME NEW x \in S \cup {op}, NEW f, TopWriter(S \cup {op}, r, x, f)
        PROVE  \E y \in T : Then(x, y, f)
    <3>1. CASE x = op
      <4>1. TopWriter(T, r, op, f)
        BY <1>0, <1>2, <1>6, <2>3, <3>1 DEF TopWriter
      <4>2. r[op.id] <= r[op.id] /\ op \in T
        BY <1>0, <1>6
      <4> HIDE DEF T
      <4> QED BY <3>1, <4>1, <4>2
    <3>2. CASE x \in S
      <4>1. PICK y \in F : /\ TopWriter(F, r, y, f) /\ y.card = x.card
                           /\ y.val[f] = x.val[f] /\ r[x.id] <= r[y.id]
        BY <1>4, <1>5, <2>3, <3>2
      <4>2. TopWriter(T, r, y, f) /\ y \in T
        BY <1>4, <1>6, <2>3, <3>2, <4>1 DEF TopWriter
      <4> HIDE DEF T
      <4> QED BY <4>1, <4>2
    <3> QED BY <2>3, <3>1, <3>2
  <2> HIDE DEF T
  <2> QED BY <2>1, <2>2, <2>2a, <2>3, Zenon DEF Same
<1>7. ASSUME NEW l \in OnCard(F, c), \A x \in OnCard(F, c) : x = l \/ r[x.id] < r[l.id],
             l.kind = "patch", op.kind = "patch",
             T = (F \ {l}) \cup {FoldPatch(l, op)}
      PROVE  Same(S \cup {op}, T, r)
  <2> DEFINE n == FoldPatch(l, op)
  <2>0. l \in F /\ l.card = c /\ l \in E
    BY DEF OnCard
  <2>1. /\ n \in E /\ n.kind = "patch" /\ n.id = op.id /\ n.card = c
        /\ n.mask = l.mask \cup op.mask
        /\ \A f \in op.mask : n.val[f] = op.val[f]
        /\ \A f \in l.mask \ op.mask : n.val[f] = l.val[f]
    BY <1>7, <2>0, Zenon DEF Patching
  <2> HIDE DEF n
  <2>2. T = (F \ {l}) \cup {n}
    BY <1>7 DEF n
  <2> HIDE DEF T
  <2>3. \A x : x.kind # "patch" => (x \in T <=> x \in S \cup {op})
    BY <1>7, <2>1, <2>2 DEF Same
  <2>4. \A y \in T : \E x \in S \cup {op} : x.id = y.id
    BY <1>1, <2>1, <2>2
  <2>4a. ASSUME NEW y \in T, NEW f, WritesField(y, f)
        PROVE  \E x \in S \cup {op} : x.card = y.card /\ WritesField(x, f)
    <3>1. CASE y \in F
      BY <1>5a, <2>4a, <3>1
    <3>2. CASE y = n
      <4>1. WritesField(l, f) \/ WritesField(op, f)
        BY <1>7, <2>1, <2>4a, <3>2 DEF WritesField
      <4> QED BY <1>5a, <2>0, <2>1, <3>2, <4>1
    <3> QED BY <2>2, <3>1, <3>2
  <2>5. \A y \in T : y.card = c => r[y.id] <= r[n.id]
    BY <1>0, <1>2, <2>1, <2>2
  <2>6. \A f : WritesField(n, f) => TopWriter(T, r, n, f)
    BY <2>1, <2>2, <2>5 DEF TopWriter
  <2>7. ASSUME NEW x \in S \cup {op}, NEW f, TopWriter(S \cup {op}, r, x, f)
        PROVE  \E y \in T : Then(x, y, f)
    <3>1. CASE x = op
      <4>1. WritesField(n, f) /\ n.val[f] = op.val[f]
        BY <2>1, <2>7, <3>1 DEF TopWriter, WritesField
      <4>2. r[op.id] <= r[n.id]
        BY <1>0, <2>1
      <4> QED BY <2>1, <2>2, <2>6, <3>1, <4>1, <4>2
    <3>2. CASE x \in S
      <4>1. PICK y \in F : /\ TopWriter(F, r, y, f) /\ y.card = x.card
                           /\ y.val[f] = x.val[f] /\ r[x.id] <= r[y.id]
        BY <1>4, <1>5, <2>7, <3>2
      <4>2. CASE x.card = c /\ y = l
        <5>1. f \notin op.mask /\ f \in l.mask
          BY <1>4, <1>7, <2>7, <3>2, <4>1, <4>2 DEF TopWriter, WritesField
        <5>2. WritesField(n, f) /\ n.val[f] = l.val[f]
          BY <2>1, <5>1 DEF WritesField
        <5>3. r[x.id] <= r[n.id]
          BY <1>0, <2>1, <3>2, <4>2
        <5> QED BY <2>1, <2>2, <2>6, <4>1, <4>2, <5>2, <5>3
      <4>3. CASE x.card = c /\ y # l
        <5>1. r[y.id] < r[l.id]
          BY <1>7, <4>1, <4>3 DEF OnCard
        <5>2. ~WritesField(l, f)
          BY <1>0, <2>0, <4>1, <4>3, <5>1 DEF TopWriter
        <5>3. ~WritesField(n, f)
          BY <1>4, <1>7, <2>1, <2>7, <3>2, <4>3, <5>2 DEF WritesField
        <5>4. y \in T /\ TopWriter(T, r, y, f)
          BY <2>2, <4>1, <4>3, <5>3 DEF TopWriter
        <5> QED BY <4>1, <5>4
      <4>4. CASE x.card # c
        <5>1. y \in T /\ TopWriter(T, r, y, f)
          BY <2>0, <2>1, <2>2, <4>1, <4>4 DEF TopWriter
        <5> QED BY <4>1, <5>1
      <4> QED BY <4>2, <4>3, <4>4
    <3> QED BY <2>7, <3>1, <3>2
  <2> QED BY <2>3, <2>4, <2>4a, <2>7, Zenon DEF Same
<1>8. F = OffCard(F, c) \cup OnCard(F, c)
  BY DEF OnCard, OffCard
<1>9. ASSUME OnCard(F, c) = {}, N = {op} PROVE Same(S \cup {op}, T, r)
  BY <1>6, <1>8, <1>9
<1>10. ASSUME NEW l \in OnCard(F, c), \A x \in OnCard(F, c) : x = l \/ r[x.id] < r[l.id]
       PROVE  l.kind # "delete" /\ op.kind \notin {"create", "delete"}
  <2>1. PICK x \in S : x.id = l.id /\ x.kind = l.kind /\ x.card = c
    BY <1>1 DEF OnCard
  <2>2. r[x.id] < r[op.id] /\ x # op
    BY <1>3, <2>1
  <2> QED BY <1>0, <2>1, <2>2 DEF Proper
<1>11. ASSUME NEW l \in OnCard(F, c), \A x \in OnCard(F, c) : x = l \/ r[x.id] < r[l.id],
              FoldsWith(l, op), N = (OnCard(F, c) \ {l}) \cup {FoldPatch(l, op)}
       PROVE  Same(S \cup {op}, T, r)
  <2>1. l.kind = "patch" /\ op.kind = "patch" /\ l.card = c
    BY <1>11 DEF FoldsWith, OnCard
  <2>2. T = (F \ {l}) \cup {FoldPatch(l, op)}
    BY <1>8, <1>11, <2>1 DEF OffCard
  <2> HIDE DEF T
  <2> QED BY <1>7, <1>11, <2>1, <2>2
<1>12. ASSUME NEW l \in OnCard(F, c), N = OnCard(F, c) \cup {op}
       PROVE  Same(S \cup {op}, T, r)
  BY <1>6, <1>8, <1>12
<1> HIDE DEF T
<1> QED BY <1>6, <1>9, <1>10, <1>11, <1>12 DEF Absorbed, T

\* Part of a proper queue is proper.
LEMMA ProperPart ==
    ASSUME NEW S, NEW r, Proper(S, r), NEW S2 \in SUBSET S
    PROVE  Proper(S2, r)
BY DEF Proper

\* Nothing changes nothing.
LEMMA SameNone ==
    ASSUME NEW r
    PROVE  Same({}, {}, r)
BY DEF Same, TopWriter

\* The first m of a ranked queue, if they are proper, are absorbed to a queue
\* that does the same.
LEMMA AbsorbsPrefix ==
    ASSUME NEW E, Foldable(E), Patching(E), Identified(E), NEW r, Ranked(E, r),
           NEW q \in Seq(E), InRank(q, r),
           NEW f, AbsorbsAll(f, q, Len(q)), NEW m \in 0 .. Len(q), Proper(First(q, m), r)
    PROVE  f[m] \in Seq(E) /\ InRank(f[m], r) /\ Same(First(q, m), Ops(f[m]), r)
<1>1. Len(q) \in Nat /\ DOMAIN q = 1 .. Len(q) /\ \A j \in 1 .. Len(q) : q[j] \in E
  BY LenProperties, ElementOfSeq
<1>2. \A n \in 0 .. Len(q) : f[n] = IF n = 0 THEN <<>>
                                    ELSE AbsorbInto(f[n - 1], q[n])
  BY Zenon DEF AbsorbsAll
<1> DEFINE Right(k) == f[k] \in Seq(E) /\ InRank(f[k], r) /\ Same(First(q, k), Ops(f[k]), r)
           T == {k \in Nat : k <= m => Right(k)}
<1>3. 0 \in T
  <2>1. f[0] = <<>>
    BY <1>1, <1>2
  <2>2. First(q, 0) = {}
    BY DEF First
  <2>3. f[0] \in Seq(E) /\ Ops(f[0]) = {} /\ InRank(f[0], r)
    BY <2>1, OpsOfEmpty DEF InRank
  <2>4. Same(First(q, 0), Ops(f[0]), r)
    BY <2>2, <2>3, SameNone
  <2> QED BY <2>3, <2>4
<1>4. ASSUME NEW k \in Nat, k \in T PROVE k + 1 \in T
  <2>1. SUFFICES ASSUME k + 1 <= m PROVE Right(k + 1)
    OBVIOUS
  <2>2. Right(k) /\ k + 1 \in 0 .. Len(q) /\ k + 1 # 0 /\ q[k + 1] \in E
        /\ (k + 1) - 1 = k /\ k + 1 <= Len(q) /\ k + 1 \in 1 .. Len(q)
    BY <1>1, <1>4, <2>1
  <2> DEFINE s == f[k]
             op == q[k + 1]
             S == First(q, k)
             F == Ops(s)
             a == AbsorbInto(s, op)
  <2>3. First(q, k + 1) = S \cup {op} /\ S \in SUBSET E /\ S \cup {op} \in SUBSET First(q, m)
    BY <1>1, <2>1, <2>2 DEF First
  <2>4. f[k + 1] = a
    BY <1>2, <2>2
  <2>5. s \in Seq(E) /\ op \in E /\ InRank(s, r) /\ Same(S, F, r)
    BY <2>2
  <2>6. \A x \in S : x.card = op.card => r[x.id] < r[op.id]
    BY <2>2, RankFirst
  <2>7. Proper(S \cup {op}, r)
    <3> HIDE DEF S, op
    <3> QED BY <2>3, ProperPart
  <2>8. F \in SUBSET E
    <3> HIDE DEF s
    <3> QED BY <2>5, OpsIn
  <2> HIDE DEF s, op, S, F, a
  <2>9. \A x \in F : x.card = op.card => r[x.id] < r[op.id]
    <3>1. ASSUME NEW x \in F, x.card = op.card PROVE r[x.id] < r[op.id]
      <4>1. PICK y \in S : y.id = x.id
        BY <2>5, <3>1 DEF Same
      <4>2. y.card = x.card
        BY <2>3, <2>8, <4>1 DEF Identified
      <4> QED BY <2>6, <3>1, <4>1, <4>2
    <3> QED BY <3>1
  <2>10. /\ a \in Seq(E) /\ InRank(a, r)
         /\ \E N \in SUBSET E : /\ \A x \in N : x.card = op.card
                                /\ Absorbed(OnCard(F, op.card), op, N, r)
                                /\ Ops(a) = OffCard(F, op.card) \cup N
    BY <2>5, <2>9, AbsorbIntoRank DEF F, a
  <2>11. PICK N \in SUBSET E : Absorbed(OnCard(F, op.card), op, N, r) /\ Ops(a) = OffCard(F, op.card) \cup N
    BY <2>10
  <2>12. Same(S \cup {op}, Ops(a), r)
    <3>1. S \in SUBSET E /\ F \in SUBSET E /\ op \in E /\ N \in SUBSET E
      BY <2>3, <2>5, <2>8
    <3>2. Same(S \cup {op}, OffCard(F, op.card) \cup N, r)
      BY ONLY Patching(E), Identified(E), Ranked(E, r), <3>1, <2>5, <2>6, <2>7, <2>11, SameStep
    <3> QED BY <2>11, <3>2
  <2>13. Same(First(q, k + 1), Ops(a), r)
    BY <2>3, <2>12
  <2>14. f[k + 1] \in Seq(E) /\ InRank(f[k + 1], r)
    BY <2>4, <2>10
  <2>15. Same(First(q, k + 1), Ops(f[k + 1]), r)
    BY <2>4, <2>13
  <2> QED BY <2>14, <2>15
<1> HIDE DEF T
<1>5. m \in T /\ m \in Nat
  BY <1>1, <1>3, <1>4, SetInduction
<1> QED BY <1>5 DEF T

\* Merging a proper queue changes nothing that it will do.
LEMMA MergeProper ==
    ASSUME NEW E, Timed(E), Foldable(E), Patching(E), Identified(E), NEW r, Ranked(E, r),
           NEW q \in Seq(E), InRank(q, r), Proper(Ops(q), r)
    PROVE  Merge(q) \in Seq(E) /\ InRank(Merge(q), r) /\ Same(Ops(q), Ops(Merge(q)), r)
<1> DEFINE s == SortByTime(q)
           a == AbsorbAll(s)
<1>1. s \in Seq(E) /\ Ops(s) = Ops(q) /\ InRank(s, r)
  BY SortFacts, RankStable, SortRank
<1>2. Merge(q) = SortByTime(a)
  BY Zenon DEF Merge
<1> HIDE DEF s
<1>3. Len(s) \in Nat /\ DOMAIN s = 1 .. Len(s)
  BY <1>1, LenProperties
<1>4. PICK f : AbsorbsAll(f, s, Len(s)) /\ a = f[Len(s)]
  BY <1>3, AbsorbAllIs
<1>5. First(s, Len(s)) = Ops(q) /\ Len(s) \in 0 .. Len(s)
  <2>1. First(s, Len(s)) = Ops(s)
    BY <1>3 DEF First, Ops
  <2> QED BY <1>1, <1>3, <2>1
<1>6. a \in Seq(E) /\ InRank(a, r) /\ Same(Ops(q), Ops(a), r)
  <2> DEFINE m == Len(s)
  <2>1. m \in 0 .. Len(s) /\ Proper(First(s, m), r) /\ First(s, m) = Ops(q)
    BY <1>5
  <2>2. a = f[m]
    BY <1>4
  <2> HIDE DEF m, a
  <2>3. f[m] \in Seq(E) /\ InRank(f[m], r) /\ Same(First(s, m), Ops(f[m]), r)
    BY <1>1, <1>4, <2>1, AbsorbsPrefix
  <2> QED BY <2>1, <2>2, <2>3
<1> HIDE DEF a
<1>7. SortByTime(a) \in Seq(E) /\ Ops(SortByTime(a)) = Ops(a) /\ InRank(SortByTime(a), r)
  BY <1>6, SortFacts, RankStable, SortRank
<1> QED BY <1>2, <1>6, <1>7

\* Merging one more operation in, that ranks last on its card and is not
\* earlier than any other: the queue before, up to what merging it changes,
\* absorbs it.
LEMMA MergeAppend ==
    ASSUME NEW E, Timed(E), Foldable(E), Patching(E), Identified(E), NEW r, Ranked(E, r),
           NEW q \in Seq(E), NEW op \in E, InRank(Append(q, op), r), Proper(Ops(q), r),
           \A x \in Ops(q) : x.at <= op.at
    PROVE  /\ Merge(Append(q, op)) \in Seq(E)
           /\ InRank(Merge(Append(q, op)), r)
           /\ \E F \in SUBSET E, N \in SUBSET E :
                 /\ Same(Ops(q), F, r)
                 /\ \A x \in N : x.card = op.card
                 /\ Absorbed(OnCard(F, op.card), op, N, r)
                 /\ Ops(Merge(Append(q, op))) = OffCard(F, op.card) \cup N
<1> DEFINE s == SortByTime(Append(q, op))
           a == AbsorbAll(s)
<1>1. PICK l \in Seq(E) : Ops(l) = Ops(q) /\ InRank(l, r) /\ s = Append(l, op)
  BY SortAppend
<1>2. Merge(Append(q, op)) = SortByTime(a)
  BY Zenon DEF Merge
<1>3. InRank(s, r)
  <2>1. Append(q, op) \in Seq(E)
    BY AppendProperties
  <2> DEFINE p == Append(q, op)
  <2>2. p \in Seq(E) /\ InRank(p, r)
    BY <2>1
  <2> HIDE DEF p
  <2>3. InRank(SortByTime(p), r)
    BY <2>2, RankStable, SortRank
  <2> QED BY <2>3 DEF p
<1> HIDE DEF s
<1> DEFINE n == Len(l)
<1>4. /\ s \in Seq(E) /\ Len(s) = n + 1 /\ n \in Nat /\ DOMAIN l = 1 .. n
      /\ s[n + 1] = op /\ \A j \in 1 .. n : s[j] = l[j]
  BY <1>1, AppendProperties, LenProperties
<1> HIDE DEF n
<1>5. First(s, n) = Ops(q)
  BY <1>1, <1>4 DEF First, Ops
<1>6. PICK f : AbsorbsAll(f, s, Len(s)) /\ a = f[Len(s)]
  BY <1>4, AbsorbAllIs
<1>7. \A k \in 0 .. Len(s) : f[k] = IF k = 0 THEN <<>>
                                    ELSE AbsorbInto(f[k - 1], s[k])
  BY <1>6, Zenon DEF AbsorbsAll
<1> DEFINE b == f[n]
           c == op.card
<1>8. a = AbsorbInto(b, op)
  <2>1. n + 1 \in 0 .. Len(s) /\ n + 1 # 0 /\ (n + 1) - 1 = n
    BY <1>4
  <2> QED BY <1>4, <1>6, <1>7, <2>1
<1>9. b \in Seq(E) /\ InRank(b, r) /\ Same(Ops(q), Ops(b), r)
  <2>1. n \in 0 .. Len(s)
    BY <1>4
  <2> QED BY <1>3, <1>4, <1>5, <1>6, <2>1, AbsorbsPrefix
<1> HIDE DEF b, a
<1> DEFINE F == Ops(b)
<1>10. Ops(q) \in SUBSET E /\ F \in SUBSET E
  BY <1>9, OpsIn
<1>11. ASSUME NEW x \in F, x.card = c PROVE r[x.id] < r[op.id]
  <2>1. PICK y \in Ops(q) : y.id = x.id
    BY <1>9, <1>11 DEF Same
  <2>2. y.card = op.card /\ y \in First(s, n)
    BY <1>5, <1>10, <1>11, <2>1 DEF Identified
  <2>3. n + 1 <= Len(s)
    BY <1>4
  <2>4. r[y.id] < r[op.id]
    BY <1>3, <1>4, <2>2, <2>3, RankFirst
  <2> QED BY <2>1, <2>4
<1>12. /\ a \in Seq(E) /\ InRank(a, r)
       /\ \E N \in SUBSET E : /\ \A x \in N : x.card = c
                              /\ Absorbed(OnCard(F, c), op, N, r)
                              /\ Ops(a) = OffCard(F, c) \cup N
  BY <1>8, <1>9, <1>11, AbsorbIntoRank
<1>13. SortByTime(a) \in Seq(E) /\ Ops(SortByTime(a)) = Ops(a) /\ InRank(SortByTime(a), r)
  BY <1>12, SortFacts, RankStable, SortRank
<1> HIDE DEF F
<1> QED BY <1>2, <1>9, <1>10, <1>12, <1>13 DEF F

-----------------------------------------------------------------------------
(* What a merge leaves, whatever it was given: a queue that is proper, and  *)
(* in which no patch has another to fold with.                             *)

\* A command that is no patch stands between any two patches of a card.
Reduced(S, r) ==
    \A x, y \in S : x.card = y.card /\ x.kind = "patch" /\ y.kind = "patch" /\ r[x.id] < r[y.id] =>
        \E z \in S : z.card = x.card /\ z.kind # "patch" /\ r[x.id] < r[z.id] /\ r[z.id] < r[y.id]

\* Every operation of F is one of E.
Within(F, E) == F \subseteq E

\* op comes after the operations of F on its card.
Topmost(F, op, r) == \A x \in F : x.card = op.card => r[x.id] < r[op.id]

\* Absorbing an operation leaves a queue proper and reduced.
LEMMA ShapeStep ==
    ASSUME NEW E, Patching(E), NEW r, Ranked(E, r), NEW F, Within(F, E), Proper(F, r), Reduced(F, r),
           NEW op \in E, Topmost(F, op, r),
           NEW N, Within(N, E), Absorbed(OnCard(F, op.card), op, N, r)
    PROVE  /\ Proper(OffCard(F, op.card) \cup N, r)
           /\ Reduced(OffCard(F, op.card) \cup N, r)
           /\ \A y \in OffCard(F, op.card) \cup N : \E x \in F \cup {op} : x.id = y.id
<1> DEFINE c == op.card
           T == OffCard(F, c) \cup N
           Good == /\ Proper(T, r) /\ Reduced(T, r)
                   /\ \A y \in T : \E x \in F \cup {op} : x.id = y.id
<1>1. SUFFICES Good
  OBVIOUS
<1>2. F = OffCard(F, c) \cup OnCard(F, c) /\ \A x \in OnCard(F, c) : x \in F /\ x.card = c
  BY DEF OnCard, OffCard
<1> F \subseteq E /\ N \subseteq E
  BY DEF Within
<1>3. \A x \in E : r[x.id] \in Nat
  BY DEF Ranked
<1>0. \A x \in F : x.card = c => r[x.id] < r[op.id]
  BY DEF Topmost
<1>4. \A x \in F : x # op
  BY <1>0, <1>3
\* op is alone on its card.
<1>5. ASSUME N = {op} PROVE Good
  <2>1. \A x \in T : x = op \/ (x \in F /\ x.card # c)
    BY <1>5 DEF OffCard
  <2>2. op \in T /\ \A x \in F : x.card # c => x \in T
    BY <1>5 DEF OffCard
  <2> HIDE DEF T
  <2>3. Proper(T, r)
    BY <2>1 DEF Proper
  <2>4. Reduced(T, r)
    <3>1. SUFFICES ASSUME NEW x \in T, NEW y \in T, x.card = y.card, x.kind = "patch",
                          y.kind = "patch", r[x.id] < r[y.id]
                   PROVE  \E z \in T : z.card = x.card /\ z.kind # "patch"
                                       /\ r[x.id] < r[z.id] /\ r[z.id] < r[y.id]
      BY Zenon DEF Reduced
    <3>2. x \in F /\ y \in F /\ x.card # c
      BY <1>3, <2>1, <3>1
    <3>3. PICK z \in F : z.card = x.card /\ z.kind # "patch" /\ r[x.id] < r[z.id] /\ r[z.id] < r[y.id]
      BY <3>1, <3>2, Zenon DEF Reduced
    <3> QED BY <2>2, <3>2, <3>3
  <2> QED BY <2>1, <2>3, <2>4
\* op is refused.
<1>6. ASSUME N = OnCard(F, c) PROVE Good
  <2>1. T = F
    BY <1>2, <1>6
  <2> HIDE DEF T
  <2> QED BY <2>1
\* op is queued behind l, which is on top.
<1>7. ASSUME NEW l \in OnCard(F, c), \A x \in OnCard(F, c) : x = l \/ r[x.id] < r[l.id],
             l.kind # "delete", op.kind \notin {"create", "delete"},
             ~FoldsWith(l, op), N = OnCard(F, c) \cup {op}
      PROVE  Good
  <2>1. T = F \cup {op} /\ l \in F /\ l.card = c
    BY <1>2, <1>7
  <2>2. \A x \in F : x.card = c => x.kind # "delete"
    BY <2>1, <1>7 DEF Proper
  <2> HIDE DEF T
  <2>3. Proper(T, r)
    <3>1. SUFFICES ASSUME NEW x \in T, NEW y \in T, x.card = y.card, x # y
                   PROVE  x.kind # "delete" /\ (x.kind = "create" => r[x.id] < r[y.id])
      BY Zenon DEF Proper
    <3>2. CASE x \in F /\ y \in F
      BY <3>1, <3>2, Zenon DEF Proper
    <3>3. CASE x = op
      BY <1>7, <3>3
    <3>4. CASE x \in F /\ y = op
      BY <1>0, <2>2, <3>1, <3>4
    <3> QED BY <2>1, <3>2, <3>3, <3>4
  <2>4. Reduced(T, r)
    <3>1. SUFFICES ASSUME NEW x \in T, NEW y \in T, x.card = y.card, x.kind = "patch",
                          y.kind = "patch", r[x.id] < r[y.id]
                   PROVE  \E z \in T : z.card = x.card /\ z.kind # "patch"
                                       /\ r[x.id] < r[z.id] /\ r[z.id] < r[y.id]
      BY Zenon DEF Reduced
    <3>2. CASE x \in F /\ y \in F
      <4>1. \E z \in F : z.card = x.card /\ z.kind # "patch" /\ r[x.id] < r[z.id] /\ r[z.id] < r[y.id]
        BY <3>1, <3>2, Zenon DEF Reduced
      <4> QED BY <2>1, <4>1
    <3>3. CASE x \in F /\ y = op
      <4>1. l.kind # "patch"
        BY <1>7, <3>1, <3>3 DEF FoldsWith
      <4>2. x # l /\ x \in OnCard(F, c)
        BY <3>1, <3>3, <4>1 DEF OnCard
      <4>3. r[x.id] < r[l.id] /\ r[l.id] < r[op.id]
        BY <1>0, <1>7, <2>1, <4>2
      <4> QED BY <2>1, <3>1, <3>3, <4>1, <4>3
    <3>4. CASE x = op
      <4>1. r[op.id] \in Nat /\ r[y.id] \in Nat /\ (y = op \/ r[y.id] < r[op.id])
        BY <1>0, <1>3, <2>1, <3>1, <3>4
      <4> QED BY <3>1, <3>4, <4>1
    <3> QED BY <2>1, <3>2, <3>3, <3>4
  <2> QED BY <2>1, <2>3, <2>4
\* op takes in the patch l on top.
<1>8. ASSUME NEW l \in OnCard(F, c), \A x \in OnCard(F, c) : x = l \/ r[x.id] < r[l.id],
             FoldsWith(l, op), N = (OnCard(F, c) \ {l}) \cup {FoldPatch(l, op)}
      PROVE  Good
  <2> DEFINE n == FoldPatch(l, op)
  <2>1. l \in F /\ l.card = c /\ l.kind = "patch" /\ op.kind = "patch" /\ l \in E
    BY <1>2, <1>8 DEF FoldsWith
  <2>2. n \in E /\ n.kind = "patch" /\ n.id = op.id /\ n.card = c
    BY <2>1, Zenon DEF Patching
  <2>3. T = (F \ {l}) \cup {n}
    BY <1>2, <1>8, <2>1 DEF OffCard
  <2> HIDE DEF n, T
  <2>4. \A x \in F : x.card = c => r[x.id] < r[n.id] /\ (x = l \/ r[x.id] < r[l.id])
    BY <1>0, <1>8, <2>2 DEF OnCard
  <2>5. \A x \in F : x.card = c => x.kind # "delete"
    BY <2>1 DEF Proper
  <2>6. Proper(T, r)
    <3>1. SUFFICES ASSUME NEW x \in T, NEW y \in T, x.card = y.card, x # y
                   PROVE  x.kind # "delete" /\ (x.kind = "create" => r[x.id] < r[y.id])
      BY Zenon DEF Proper
    <3>2. CASE x \in F /\ y \in F
      BY <3>1, <3>2, Zenon DEF Proper
    <3>3. CASE x = n
      BY <2>2, <3>3
    <3>4. CASE x \in F /\ y = n
      BY <2>2, <2>4, <2>5, <3>1, <3>4
    <3> QED BY <2>3, <3>2, <3>3, <3>4
  <2>7. Reduced(T, r)
    <3>1. SUFFICES ASSUME NEW x \in T, NEW y \in T, x.card = y.card, x.kind = "patch",
                          y.kind = "patch", r[x.id] < r[y.id]
                   PROVE  \E z \in T : z.card = x.card /\ z.kind # "patch"
                                       /\ r[x.id] < r[z.id] /\ r[z.id] < r[y.id]
      BY Zenon DEF Reduced
    <3>2. CASE x \in F /\ y \in F
      <4>1. PICK z \in F : z.card = x.card /\ z.kind # "patch" /\ r[x.id] < r[z.id] /\ r[z.id] < r[y.id]
        BY <3>1, <3>2, Zenon DEF Reduced
      <4> QED BY <2>1, <2>3, <4>1
    <3>3. CASE x \in F \ {l} /\ y = n
      <4>1. x.card = l.card /\ r[x.id] < r[l.id]
        BY <2>1, <2>2, <2>4, <3>1, <3>3
      <4>2. PICK z \in F : z.card = x.card /\ z.kind # "patch" /\ r[x.id] < r[z.id] /\ r[z.id] < r[l.id]
        BY <2>1, <3>1, <3>3, <4>1, Zenon DEF Reduced
      <4>3. r[z.id] < r[n.id]
        BY <2>1, <2>4, <4>1, <4>2
      <4> QED BY <2>1, <2>3, <3>3, <4>2, <4>3
    <3>4. CASE x = n
      <4>1. r[n.id] \in Nat /\ r[y.id] \in Nat /\ (y = n \/ r[y.id] < r[n.id])
        BY <1>3, <2>2, <2>3, <2>4, <3>1, <3>4
      <4> QED BY <3>1, <3>4, <4>1
    <3> QED BY <2>3, <3>2, <3>3, <3>4
  <2> QED BY <2>2, <2>3, <2>6, <2>7
<1> HIDE DEF Good
<1> QED BY <1>5, <1>6, <1>7, <1>8 DEF Absorbed

\* An operation that leaves them proper and reduced is queued as it is.
LEMMA StayStep ==
    ASSUME NEW E, NEW r, Ranked(E, r), NEW S, Within(S, E), NEW op \in E,
           Proper(S \cup {op}, r), Reduced(S \cup {op}, r),
           Topmost(S, op, r),
           NEW N, Within(N, E), Absorbed(OnCard(S, op.card), op, N, r)
    PROVE  OffCard(S, op.card) \cup N = S \cup {op}
<1> DEFINE c == op.card
<1>1. S = OffCard(S, c) \cup OnCard(S, c) /\ \A x \in OnCard(S, c) : x \in S /\ x.card = c
  BY DEF OnCard, OffCard
<1> S \subseteq E /\ N \subseteq E
  BY DEF Within
<1>2. \A x \in E : r[x.id] \in Nat
  BY DEF Ranked
<1>0. \A x \in S : x.card = c => r[x.id] < r[op.id]
  BY DEF Topmost
<1>3. op \notin S
  BY <1>0, <1>2
<1>4. ASSUME NEW l \in OnCard(S, c), \A x \in OnCard(S, c) : x = l \/ r[x.id] < r[l.id]
      PROVE  l.kind # "delete" /\ op.kind \notin {"create", "delete"} /\ ~FoldsWith(l, op)
  <2>1. l \in S /\ l.card = c /\ l # op /\ r[l.id] < r[op.id] /\ r[l.id] \in Nat /\ r[op.id] \in Nat
    BY <1>0, <1>1, <1>2, <1>3, <1>4
  <2>2. l.kind # "delete" /\ op.kind # "delete" /\ op.kind # "create"
    BY <2>1 DEF Proper
  <2>3. ASSUME l.kind = "patch", op.kind = "patch" PROVE FALSE
    <3>0. l \in S \cup {op} /\ op \in S \cup {op} /\ l.card = op.card
      BY <2>1
    <3>1. PICK z \in S \cup {op} : z.card = l.card /\ z.kind # "patch"
                                   /\ r[l.id] < r[z.id] /\ r[z.id] < r[op.id]
      BY <2>1, <2>3, <3>0, Zenon DEF Reduced
    <3>2. z \in OnCard(S, c)
      BY <2>1, <2>3, <3>1 DEF OnCard
    <3>3. z # l /\ z \in E
      BY <1>1, <2>3, <3>1, <3>2
    <3>4. r[z.id] < r[l.id] /\ r[z.id] \in Nat
      BY <1>2, <1>4, <3>2, <3>3
    <3> QED BY <2>1, <3>1, <3>4
  <2> QED BY <2>2, <2>3 DEF FoldsWith
<1> QED BY <1>1, <1>4 DEF Absorbed

\* Absorbing a later operation leaves a proper and reduced queue so.
LEMMA AbsorbIntoShape ==
    ASSUME NEW E, Foldable(E), Patching(E), NEW r, Ranked(E, r),
           NEW q \in Seq(E), InRank(q, r), NEW op \in E, Topmost(Ops(q), op, r),
           Proper(Ops(q), r), Reduced(Ops(q), r)
    PROVE  /\ AbsorbInto(q, op) \in Seq(E) /\ InRank(AbsorbInto(q, op), r)
           /\ Proper(Ops(AbsorbInto(q, op)), r) /\ Reduced(Ops(AbsorbInto(q, op)), r)
           /\ \A y \in Ops(AbsorbInto(q, op)) : \E x \in Ops(q) \cup {op} : x.id = y.id
<1>1. Ops(q) \in SUBSET E /\ \A x \in Ops(q) : x.card = op.card => r[x.id] < r[op.id]
  BY OpsIn DEF Topmost
<1>2. /\ AbsorbInto(q, op) \in Seq(E) /\ InRank(AbsorbInto(q, op), r)
      /\ \E N \in SUBSET E : /\ Absorbed(OnCard(Ops(q), op.card), op, N, r)
                             /\ Ops(AbsorbInto(q, op)) = OffCard(Ops(q), op.card) \cup N
  BY <1>1, AbsorbIntoRank
<1>3. PICK N \in SUBSET E :
         /\ Absorbed(OnCard(Ops(q), op.card), op, N, r)
         /\ Ops(AbsorbInto(q, op)) = OffCard(Ops(q), op.card) \cup N
  BY <1>2
<1>4. /\ Proper(OffCard(Ops(q), op.card) \cup N, r)
      /\ Reduced(OffCard(Ops(q), op.card) \cup N, r)
      /\ \A y \in OffCard(Ops(q), op.card) \cup N : \E x \in Ops(q) \cup {op} : x.id = y.id
  <2>1. Within(Ops(q), E) /\ Within(N, E)
    BY <1>1 DEF Within
  <2> QED BY <1>3, <2>1, ShapeStep
<1> QED BY <1>2, <1>3, <1>4

\* Absorbing a later operation that leaves the queue so only adds it.
LEMMA AbsorbIntoStay ==
    ASSUME NEW E, Foldable(E), NEW r, Ranked(E, r),
           NEW q \in Seq(E), InRank(q, r), NEW op \in E, Topmost(Ops(q), op, r),
           Proper(Ops(q) \cup {op}, r), Reduced(Ops(q) \cup {op}, r)
    PROVE  /\ AbsorbInto(q, op) \in Seq(E) /\ InRank(AbsorbInto(q, op), r)
           /\ Ops(AbsorbInto(q, op)) = Ops(q) \cup {op}
<1>1. Ops(q) \in SUBSET E /\ \A x \in Ops(q) : x.card = op.card => r[x.id] < r[op.id]
  BY OpsIn DEF Topmost
<1>2. /\ AbsorbInto(q, op) \in Seq(E) /\ InRank(AbsorbInto(q, op), r)
      /\ \E N \in SUBSET E : /\ Absorbed(OnCard(Ops(q), op.card), op, N, r)
                             /\ Ops(AbsorbInto(q, op)) = OffCard(Ops(q), op.card) \cup N
  BY <1>1, AbsorbIntoRank
<1>3. PICK N \in SUBSET E :
         /\ Absorbed(OnCard(Ops(q), op.card), op, N, r)
         /\ Ops(AbsorbInto(q, op)) = OffCard(Ops(q), op.card) \cup N
  BY <1>2
<1>4. OffCard(Ops(q), op.card) \cup N = Ops(q) \cup {op}
  <2>1. Within(Ops(q), E) /\ Within(N, E)
    BY <1>1 DEF Within
  <2> QED BY <1>3, <2>1, StayStep
<1> QED BY <1>2, <1>3, <1>4

\* The first m of a ranked queue are absorbed to a queue that is proper and
\* reduced.
LEMMA AbsorbsShape ==
    ASSUME NEW E, Foldable(E), Patching(E), Identified(E), NEW r, Ranked(E, r),
           NEW q \in Seq(E), InRank(q, r),
           NEW f, AbsorbsAll(f, q, Len(q)), NEW m \in 0 .. Len(q)
    PROVE  /\ f[m] \in Seq(E) /\ InRank(f[m], r)
           /\ Proper(Ops(f[m]), r) /\ Reduced(Ops(f[m]), r)
           /\ \A y \in Ops(f[m]) : \E x \in First(q, m) : x.id = y.id
<1>1. Len(q) \in Nat /\ DOMAIN q = 1 .. Len(q) /\ \A j \in 1 .. Len(q) : q[j] \in E
  BY LenProperties, ElementOfSeq
<1>2. \A n \in 0 .. Len(q) : f[n] = IF n = 0 THEN <<>>
                                    ELSE AbsorbInto(f[n - 1], q[n])
  BY Zenon DEF AbsorbsAll
<1> DEFINE Right(k) == /\ f[k] \in Seq(E) /\ InRank(f[k], r)
                       /\ Proper(Ops(f[k]), r) /\ Reduced(Ops(f[k]), r)
                       /\ \A y \in Ops(f[k]) : \E x \in First(q, k) : x.id = y.id
           T == {k \in Nat : k <= Len(q) => Right(k)}
<1>3. 0 \in T
  <2>1. f[0] = <<>>
    BY <1>1, <1>2
  <2>2. f[0] \in Seq(E) /\ Ops(f[0]) = {} /\ InRank(f[0], r)
    BY <2>1, OpsOfEmpty DEF InRank
  <2> QED BY <2>2 DEF Proper, Reduced
<1>4. ASSUME NEW k \in Nat, k \in T PROVE k + 1 \in T
  <2>1. SUFFICES ASSUME k + 1 <= Len(q) PROVE Right(k + 1)
    OBVIOUS
  <2>2. Right(k) /\ k + 1 \in 0 .. Len(q) /\ k + 1 # 0 /\ q[k + 1] \in E
        /\ (k + 1) - 1 = k /\ k + 1 \in 1 .. Len(q)
    BY <1>1, <1>4, <2>1
  <2> DEFINE s == f[k]
             op == q[k + 1]
             S == First(q, k)
             F == Ops(s)
             a == AbsorbInto(s, op)
  <2>3. First(q, k + 1) = S \cup {op} /\ S \in SUBSET E
    BY <1>1, <2>1, <2>2 DEF First
  <2>4. f[k + 1] = a
    BY <1>2, <2>2
  <2>5. /\ s \in Seq(E) /\ op \in E /\ InRank(s, r) /\ Proper(F, r) /\ Reduced(F, r)
        /\ \A y \in F : \E x \in S : x.id = y.id
    BY <2>2
  <2>6. \A x \in S : x.card = op.card => r[x.id] < r[op.id]
    BY <2>2, RankFirst
  <2>7. F \in SUBSET E
    <3> HIDE DEF s
    <3> QED BY <2>5, OpsIn
  <2> HIDE DEF s, op, S, F, a
  <2>8. ASSUME NEW x \in F, x.card = op.card PROVE r[x.id] < r[op.id]
    <3>1. PICK y \in S : y.id = x.id
      BY <2>5
    <3>2. y.card = x.card
      BY <2>3, <2>7, <3>1 DEF Identified
    <3> QED BY <2>6, <2>8, <3>1, <3>2
  <2>9. Topmost(Ops(s), op, r)
    BY <2>8 DEF Topmost, F
  <2>11. /\ a \in Seq(E) /\ InRank(a, r) /\ Proper(Ops(a), r) /\ Reduced(Ops(a), r)
         /\ \A y \in Ops(a) : \E x \in F \cup {op} : x.id = y.id
    BY <2>5, <2>9, AbsorbIntoShape DEF a, F
  <2>12. \A y \in Ops(a) : \E x \in S \cup {op} : x.id = y.id
    BY <2>5, <2>11
  <2> QED BY <2>3, <2>4, <2>11, <2>12
<1> HIDE DEF T
<1>5. m \in T /\ m \in Nat /\ m <= Len(q)
  BY <1>1, <1>3, <1>4, SetInduction
<1> QED BY <1>5 DEF T

\* The first of a reduced queue are reduced.
LEMMA FirstReduced ==
    ASSUME NEW E, NEW r, Ranked(E, r), NEW q \in Seq(E), InRank(q, r), Reduced(Ops(q), r),
           NEW m \in 0 .. Len(q)
    PROVE  Reduced(First(q, m), r)
<1>1. Len(q) \in Nat /\ DOMAIN q = 1 .. Len(q) /\ Ops(q) \subseteq E
  BY LenProperties, OpsIn
<1>2. First(q, m) \subseteq Ops(q)
  BY <1>1 DEF First, Ops
<1> SUFFICES ASSUME NEW x \in First(q, m), NEW y \in First(q, m), x.card = y.card,
                    x.kind = "patch", y.kind = "patch", r[x.id] < r[y.id]
             PROVE  \E z \in First(q, m) : z.card = x.card /\ z.kind # "patch"
                                           /\ r[x.id] < r[z.id] /\ r[z.id] < r[y.id]
  BY Zenon DEF Reduced
<1>3. PICK z \in Ops(q) : z.card = x.card /\ z.kind # "patch" /\ r[x.id] < r[z.id] /\ r[z.id] < r[y.id]
  BY <1>2, Zenon DEF Reduced
<1>4. PICK i \in 1 .. m : q[i] = y
  BY DEF First
<1>5. PICK j \in DOMAIN q : q[j] = z
  BY DEF Ops
<1>6. ~(i < j)
  <2>1. SUFFICES ASSUME i < j PROVE FALSE
    OBVIOUS
  <2>2. Follows(q, y, z) /\ y \in Ops(q)
    BY <1>1, <1>2, <1>4, <1>5, <2>1 DEF Follows
  <2>3. r[y.id] < r[z.id] /\ r[y.id] \in Nat /\ r[z.id] \in Nat
    BY <1>1, <1>3, <2>2 DEF InRank, Ranked
  <2> QED BY <1>3, <2>3
<1>7. j \in 1 .. m
  BY <1>1, <1>4, <1>5, <1>6
<1>8. z \in First(q, m)
  BY <1>5, <1>7 DEF First
<1> QED BY <1>3, <1>8

\* The first m of a proper and reduced queue are absorbed to themselves.
LEMMA AbsorbsStay ==
    ASSUME NEW E, Foldable(E), Patching(E), Identified(E), NEW r, Ranked(E, r),
           NEW q \in Seq(E), InRank(q, r), Proper(Ops(q), r), Reduced(Ops(q), r),
           NEW f, AbsorbsAll(f, q, Len(q)), NEW m \in 0 .. Len(q)
    PROVE  f[m] \in Seq(E) /\ InRank(f[m], r) /\ Ops(f[m]) = First(q, m)
<1>1. Len(q) \in Nat /\ DOMAIN q = 1 .. Len(q) /\ \A j \in 1 .. Len(q) : q[j] \in E
  BY LenProperties, ElementOfSeq
<1>2. \A n \in 0 .. Len(q) : f[n] = IF n = 0 THEN <<>>
                                    ELSE AbsorbInto(f[n - 1], q[n])
  BY Zenon DEF AbsorbsAll
<1> DEFINE Right(k) == f[k] \in Seq(E) /\ InRank(f[k], r) /\ Ops(f[k]) = First(q, k)
           T == {k \in Nat : k <= Len(q) => Right(k)}
<1>3. 0 \in T
  <2>1. f[0] = <<>>
    BY <1>1, <1>2
  <2>2. First(q, 0) = {}
    BY DEF First
  <2>3. f[0] \in Seq(E) /\ Ops(f[0]) = {} /\ InRank(f[0], r)
    BY <2>1, OpsOfEmpty DEF InRank
  <2> QED BY <2>2, <2>3
<1>4. ASSUME NEW k \in Nat, k \in T PROVE k + 1 \in T
  <2>1. SUFFICES ASSUME k + 1 <= Len(q) PROVE Right(k + 1)
    OBVIOUS
  <2>2. Right(k) /\ k + 1 \in 0 .. Len(q) /\ k + 1 # 0 /\ q[k + 1] \in E
        /\ (k + 1) - 1 = k /\ k + 1 \in 1 .. Len(q)
    BY <1>1, <1>4, <2>1
  <2> DEFINE s == f[k]
             op == q[k + 1]
             S == First(q, k)
             a == AbsorbInto(s, op)
  <2>3. /\ First(q, k + 1) = S \cup {op} /\ S \in SUBSET E /\ First(q, k + 1) \subseteq Ops(q)
    <3>1. First(q, k + 1) = S \cup {op} /\ S \in SUBSET E
      BY <1>1, <2>1, <2>2 DEF First
    <3>2. First(q, k + 1) \subseteq Ops(q)
      BY <1>1, <2>1 DEF First, Ops
    <3> QED BY <3>1, <3>2
  <2>4. f[k + 1] = a
    BY <1>2, <2>2
  <2>5. s \in Seq(E) /\ op \in E /\ InRank(s, r) /\ Ops(s) = S
    BY <2>2
  <2>6. \A x \in S : x.card = op.card => r[x.id] < r[op.id]
    BY <2>2, RankFirst
  <2>7. Proper(First(q, k + 1), r) /\ Reduced(First(q, k + 1), r)
    BY <2>2, <2>3, ProperPart, FirstReduced
  <2> HIDE DEF s, op, S, a
  <2>8. Topmost(Ops(s), op, r)
    BY <2>5, <2>6 DEF Topmost
  <2>9. Proper(Ops(s) \cup {op}, r) /\ Reduced(Ops(s) \cup {op}, r)
    BY <2>3, <2>5, <2>7
  <2>10. a \in Seq(E) /\ InRank(a, r) /\ Ops(a) = Ops(s) \cup {op}
    BY <2>5, <2>8, <2>9, AbsorbIntoStay DEF a
  <2> QED BY <2>3, <2>4, <2>5, <2>10
<1> HIDE DEF T
<1>5. m \in T /\ m \in Nat /\ m <= Len(q)
  BY <1>1, <1>3, <1>4, SetInduction
<1> QED BY <1>5 DEF T

\* What may be sorted into rank is merged to a proper and reduced queue.
LEMMA MergeShape ==
    ASSUME NEW E, Timed(E), Foldable(E), Patching(E), Identified(E), NEW r, Ranked(E, r),
           NEW q \in Seq(E), Stable(q, r)
    PROVE  /\ Merge(q) \in Seq(E) /\ InRank(Merge(q), r)
           /\ Proper(Ops(Merge(q)), r) /\ Reduced(Ops(Merge(q)), r)
<1> DEFINE s == SortByTime(q)
           a == AbsorbAll(s)
<1>1. s \in Seq(E) /\ InRank(s, r)
  BY SortFacts, SortRank
<1>2. Merge(q) = SortByTime(a)
  BY Zenon DEF Merge
<1> HIDE DEF s
<1>3. Len(s) \in Nat /\ Len(s) \in 0 .. Len(s)
  BY <1>1, LenProperties
<1>4. PICK f : AbsorbsAll(f, s, Len(s)) /\ a = f[Len(s)]
  BY <1>3, AbsorbAllIs
<1>5. a \in Seq(E) /\ InRank(a, r) /\ Proper(Ops(a), r) /\ Reduced(Ops(a), r)
  BY <1>1, <1>3, <1>4, AbsorbsShape
<1> HIDE DEF a
<1>6. SortByTime(a) \in Seq(E) /\ Ops(SortByTime(a)) = Ops(a) /\ InRank(SortByTime(a), r)
  BY <1>5, SortFacts, RankStable, SortRank
<1> QED BY <1>2, <1>5, <1>6

\* Merging such a queue again loses and changes nothing.
LEMMA MergeStay ==
    ASSUME NEW E, Timed(E), Foldable(E), Patching(E), Identified(E), NEW r, Ranked(E, r),
           NEW q \in Seq(E), InRank(q, r), Proper(Ops(q), r), Reduced(Ops(q), r)
    PROVE  Ops(Merge(q)) = Ops(q)
<1> DEFINE s == SortByTime(q)
           a == AbsorbAll(s)
<1>1. s \in Seq(E) /\ InRank(s, r) /\ Ops(s) = Ops(q)
  BY SortFacts, RankStable, SortRank
<1>2. Merge(q) = SortByTime(a)
  BY Zenon DEF Merge
<1> HIDE DEF s
<1>3. Len(s) \in Nat /\ Len(s) \in 0 .. Len(s) /\ DOMAIN s = 1 .. Len(s)
  BY <1>1, LenProperties
<1>4. PICK f : AbsorbsAll(f, s, Len(s)) /\ a = f[Len(s)]
  BY <1>3, AbsorbAllIs
<1>5. First(s, Len(s)) = Ops(s)
  BY <1>3 DEF First, Ops
<1>6. a \in Seq(E) /\ Ops(a) = Ops(q)
  <2>1. Proper(Ops(s), r) /\ Reduced(Ops(s), r)
    BY <1>1
  <2>2. f[Len(s)] \in Seq(E) /\ Ops(f[Len(s)]) = First(s, Len(s))
    BY <1>1, <1>3, <1>4, <2>1, AbsorbsStay
  <2> QED BY <1>1, <1>4, <1>5, <2>2
<1> HIDE DEF a
<1>7. Ops(SortByTime(a)) = Ops(a)
  BY <1>6, SortFacts
<1> QED BY <1>2, <1>6, <1>7

\* What it makes of a queue that a merge left: nothing but the last operation
\* counts.
LEMMA MergeOnto ==
    ASSUME NEW E, Timed(E), Foldable(E), Patching(E), Identified(E), NEW r, Ranked(E, r),
           NEW q \in Seq(E), NEW op \in E, InRank(Append(q, op), r),
           Proper(Ops(q), r), Reduced(Ops(q), r), \A x \in Ops(q) : x.at <= op.at
    PROVE  \E N \in SUBSET E :
              /\ \A x \in N : x.card = op.card
              /\ Absorbed(OnCard(Ops(q), op.card), op, N, r)
              /\ Ops(Merge(Append(q, op))) = OffCard(Ops(q), op.card) \cup N
<1> DEFINE s == SortByTime(Append(q, op))
           a == AbsorbAll(s)
<1>1. PICK l \in Seq(E) : Ops(l) = Ops(q) /\ InRank(l, r) /\ s = Append(l, op)
  BY SortAppend
<1>2. Merge(Append(q, op)) = SortByTime(a)
  BY Zenon DEF Merge
<1>3. InRank(s, r)
  <2>1. Append(q, op) \in Seq(E)
    BY AppendProperties
  <2> DEFINE p == Append(q, op)
  <2>2. p \in Seq(E) /\ InRank(p, r)
    BY <2>1
  <2> HIDE DEF p
  <2>3. InRank(SortByTime(p), r)
    BY <2>2, RankStable, SortRank
  <2> QED BY <2>3 DEF p
<1> HIDE DEF s
<1> DEFINE n == Len(l)
           c == op.card
<1>4. /\ s \in Seq(E) /\ Len(s) = n + 1 /\ n \in Nat /\ DOMAIN l = 1 .. n
      /\ s[n + 1] = op /\ \A j \in 1 .. n : s[j] = l[j]
  BY <1>1, AppendProperties, LenProperties
<1>5. PICK f : AbsorbsAll(f, s, Len(s)) /\ a = f[Len(s)]
  BY <1>4, AbsorbAllIs
<1>6. \A k \in 0 .. Len(s) : f[k] = IF k = 0 THEN <<>>
                                    ELSE AbsorbInto(f[k - 1], s[k])
  BY <1>5, Zenon DEF AbsorbsAll
<1> DEFINE g == [k \in 0 .. n |-> f[k]]
           b == g[n]
<1>7. a = AbsorbInto(b, op)
  <2>1. n + 1 \in 0 .. Len(s) /\ n + 1 # 0 /\ (n + 1) - 1 = n /\ n \in 0 .. n
    BY <1>4
  <2> QED BY <1>4, <1>5, <1>6, <2>1
<1>8. AbsorbsAll(g, l, Len(l))
  <2>1. ASSUME NEW k \in 0 .. n
        PROVE  g[k] = IF k = 0 THEN <<>> ELSE AbsorbInto(g[k - 1], l[k])
    <3>1. k \in 0 .. Len(s) /\ f[k] = g[k]
      BY <1>4
    <3>2. CASE k = 0
      BY <1>6, <3>1, <3>2
    <3>3. CASE k # 0
      <4>1. k - 1 \in 0 .. n /\ s[k] = l[k]
        BY <1>4, <3>3
      <4>2. g[k - 1] = f[k - 1]
        BY <4>1
      <4> QED BY <1>6, <3>1, <3>3, <4>1, <4>2
    <3> QED BY <3>2, <3>3
  <2>2. g = [k \in 0 .. n |-> IF k = 0 THEN <<>> ELSE AbsorbInto(g[k - 1], l[k])]
    BY <2>1
  <2> HIDE DEF g
  <2> QED BY <2>2 DEF AbsorbsAll
<1> HIDE DEF g
<1>9. b \in Seq(E) /\ InRank(b, r) /\ Ops(b) = Ops(q)
  <2>1. n \in 0 .. Len(l) /\ First(l, n) = Ops(l)
    BY <1>4 DEF First, Ops
  <2>2. Proper(Ops(l), r) /\ Reduced(Ops(l), r)
    BY <1>1
  <2>3. g[n] \in Seq(E) /\ InRank(g[n], r) /\ Ops(g[n]) = First(l, n)
    BY <1>1, <1>8, <2>1, <2>2, AbsorbsStay
  <2> QED BY <1>1, <2>1, <2>3
<1> HIDE DEF b, a
<1>10. ASSUME NEW x \in Ops(b), x.card = c PROVE r[x.id] < r[op.id]
  <2>1. x \in First(s, n)
    BY <1>1, <1>4, <1>9, <1>10 DEF First, Ops
  <2>2. n + 1 <= Len(s)
    BY <1>4
  <2> QED BY <1>3, <1>4, <1>10, <2>1, <2>2, RankFirst
<1>11. /\ a \in Seq(E)
       /\ \E N \in SUBSET E : /\ \A x \in N : x.card = c
                              /\ Absorbed(OnCard(Ops(b), c), op, N, r)
                              /\ Ops(a) = OffCard(Ops(b), c) \cup N
  BY <1>7, <1>9, <1>10, AbsorbIntoRank
<1>12. Ops(SortByTime(a)) = Ops(a)
  BY <1>11, SortFacts
<1> QED BY <1>2, <1>9, <1>11, <1>12

\* Every operation of S is on the card c.
OneCard(S, c) == \A x \in S : x.card = c

\* Two ranked queues of a card that hold the same operations are the same.
LEMMA SameOrder ==
    ASSUME NEW E, NEW r, Ranked(E, r), NEW s \in Seq(E), NEW t \in Seq(E), InRank(s, r), InRank(t, r),
           Ops(s) = Ops(t), NEW c, OneCard(Ops(s), c)
    PROVE  s = t
<1>1. /\ Len(s) \in Nat /\ Len(t) \in Nat /\ DOMAIN s = 1 .. Len(s) /\ DOMAIN t = 1 .. Len(t)
      /\ Ops(s) \subseteq E
  BY LenProperties, OpsIn
<1>2. \A i, j \in DOMAIN s : i < j => r[s[i].id] < r[s[j].id]
  BY DEF InRank, Follows, Ops, OneCard
<1>3. \A i, j \in DOMAIN t : i < j => r[t[i].id] < r[t[j].id]
  BY DEF InRank, Follows, Ops, OneCard
<1>4. (\A i \in DOMAIN s : r[s[i].id] \in Nat) /\ \A i \in DOMAIN t : r[t[i].id] \in Nat
  BY <1>1 DEF Ops, Ranked
<1>5. /\ \A i \in DOMAIN s : \E j \in DOMAIN t : t[j] = s[i]
      /\ \A j \in DOMAIN t : \E i \in DOMAIN s : s[i] = t[j]
  BY DEF Ops
<1> DEFINE Alike(n) == \A i \in 1 .. n : (i <= Len(s) <=> i <= Len(t)) /\ (i <= Len(s) => s[i] = t[i])
           T == {n \in Nat : Alike(n)}
<1>6. 0 \in T
  OBVIOUS
<1>7. ASSUME NEW n \in Nat, n \in T PROVE n + 1 \in T
  <2>1. Alike(n)
    BY <1>7
  <2>2. ASSUME n + 1 <= Len(s) PROVE n + 1 <= Len(t) /\ s[n + 1] = t[n + 1]
    <3>1. n + 1 \in DOMAIN s
      BY <1>1, <2>2
    <3>2. PICK j \in DOMAIN t : t[j] = s[n + 1]
      BY <1>5, <3>1
    <3>3. ~(j <= n)
      <4>1. SUFFICES ASSUME j <= n PROVE FALSE
        OBVIOUS
      <4>2. j \in DOMAIN s /\ s[j] = t[j] /\ j < n + 1
        BY <1>1, <2>1, <2>2, <4>1
      <4> QED BY <1>2, <1>4, <3>1, <3>2, <4>2
    <3>4. n + 1 \in DOMAIN t
      BY <1>1, <3>2, <3>3
    <3>5. PICK i \in DOMAIN s : s[i] = t[n + 1]
      BY <1>5, <3>4
    <3>6. ~(i <= n)
      <4>1. SUFFICES ASSUME i <= n PROVE FALSE
        OBVIOUS
      <4>2. i \in DOMAIN t /\ s[i] = t[i] /\ i < n + 1
        BY <1>1, <2>1, <3>4, <4>1
      <4>3. t[i] = t[n + 1] /\ r[t[i].id] < r[t[n + 1].id]
        BY <1>3, <3>4, <3>5, <4>2
      <4>4. r[t[n + 1].id] \in Nat
        BY <1>4, <3>4
      <4> QED BY <4>3, <4>4
    <3>7. ~(n + 1 < j)
      <4>1. SUFFICES ASSUME n + 1 < j PROVE FALSE
        OBVIOUS
      <4>2. r[t[n + 1].id] < r[t[j].id]
        BY <1>3, <3>4, <4>1
      <4>3. r[s[i].id] < r[s[n + 1].id]
        BY <3>2, <3>5, <4>2
      <4>4. ~(n + 1 < i) /\ i # n + 1
        BY <1>2, <1>4, <3>1, <4>3
      <4> QED BY <1>1, <3>6, <4>4
    <3>8. j = n + 1
      BY <1>1, <3>3, <3>7
    <3> QED BY <1>1, <3>2, <3>4, <3>8
  <2>3. ASSUME n + 1 <= Len(t) PROVE n + 1 <= Len(s)
    <3>1. n + 1 \in DOMAIN t
      BY <1>1, <2>3
    <3>2. PICK i \in DOMAIN s : s[i] = t[n + 1]
      BY <1>5, <3>1
    <3>3. ~(i <= n)
      <4>1. SUFFICES ASSUME i <= n PROVE FALSE
        OBVIOUS
      <4>2. i \in DOMAIN t /\ s[i] = t[i] /\ i < n + 1
        BY <1>1, <2>1, <3>1, <4>1
      <4>3. t[i] = t[n + 1] /\ r[t[i].id] < r[t[n + 1].id]
        BY <1>3, <3>1, <3>2, <4>2
      <4>4. r[t[n + 1].id] \in Nat
        BY <1>4, <3>1
      <4> QED BY <4>3, <4>4
    <3> QED BY <1>1, <3>3
  <2>4. Alike(n + 1)
    BY <2>1, <2>2, <2>3
  <2> QED BY <2>4
<1> HIDE DEF T
<1>8. \A n \in Nat : Alike(n)
  BY <1>6, <1>7, SetInduction DEF T
<1> DEFINE n == IF Len(s) <= Len(t) THEN Len(t) ELSE Len(s)
<1>9. Alike(n) /\ n \in Nat /\ Len(s) <= n /\ Len(t) <= n
  BY <1>1, <1>8
<1> HIDE DEF n
<1>10. Len(s) = Len(t)
  <2>1. ASSUME Len(s) < Len(t) PROVE FALSE
    <3>1. Len(t) \in 1 .. n
      BY <1>1, <1>9, <2>1
    <3>2. Len(t) <= Len(s) <=> Len(t) <= Len(t)
      BY <1>9, <3>1
    <3> QED BY <1>1, <2>1, <3>2
  <2>2. ASSUME Len(t) < Len(s) PROVE FALSE
    <3>1. Len(s) \in 1 .. n
      BY <1>1, <1>9, <2>2
    <3>2. Len(s) <= Len(s) <=> Len(s) <= Len(t)
      BY <1>9, <3>1
    <3> QED BY <1>1, <2>2, <3>2
  <2>3. Len(s) \in Nat /\ Len(t) \in Nat
    BY <1>1
  <2> QED BY ONLY <2>1, <2>2, <2>3
<1>11. \A i \in 1 .. Len(s) : s[i] = t[i]
  BY <1>1, <1>9
<1> QED BY <1>10, <1>11, SeqEqual
=============================================================================
