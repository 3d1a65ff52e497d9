------------------------------- MODULE Lemmas -------------------------------
(***************************************************************************)
(* What the proofs about several components need of numbers, finite sets   *)
(* and sequences.  The induction theorems of the library take the property *)
(* as an operator; here it is a set, and what they prove is proved from a  *)
(* least counterexample.                                                   *)
(***************************************************************************)
EXTENDS Integers, Sequences, FiniteSets, SequencesExt,
        FiniteSetTheorems, WellFoundedInduction, TLAPS

(* Numbers, and functions defined by recursion over them *)

LEMMA LeastNumber ==
    ASSUME NEW T \in SUBSET Nat, T # {}
    PROVE  \E n \in T : \A m \in T : n <= m
<1>1. ASSUME NEW R, IsWellFoundedOn(R, Nat)
      PROVE  \E n \in T : \A m \in T : ~ (<<m, n>> \in R)
  BY <1>1, WFMin
<1>2. IsWellFoundedOn(OpToRel(<, Nat), Nat)
  BY NatLessThanWellFounded
<1>3. OpToRel(<, Nat) = {ss \in Nat \X Nat : ss[1] < ss[2]}
  BY Zenon DEF OpToRel
<1>4. PICK R : R = {ss \in Nat \X Nat : ss[1] < ss[2]}
  OBVIOUS
<1>5. IsWellFoundedOn(R, Nat)
  BY <1>2, <1>3, <1>4, Zenon
<1>6. PICK n \in T : \A m \in T : ~ (<<m, n>> \in R)
  BY <1>1, <1>5, Zenon
<1>7. ASSUME NEW m \in T PROVE n <= m
  <2>1. m \in Nat /\ n \in Nat /\ ~ (<<m, n>> \in R)
    BY <1>6
  <2> QED
    BY <1>4, <2>1
<1> QED
  BY <1>7

LEMMA GreatestNumber ==
    ASSUME NEW n \in Nat, NEW K \in SUBSET (0..n), K # {}
    PROVE  \E k \in K : \A l \in K : l <= k
<1> DEFINE U == {m \in Nat : \A l \in K : l <= m}
<1>1. U # {} /\ U \in SUBSET Nat
  OBVIOUS
<1> HIDE DEF U
<1>2. PICK m \in U : \A l \in U : m <= l
  BY <1>1, LeastNumber
<1>3. m \in Nat /\ \A l \in K : l \in Nat /\ l <= m
  BY <1>2 DEF U
<1>4. m \in K
  <2> SUFFICES ASSUME m \notin K PROVE FALSE
    OBVIOUS
  <2>1. \A l \in K : l # m /\ l <= m - 1
    BY <1>3
  <2>2. m - 1 \in Nat
    <3>1. PICK l \in K : l \in Nat /\ l <= m - 1
      BY <1>3, <2>1
    <3> QED
      BY <1>3, <3>1
  <2>3. m - 1 \in U
    BY <2>1, <2>2 DEF U
  <2> QED
    BY <1>2, <1>3, <2>3
<1> QED
  BY <1>3, <1>4

\* What holds of 0 and passes to the next number holds up to N: otherwise it
\* would fail for a least one.
LEMMA UpTo ==
    ASSUME NEW N \in Nat, NEW T, 0 \in T, \A n \in 0..(N - 1) : n \in T => n + 1 \in T
    PROVE  0..N \subseteq T
<1> SUFFICES ASSUME (0..N) \ T # {} PROVE FALSE
  OBVIOUS
<1> DEFINE U == (0..N) \ T
<1>1. PICK n \in U : \A m \in U : n <= m
  <2>1. U \in SUBSET Nat /\ U # {}
    OBVIOUS
  <2> HIDE DEF U
  <2> QED
    BY <2>1, LeastNumber
<1>2. n - 1 \in 0..(N - 1) /\ n - 1 \in 0..N /\ n \in Nat /\ n - 1 \in T
  BY <1>1
<1> QED
  BY <1>1, <1>2

\* A function on 0..N defined from its value one before exists.
Follows(f, N, first, step) ==
    f = [n \in 0..N |-> IF n = 0 THEN first ELSE step[<<n, f[n - 1]>>]]

LEMMA Recursion ==
    ASSUME NEW N \in Nat, NEW V, NEW first \in V, NEW step \in [(1..N) \X V -> V]
    PROVE  \E f \in [0..N -> V] : Follows(f, N, first, step)
<1> DEFINE T == {m \in 0..N : \E f \in [0..m -> V] : Follows(f, m, first, step)}
<1>1. 0 \in T
  <2>1. [n \in 0..0 |-> first] \in [0..0 -> V] /\ 0 \in 0..N
    OBVIOUS
  <2>2. Follows([n \in 0..0 |-> first], 0, first, step)
    BY DEF Follows
  <2> QED
    BY <2>1, <2>2
<1>2. ASSUME NEW m \in 0..(N - 1), m \in T PROVE m + 1 \in T
  <2>1. PICK f \in [0..m -> V] : Follows(f, m, first, step)
    BY <1>2
  <2> DEFINE g == [n \in 0..(m + 1) |->
                      IF n = m + 1 THEN step[<<m + 1, f[m]>>] ELSE f[n]]
  <2>2. g \in [0..(m + 1) -> V]
    BY <2>1
  <2>3. ASSUME NEW n \in 0..(m + 1)
        PROVE  g[n] = IF n = 0 THEN first ELSE step[<<n, g[n - 1]>>]
    <3>1. CASE n = m + 1
      <4>1. n # 0 /\ n - 1 = m /\ m # m + 1 /\ m \in 0..(m + 1)
        BY <3>1
      <4>2. g[m] = f[m] /\ g[m + 1] = step[<<m + 1, f[m]>>]
        BY <4>1
      <4> HIDE DEF g
      <4> QED
        BY <3>1, <4>1, <4>2
    <3>2. CASE n \in 0..m
      BY <2>1, <3>2 DEF Follows
    <3> QED
      BY <3>1, <3>2
  <2>4. Follows(g, m + 1, first, step)
    BY <2>2, <2>3 DEF Follows
  <2> QED
    BY <2>2, <2>4
<1> HIDE DEF T
<1>3. N \in T
  BY <1>1, <1>2, UpTo
<1> QED
  BY <1>3 DEF T

-----------------------------------------------------------------------------
(* Finite sets *)

\* A property of the finite subsets of S that passes from the smaller ones to
\* a set holds of all: otherwise it would fail for one of least cardinality.
LEMMA SubsetInduction ==
    \A S, Good :
       IsFiniteSet(S) /\ (\A s \in SUBSET S : (\A x \in s : s \ {x} \in Good) => s \in Good)
         => SUBSET S \subseteq Good
<1> SUFFICES ASSUME NEW S, IsFiniteSet(S), NEW Good,
           \A s \in SUBSET S : (\A x \in s : s \ {x} \in Good) => s \in Good
    PROVE  SUBSET S \subseteq Good
  OBVIOUS
<1>1. SUFFICES ASSUME NEW b \in SUBSET S, b \notin Good PROVE FALSE
  OBVIOUS
<1> DEFINE Sizes == {n \in Nat : \E s \in SUBSET S : s \notin Good /\ Cardinality(s) = n}
<1>2. \A s \in SUBSET S : IsFiniteSet(s) /\ Cardinality(s) \in Nat
  BY FS_Subset, FS_CardinalityType
<1>3. PICK n \in Sizes : \A m \in Sizes : n <= m
  <2>1. Cardinality(b) \in Sizes
    BY <1>1, <1>2
  <2> QED
    BY <2>1, LeastNumber
<1>4. PICK s \in SUBSET S : s \notin Good /\ Cardinality(s) = n
  OBVIOUS
<1>5. ASSUME NEW x \in s PROVE s \ {x} \in Good
  <2>1. Cardinality(s \ {x}) = n - 1 /\ n \in Nat
    BY <1>2, <1>4, FS_RemoveElement
  <2>2. s \ {x} \in SUBSET S /\ Cardinality(s \ {x}) \in Nat
    BY <1>2
  <2> QED
    BY <1>3, <2>1, <2>2
<1> QED
  BY <1>4, <1>5

LEMMA Greatest ==
    ASSUME NEW T \in SUBSET Nat, T # {}, IsFiniteSet(T)
    PROVE  \E n \in T : \A m \in T : n >= m
<1> DEFINE Good == {t \in SUBSET T : t # {} => \E n \in t : \A m \in t : n >= m}
<1>1. ASSUME NEW s \in SUBSET T, \A x \in s : s \ {x} \in Good PROVE s \in Good
  <2> SUFFICES ASSUME s # {} PROVE \E n \in s : \A m \in s : n >= m
    OBVIOUS
  <2>1. PICK x \in s : TRUE
    OBVIOUS
  <2>2. CASE s \ {x} = {}
    BY <2>2
  <2>3. CASE s \ {x} # {}
    <3>1. PICK n \in s \ {x} : \A m \in s \ {x} : n >= m
      BY <1>1, <2>3
    <3>2. n \in Nat /\ x \in Nat /\ \A m \in s : m \in Nat /\ (m = x \/ n >= m)
      BY <3>1
    <3>3. CASE n >= x
      BY <3>2, <3>3
    <3>4. CASE x >= n
      <4>1. \A m \in s : x >= m
        BY <3>2, <3>4
      <4> QED
        BY <4>1
    <3> QED
      BY <3>2, <3>3, <3>4
  <2> QED
    BY <2>2, <2>3
<1> HIDE DEF Good
<1>2. SUBSET T \subseteq Good
  BY <1>1, SubsetInduction
<1> QED
  BY <1>2 DEF Good

LEMMA FirstNumbers ==
    ASSUME NEW n \in Nat
    PROVE  IsFiniteSet(1..n) /\ Cardinality(1..n) = n
<1>1. 1 \in Int /\ n \in Int /\ ~(1 > n /\ n # 0)
  OBVIOUS
<1>2. IsFiniteSet(1..n) /\ Cardinality(1..n) = IF 1 > n THEN 0 ELSE n - 1 + 1
  BY <1>1, FS_Interval
<1> QED
  BY <1>2

\* How many numbers of S are below n.
Rank(S, n) == Cardinality({m \in S : m < n})

\* The ranks of the numbers of S differ, and are those from 0 on.
LEMMA Ranks ==
    ASSUME NEW S \in SUBSET Nat, IsFiniteSet(S)
    PROVE  /\ Cardinality(S) \in Nat
           /\ \A n \in S : Rank(S, n) \in 0..(Cardinality(S) - 1)
           /\ \A m, n \in S : Rank(S, m) = Rank(S, n) => m = n
<1>1. ASSUME NEW n \in Nat
      PROVE  /\ IsFiniteSet({m \in S : m < n}) /\ Rank(S, n) \in Nat
             /\ Rank(S, n) <= Cardinality(S)
  <2>1. {m \in S : m < n} \in SUBSET S
    OBVIOUS
  <2> QED
    BY <2>1, FS_Subset, FS_CardinalityType DEF Rank
<1>2. ASSUME NEW n \in S, NEW k \in Nat, k = n + 1
      PROVE  Rank(S, k) = Rank(S, n) + 1
  <2>2. n \in Nat
    OBVIOUS
  <2>3. \A m \in S : m \in Nat
    OBVIOUS
  <2>4. \A m \in S : m < k <=> m < n \/ m = n
    BY <1>2, <2>2, <2>3
  <2>5. ~ (n < n)
    BY <2>2
  <2>1. {m \in S : m < k} = {m \in S : m < n} \cup {n} /\ n \notin {m \in S : m < n}
    BY <2>4, <2>5, Zenon
  <2> QED
    BY <1>1, <2>1, <2>2, FS_AddElement DEF Rank
<1>3. ASSUME NEW m \in Nat, NEW n \in Nat, m <= n PROVE Rank(S, m) <= Rank(S, n)
  <2>2. \A i \in S : i < m => i < n
    <3>1. ASSUME NEW i \in S, i < m PROVE i < n
      <4>1. i \in Nat
        OBVIOUS
      <4> QED
        BY <1>3, <3>1, <4>1
    <3> QED
      BY <3>1
  <2>1. {i \in S : i < m} \in SUBSET {i \in S : i < n}
    BY <2>2
  <2> QED
    BY <1>1, <2>1, FS_Subset DEF Rank
<1>4. ASSUME NEW m \in S, NEW n \in S, m < n PROVE Rank(S, m) < Rank(S, n)
  <2>1. /\ m + 1 \in Nat /\ m + 1 <= n /\ n \in Nat /\ m \in Nat
        /\ Rank(S, m + 1) = Rank(S, m) + 1
    BY <1>2, <1>4
  <2>2. Rank(S, m) \in Nat /\ Rank(S, n) \in Nat
    BY <1>1, <2>1
  <2>3. Rank(S, m + 1) <= Rank(S, n)
    BY <1>3, <2>1
  <2> QED
    BY <2>1, <2>2, <2>3
<1>5. ASSUME NEW n \in S PROVE Rank(S, n) + 1 <= Cardinality(S)
  <2>1. n \in Nat /\ n + 1 \in Nat
    OBVIOUS
  <2> QED
    BY <1>1, <1>2, <2>1
<1>6. Cardinality(S) \in Nat
  BY FS_CardinalityType
<1>7. ASSUME NEW n \in S PROVE Rank(S, n) \in 0..(Cardinality(S) - 1)
  <2>1. Rank(S, n) \in Nat
    BY <1>1
  <2> QED
    BY <1>5, <1>6, <2>1
<1>8. ASSUME NEW m \in S, NEW n \in S, Rank(S, m) = Rank(S, n) PROVE m = n
  <2>1. m \in Nat /\ n \in Nat /\ Rank(S, m) \in Nat
    BY <1>1
  <2> QED
    BY <1>4, <1>8, <2>1
<1> QED
  BY <1>6, <1>7, <1>8

\* At most n numbers have fewer than n below them.
LEMMA FirstFew ==
    ASSUME NEW S \in SUBSET Nat, IsFiniteSet(S), NEW n \in Nat
    PROVE  /\ IsFiniteSet({m \in S : Rank(S, m) < n})
           /\ Cardinality({m \in S : Rank(S, m) < n}) \in Nat
           /\ Cardinality({m \in S : Rank(S, m) < n}) <= n
<1> DEFINE A == {m \in S : Rank(S, m) < n}
           f == [m \in A |-> Rank(S, m) + 1]
<1>1. A \in SUBSET S /\ \A m \in A : Rank(S, m) \in Nat /\ Rank(S, m) < n
  BY Ranks
<1>2. IsFiniteSet(A) /\ Cardinality(A) \in Nat
  BY <1>1, FS_Subset, FS_CardinalityType
<1> HIDE DEF A
<1>3. f \in [A -> 1..n]
  BY <1>1
<1>4. \A g, h \in A : f[g] = f[h] => g = h
  <2> SUFFICES ASSUME NEW g \in A, NEW h \in A, f[g] = f[h] PROVE g = h
    OBVIOUS
  <2>1. Rank(S, g) = Rank(S, h)
    BY <1>1
  <2> QED
    BY <1>1, <2>1, Ranks
<1>5. f \in Injection(A, 1..n)
  BY <1>3, <1>4 DEF Injection, IsInjective
<1>6. Cardinality(A) <= n
  <2> HIDE DEF f
  <2> QED
    BY <1>5, FirstNumbers, FS_Injection
<1> QED
  BY <1>2, <1>6 DEF A

-----------------------------------------------------------------------------
(* Sequences *)

LEMMA Items ==
    ASSUME NEW V, NEW s \in Seq(V)
    PROVE  /\ Len(s) \in Nat /\ DOMAIN s = 1..Len(s)
           /\ ToSet(s) = {s[n] : n \in 1..Len(s)} /\ ToSet(s) \in SUBSET V
BY DEF ToSet

\* A sequence without repetitions is as long as its set is large.
LEMMA DistinctItems ==
    ASSUME NEW V, NEW s \in Seq(V), IsInjective(s)
    PROVE  IsFiniteSet(ToSet(s)) /\ Cardinality(ToSet(s)) = Len(s)
<1>1. s \in Bijection(1..Len(s), ToSet(s))
  <2>1. s \in [1..Len(s) -> ToSet(s)]
    BY Items
  <2>2. \A x \in ToSet(s) : \E n \in 1..Len(s) : s[n] = x
    BY Items
  <2>3. \A m, n \in 1..Len(s) : s[m] = s[n] => m = n
    BY Items DEF IsInjective
  <2> QED
    BY <2>1, <2>2, <2>3 DEF Bijection, Injection, Surjection, IsInjective
<1>2. ExistsBijection(1..Len(s), ToSet(s))
  BY <1>1 DEF ExistsBijection
<1>3. IsFiniteSet(1..Len(s)) /\ Cardinality(1..Len(s)) = Len(s)
  BY Items, FirstNumbers
<1> QED
  BY <1>2, <1>3, FS_Bijection

LEMMA TailItems ==
    ASSUME NEW V, NEW s \in Seq(V), IsInjective(s), s # <<>>
    PROVE  /\ Head(s) \in V /\ Head(s) \in ToSet(s)
           /\ Tail(s) \in Seq(V) /\ IsInjective(Tail(s))
           /\ ToSet(Tail(s)) = ToSet(s) \ {Head(s)}
<1>1. /\ Len(s) \in Nat /\ Len(s) # 0 /\ Head(s) = s[1] /\ Head(s) \in V
      /\ Tail(s) \in Seq(V) /\ Len(Tail(s)) = Len(s) - 1
      /\ \A n \in 1..(Len(s) - 1) : Tail(s)[n] = s[n + 1]
  OBVIOUS
<1>2. \A m, n \in 1..Len(s) : s[m] = s[n] => m = n
  BY Items DEF IsInjective
<1>3. DOMAIN Tail(s) = 1..(Len(s) - 1)
  BY <1>1, Items
<1>4. IsInjective(Tail(s))
  <2> SUFFICES ASSUME NEW m \in 1..(Len(s) - 1), NEW n \in 1..(Len(s) - 1),
                      Tail(s)[m] = Tail(s)[n]
               PROVE  m = n
    BY <1>3 DEF IsInjective
  <2>1. m + 1 \in 1..Len(s) /\ n + 1 \in 1..Len(s) /\ s[m + 1] = s[n + 1]
    BY <1>1
  <2>2. m + 1 = n + 1
    BY <1>2, <2>1
  <2> QED
    BY <2>2
<1>5. 1 \in 1..Len(s)
  BY <1>1
<1>6. ASSUME NEW x \in ToSet(Tail(s)) PROVE x \in ToSet(s) /\ x # Head(s)
  <2>1. PICK n \in 1..(Len(s) - 1) : x = Tail(s)[n]
    BY <1>3 DEF ToSet
  <2>2. n + 1 \in 1..Len(s) /\ x = s[n + 1] /\ n + 1 # 1
    BY <1>1, <2>1
  <2> QED
    BY <1>1, <1>2, <1>5, <2>2, Items
<1>7. ASSUME NEW x \in ToSet(s), x # Head(s) PROVE x \in ToSet(Tail(s))
  <2>1. PICK n \in 1..Len(s) : x = s[n]
    BY Items
  <2>2. n # 1
    BY <1>1, <1>7, <2>1
  <2>3. n - 1 \in 1..(Len(s) - 1) /\ (n - 1) + 1 = n
    BY <1>1, <2>2
  <2>4. x = Tail(s)[n - 1]
    BY <1>1, <2>1, <2>3
  <2> QED
    BY <1>3, <2>3, <2>4 DEF ToSet
<1> QED
  BY <1>1, <1>4, <1>5, <1>6, <1>7, Items

LEMMA JoinedItems ==
    ASSUME NEW V, NEW s \in Seq(V), NEW q \in Seq(V),
           IsInjective(s), IsInjective(q), ToSet(s) \cap ToSet(q) = {}
    PROVE  /\ s \o q \in Seq(V) /\ IsInjective(s \o q)
           /\ ToSet(s \o q) = ToSet(s) \cup ToSet(q)
<1> DEFINE j == s \o q
           M == Len(s)
           N == Len(q)
<1>1. /\ M \in Nat /\ N \in Nat /\ j \in Seq(V) /\ Len(j) = M + N
      /\ DOMAIN j = 1..(M + N)
      /\ \A n \in 1..M : j[n] = s[n]
      /\ \A n \in (M + 1)..(M + N) : j[n] = q[n - M]
  OBVIOUS
<1> HIDE DEF j
<1>2. /\ \A n \in 1..M : s[n] \in ToSet(s)
      /\ \A n \in 1..N : q[n] \in ToSet(q)
      /\ \A m, n \in 1..M : s[m] = s[n] => m = n
      /\ \A m, n \in 1..N : q[m] = q[n] => m = n
  BY Items DEF IsInjective
<1>3. ASSUME NEW n \in 1..(M + N)
      PROVE  \/ n \in 1..M /\ j[n] = s[n] /\ j[n] \in ToSet(s)
             \/ n - M \in 1..N /\ n \in (M + 1)..(M + N) /\ j[n] = q[n - M] /\ j[n] \in ToSet(q)
  <2>1. n \in 1..M \/ (n \in (M + 1)..(M + N) /\ n - M \in 1..N)
    BY <1>1
  <2> QED
    BY <1>1, <1>2, <2>1
<1>4. ASSUME NEW m \in 1..(M + N), NEW n \in 1..(M + N), j[m] = j[n] PROVE m = n
  <2>1. CASE m \in 1..M /\ j[m] = s[m] /\ j[m] \in ToSet(s)
    <3>1. n \in 1..M /\ j[n] = s[n]
      BY <1>3, <1>4, <2>1
    <3> QED
      BY <1>2, <1>4, <2>1, <3>1
  <2>2. CASE m - M \in 1..N /\ j[m] = q[m - M] /\ j[m] \in ToSet(q)
    <3>1. n - M \in 1..N /\ j[n] = q[n - M]
      BY <1>3, <1>4, <2>2
    <3>2. m - M = n - M
      BY <1>2, <1>4, <2>2, <3>1
    <3> QED
      BY <1>1, <3>2
  <2> QED
    BY <1>3, <2>1, <2>2
<1>5. ToSet(j) \subseteq ToSet(s) \cup ToSet(q)
  BY <1>1, <1>3 DEF ToSet
<1>6. ASSUME NEW x \in ToSet(s) \cup ToSet(q) PROVE x \in ToSet(j)
  <2>1. CASE x \in ToSet(s)
    <3>1. PICK n \in 1..M : x = s[n]
      BY <2>1, Items
    <3>2. n \in 1..(M + N) /\ x = j[n]
      BY <1>1, <3>1
    <3> QED
      BY <1>1, <3>2 DEF ToSet
  <2>2. CASE x \in ToSet(q)
    <3>1. PICK n \in 1..N : x = q[n]
      BY <2>2, Items
    <3>2. n + M \in (M + 1)..(M + N) /\ (n + M) - M = n /\ n + M \in 1..(M + N)
      BY <1>1
    <3>3. x = j[n + M]
      BY <1>1, <3>1, <3>2
    <3> QED
      BY <1>1, <3>2, <3>3 DEF ToSet
  <2> QED
    BY <2>1, <2>2
<1>7. IsInjective(j)
  BY <1>1, <1>4 DEF IsInjective
<1> QED
  BY <1>1, <1>5, <1>6, <1>7 DEF j

LEMMA AppendedItem ==
    ASSUME NEW V, NEW s \in Seq(V), IsInjective(s), NEW h \in V, h \notin ToSet(s)
    PROVE  /\ Append(s, h) \in Seq(V) /\ IsInjective(Append(s, h))
           /\ ToSet(Append(s, h)) = ToSet(s) \cup {h}
<1>1. <<h>> \in Seq(V) /\ IsInjective(<<h>>) /\ ToSet(<<h>>) = {h}
  BY DEF IsInjective, ToSet
<1>2. Append(s, h) = s \o <<h>>
  OBVIOUS
<1>3. PICK q \in Seq(V) : q = <<h>>
  BY <1>1
<1>4. IsInjective(q) /\ ToSet(q) = {h} /\ ToSet(s) \cap ToSet(q) = {}
  BY <1>1, <1>3
<1>5. /\ s \o q \in Seq(V) /\ IsInjective(s \o q)
      /\ ToSet(s \o q) = ToSet(s) \cup ToSet(q)
  BY <1>4, JoinedItems
<1> QED
  BY <1>2, <1>3, <1>4, <1>5, Zenon

-----------------------------------------------------------------------------
(* Sums *)

\* The sum of w over s, when g has it for the smaller sets.
SumOver(w, g, s) == IF s = {} THEN 0
                    ELSE LET x == CHOOSE x \in s : TRUE IN w[x] + g[s \ {x}]

\* g gives the sum of w over every subset of S, as MapThenSumSet takes it.
Sums(g, w, S) == g = [s \in SUBSET S |-> SumOver(w, g, s)]

Below(S, n) == {s \in SUBSET S : Cardinality(s) < n}

LEMMA SmallerSubset ==
    ASSUME NEW S, IsFiniteSet(S), NEW s \in SUBSET S
    PROVE  /\ IsFiniteSet(s) /\ Cardinality(s) \in Nat
           /\ s \in Below(S, Cardinality(S) + 1)
           /\ \A x \in s : Cardinality(s \ {x}) = Cardinality(s) - 1
           /\ \A n \in Nat, x \in s : s \in Below(S, n + 1) => s \ {x} \in Below(S, n)
<1>1. IsFiniteSet(s) /\ Cardinality(s) \in Nat /\ Cardinality(s) <= Cardinality(S) /\ Cardinality(S) \in Nat
  BY FS_Subset, FS_CardinalityType
<1>2. \A x \in s : Cardinality(s \ {x}) = Cardinality(s) - 1
  BY <1>1, FS_RemoveElement
<1> QED
  BY <1>1, <1>2 DEF Below

LEMMA SumsExist ==
    ASSUME NEW S, IsFiniteSet(S), NEW w \in [S -> Nat]
    PROVE  \E g \in [SUBSET S -> Nat] : Sums(g, w, S)
<1> DEFINE T == {n \in Nat : \E g \in [Below(S, n) -> Nat] :
                               \A s \in Below(S, n) : g[s] = SumOver(w, g, s)}
<1>1. 0 \in T
  <2>1. Below(S, 0) = {}
    BY SmallerSubset DEF Below
  <2>2. [s \in {} |-> 0] \in [{} -> Nat]
    OBVIOUS
  <2> QED
    BY <2>1, <2>2
<1>2. ASSUME NEW n \in T PROVE n + 1 \in T
  <2>1. PICK g \in [Below(S, n) -> Nat] : \A s \in Below(S, n) : g[s] = SumOver(w, g, s)
    OBVIOUS
  <2> DEFINE h == [s \in Below(S, n + 1) |-> SumOver(w, g, s)]
  <2>2. ASSUME NEW s \in Below(S, n + 1), s # {}
        PROVE  LET x == CHOOSE x \in s : TRUE
               IN  x \in s /\ x \in S /\ s \ {x} \in Below(S, n)
    BY <2>2, SmallerSubset DEF Below
  <2>3. h \in [Below(S, n + 1) -> Nat]
    BY <2>2 DEF SumOver
  <2>4. \A s \in Below(S, n) : s \in Below(S, n + 1) /\ h[s] = g[s]
    BY <2>1, SmallerSubset DEF Below
  <2>5. \A s \in Below(S, n + 1) : h[s] = SumOver(w, g, s)
    OBVIOUS
  <2> HIDE DEF h
  <2>6. \A s \in Below(S, n + 1) : h[s] = SumOver(w, h, s)
    BY <2>2, <2>4, <2>5 DEF SumOver
  <2>7. n + 1 \in Nat
    OBVIOUS
  <2> QED
    BY <2>3, <2>6, <2>7
<1> HIDE DEF T
<1>3. Cardinality(S) + 1 \in T
  <2>1. Cardinality(S) + 1 \in Nat
    BY SmallerSubset
  <2>2. SUFFICES ASSUME Nat \ T # {} PROVE FALSE
    BY <2>1
  <2>3. PICK n \in Nat \ T : \A m \in Nat \ T : n <= m
    BY <2>2, LeastNumber
  <2> QED
    BY <1>1, <1>2, <2>3
<1>4. Below(S, Cardinality(S) + 1) = SUBSET S
  BY SmallerSubset DEF Below
<1> QED
  BY <1>3, <1>4 DEF Sums, T

\* Any element may be the one that is taken.
AnyFirst(g, w, S) == \A s \in SUBSET S : \A x \in s : g[s] = w[x] + g[s \ {x}]

LEMMA SumsRemove ==
    ASSUME NEW S, IsFiniteSet(S), NEW w \in [S -> Nat],
           NEW g \in [SUBSET S -> Nat], Sums(g, w, S)
    PROVE  AnyFirst(g, w, S)
<1> DEFINE Good == {s \in SUBSET S : \A x \in s : g[s] = w[x] + g[s \ {x}]}
<1>1. ASSUME NEW s \in SUBSET S, \A x \in s : s \ {x} \in Good
      PROVE  s \in Good
  <2> SUFFICES ASSUME NEW x \in s PROVE g[s] = w[x] + g[s \ {x}]
    OBVIOUS
  <2>1. PICK y \in s : g[s] = w[y] + g[s \ {y}]
    BY DEF Sums, SumOver
  <2>2. CASE x # y
    <3>1. g[s \ {y}] = w[x] + g[(s \ {y}) \ {x}]
      BY <1>1, <2>2
    <3>2. g[s \ {x}] = w[y] + g[(s \ {x}) \ {y}]
      BY <1>1, <2>2
    <3>3. (s \ {y}) \ {x} = (s \ {x}) \ {y}
      OBVIOUS
    <3>4. PICK n \in Nat : n = g[(s \ {x}) \ {y}]
      OBVIOUS
    <3>5. g[s \ {y}] = w[x] + n /\ g[s \ {x}] = w[y] + n
      BY <3>1, <3>2, <3>3, <3>4, Zenon
    <3>6. w[x] \in Nat /\ w[y] \in Nat
      OBVIOUS
    <3>7. w[y] + (w[x] + n) = w[x] + (w[y] + n)
      BY <3>6
    <3> QED
      BY <2>1, <3>5, <3>7, Zenon
  <2> QED
    BY <2>1, <2>2
<1> HIDE DEF Good
<1>2. SUBSET S \subseteq Good
  BY <1>1, SubsetInduction
<1> QED
  BY <1>2 DEF Good, AnyFirst

\* A greater set has no smaller sum.
Grows(g, S) == \A t \in SUBSET S : \A s \in SUBSET t : g[s] \in Nat /\ g[s] <= g[t]

LEMMA SumsMonotone ==
    ASSUME NEW U, IsFiniteSet(U), NEW v \in [U -> Nat],
           NEW h \in [SUBSET U -> Nat], Sums(h, v, U)
    PROVE  Grows(h, U)
<1> DEFINE Ok == {t \in SUBSET U : \A s \in SUBSET t : h[s] <= h[t]}
<1>1. AnyFirst(h, v, U)
  BY SumsRemove
<1>2. ASSUME NEW t \in SUBSET U, \A x \in t : t \ {x} \in Ok
      PROVE  t \in Ok
  <2> SUFFICES ASSUME NEW s \in SUBSET t PROVE h[s] <= h[t]
    OBVIOUS
  <2>1. CASE s # t
    <3>1. PICK x \in t : x \notin s
      BY <2>1
    <3>2. h[s] <= h[t \ {x}]
      BY <1>2, <3>1
    <3>3. v[x] \in Nat /\ h[s] \in Nat /\ h[t \ {x}] \in Nat
      OBVIOUS
    <3> QED
      BY <1>1, <3>2, <3>3 DEF AnyFirst
  <2> QED
    BY <2>1
<1> HIDE DEF Ok
<1>3. SUBSET U \subseteq Ok
  BY <1>2, SubsetInduction
<1> QED
  BY <1>3 DEF Ok, Grows

\* SumFunctionOnSet by its laws, for weights w of the elements of T.
SumLaws(w, T) ==
    /\ SumFunctionOnSet(w, {}) = 0
    /\ \A S \in SUBSET T : SumFunctionOnSet(w, S) \in Nat
    /\ \A S \in SUBSET T : \A x \in S :
          SumFunctionOnSet(w, S) = SumFunctionOnSet(w, S \ {x}) + w[x]

\* What SumFunctionOnSet leaves when its function is opened.
LEMMA SumIs ==
    ASSUME NEW T, IsFiniteSet(T), NEW w \in [T -> Nat],
           NEW g \in [SUBSET T -> Nat], Sums(g, w, T), NEW S \in SUBSET T
    PROVE  SumFunctionOnSet(w, S) = g[S]
<1> DEFINE iter[s \in SUBSET S] ==
             IF s = {} THEN 0
             ELSE LET x == CHOOSE x \in s : TRUE IN w[x] + iter[s \ {x}]
<1>1. SumFunctionOnSet(w, S) = iter[S]
  BY DEF SumFunctionOnSet, FoldFunctionOnSet, MapThenFoldSet
<1> DEFINE Step(h) == [s \in SUBSET S |-> SumOver(w, h, s)]
<1>2. iter = CHOOSE h : h = Step(h)
  BY DEF SumOver
<1> HIDE DEF iter
<1>3. \E h : h = Step(h)
  <2> DEFINE h == [s \in SUBSET S |-> g[s]]
  <2>1. h = Step(h)
    BY DEF Sums, SumOver
  <2> QED
    BY <2>1
<1>4. iter = Step(iter)
  BY <1>2, <1>3
<1> HIDE DEF Step
<1> DEFINE Good == {s \in SUBSET S : iter[s] = g[s]}
<1>5. IsFiniteSet(S)
  BY FS_Subset
<1>6. ASSUME NEW s \in SUBSET S, \A x \in s : s \ {x} \in Good
      PROVE  s \in Good
  <2>1. iter[s] = SumOver(w, iter, s)
    BY <1>4 DEF Step
  <2>2. g[s] = SumOver(w, g, s)
    BY DEF Sums
  <2> QED
    BY <1>6, <2>1, <2>2 DEF SumOver
<1> HIDE DEF Good
<1>7. SUBSET S \subseteq Good
  BY <1>5, <1>6, SubsetInduction
<1> QED
  BY <1>1, <1>7 DEF Good

LEMMA SumsAreLawful ==
    ASSUME NEW T, IsFiniteSet(T), NEW w \in [T -> Nat]
    PROVE  SumLaws(w, T)
<1>1. PICK g \in [SUBSET T -> Nat] : Sums(g, w, T)
  BY SumsExist
<1>2. AnyFirst(g, w, T)
  BY <1>1, SumsRemove
<1>3. \A S \in SUBSET T : SumFunctionOnSet(w, S) = g[S] /\ g[S] \in Nat
  BY <1>1, SumIs
<1>4. g[{}] = 0
  BY <1>1 DEF Sums, SumOver
<1>5. ASSUME NEW S \in SUBSET T, NEW x \in S
      PROVE  SumFunctionOnSet(w, S) = SumFunctionOnSet(w, S \ {x}) + w[x]
  <2>1. g[S] = w[x] + g[S \ {x}] /\ w[x] \in Nat /\ g[S \ {x}] \in Nat
    BY <1>2, <1>3 DEF AnyFirst
  <2>2. g[S] = g[S \ {x}] + w[x]
    BY <2>1
  <2> QED
    BY <1>3, <2>2
<1> QED
  BY <1>3, <1>4, <1>5 DEF SumLaws

\* Fewer elements that weigh no more sum up to no more.
LEMMA SmallerSum ==
    ASSUME NEW T, IsFiniteSet(T), NEW w \in [T -> Nat], NEW v \in [T -> Nat],
           NEW U \in SUBSET T, NEW S \in SUBSET U, \A x \in S : w[x] <= v[x]
    PROVE  SumFunctionOnSet(w, S) <= SumFunctionOnSet(v, U)
<1> DEFINE Less(s, u) == SumFunctionOnSet(w, s) <= SumFunctionOnSet(v, u)
           Good == {u \in SUBSET T :
                      \A s \in SUBSET u : (\A x \in s : w[x] <= v[x]) => Less(s, u)}
<1>1. SumLaws(w, T) /\ SumLaws(v, T)
  BY SumsAreLawful
<1>2. ASSUME NEW u \in SUBSET T, \A x \in u : u \ {x} \in Good
      PROVE  u \in Good
  <2> SUFFICES ASSUME NEW s \in SUBSET u, \A x \in s : w[x] <= v[x] PROVE Less(s, u)
    OBVIOUS
  <2>1. CASE s = {} /\ u = {}
    BY <1>1, <2>1 DEF SumLaws
  <2>2. ASSUME NEW x \in u PROVE Less(s, u)
    <3>1. Less(s \ {x}, u \ {x})
      BY <1>2, <2>2
    <3>2. /\ SumFunctionOnSet(v, u) = SumFunctionOnSet(v, u \ {x}) + v[x]
          /\ SumFunctionOnSet(v, u \ {x}) \in Nat /\ SumFunctionOnSet(w, s \ {x}) \in Nat
          /\ v[x] \in Nat /\ w[x] \in Nat
      BY <1>1, <2>2 DEF SumLaws
    <3>3. CASE x \in s
      <4>1. SumFunctionOnSet(w, s) = SumFunctionOnSet(w, s \ {x}) + w[x] /\ w[x] <= v[x]
        BY <1>1, <3>3 DEF SumLaws
      <4> QED
        BY <3>1, <3>2, <4>1
    <3>4. CASE x \notin s
      <4>1. s \ {x} = s
        BY <3>4
      <4>2. SumFunctionOnSet(w, s \ {x}) = SumFunctionOnSet(w, s)
        BY <4>1
      <4> QED
        BY <3>1, <3>2, <4>2
    <3> QED
      BY <3>3, <3>4
  <2> QED
    BY <2>1, <2>2
<1> HIDE DEF Good
<1>3. IsFiniteSet(U)
  BY FS_Subset
<1>4. SUBSET T \subseteq Good
  BY <1>2, SubsetInduction
<1> QED
  BY <1>4 DEF Good

LEMMA SameSum ==
    ASSUME NEW T, IsFiniteSet(T), NEW w \in [T -> Nat], NEW v \in [T -> Nat],
           NEW S \in SUBSET T, \A x \in S : w[x] = v[x]
    PROVE  SumFunctionOnSet(w, S) = SumFunctionOnSet(v, S)
<1>1. SumLaws(w, T) /\ SumLaws(v, T)
  BY SumsAreLawful
<1>2. \A x \in S : w[x] <= v[x] /\ v[x] <= w[x]
  OBVIOUS
<1>3. /\ SumFunctionOnSet(w, S) <= SumFunctionOnSet(v, S)
      /\ SumFunctionOnSet(v, S) <= SumFunctionOnSet(w, S)
  BY <1>2, SmallerSum
<1>4. SumFunctionOnSet(w, S) \in Nat /\ SumFunctionOnSet(v, S) \in Nat
  BY <1>1 DEF SumLaws
<1> QED
  BY <1>3, <1>4
=============================================================================
