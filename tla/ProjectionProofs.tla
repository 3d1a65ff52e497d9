--------------------------- MODULE ProjectionProofs ---------------------------
(***************************************************************************)
(* That a replay agrees with the whole history, for every history, every   *)
(* journal, both limits and every order that topo-order allows.            *)
(***************************************************************************)
EXTENDS Projection, Lemmas

\* The history of a state is one of the assumed.
HistoryOK ==
    /\ IsFiniteSet(All) /\ history.head \in All
    /\ \A c \in All :
          /\ history.parents[c] \subseteq All
          /\ history.journal[c] \in Seq(Range(history.journal[c]))
          /\ \A act \in Range(history.journal[c]) : IsAction(act)

LEMMA HistoriesAreOK ==
    ASSUME history \in Histories PROVE HistoryOK
BY HistoriesAssumption DEF HistoryOK, All
-----------------------------------------------------------------------------
(* Reachability *)

ParentsOf(set) == UNION {history.parents[d] : d \in set}

\* The sets that Reach goes through, f[n] after n steps.
Spreads(f, known, c, N) ==
    f = [n \in 0..N |-> IF n = 0 THEN {c} ELSE f[n-1] \cup ParentsOf(f[n-1] \cap known)]

LEMMA SpreadExists ==
    ASSUME NEW known, NEW c, NEW N \in Nat
    PROVE  \E f : Spreads(f, known, c, N)
<1> DEFINE T == {m \in 0..N : \E f : Spreads(f, known, c, m)}
<1>1. 0 \in T
  <2>1. Spreads([n \in 0..0 |-> {c}], known, c, 0)
    BY DEF Spreads
  <2> QED
    BY <2>1
<1>2. ASSUME NEW m \in 0..(N - 1), m \in T PROVE m + 1 \in T
  <2>1. PICK f : Spreads(f, known, c, m)
    BY <1>2
  <2> DEFINE g == [n \in 0..(m + 1) |->
                     IF n = m + 1 THEN f[m] \cup ParentsOf(f[m] \cap known) ELSE f[n]]
  <2>2. ASSUME NEW n \in 0..(m + 1)
        PROVE  g[n] = IF n = 0 THEN {c} ELSE g[n-1] \cup ParentsOf(g[n-1] \cap known)
    <3>1. CASE n = m + 1
      <4>1. n # 0 /\ n - 1 = m /\ m # m + 1 /\ m \in 0..(m + 1)
        BY <3>1
      <4>2. g[m] = f[m] /\ g[m + 1] = f[m] \cup ParentsOf(f[m] \cap known)
        BY <4>1
      <4> HIDE DEF g
      <4> QED
        BY <3>1, <4>1, <4>2
    <3>2. CASE n \in 0..m
      <4>1. g[n] = f[n] /\ (n # 0 => g[n-1] = f[n-1])
        BY <3>2
      <4>2. f[n] = IF n = 0 THEN {c} ELSE f[n-1] \cup ParentsOf(f[n-1] \cap known)
        BY <2>1, <3>2, Zenon DEF Spreads
      <4> HIDE DEF g
      <4> QED
        BY <4>1, <4>2
    <3> QED
      BY <3>1, <3>2
  <2>3. Spreads(g, known, c, m + 1)
    BY <2>2 DEF Spreads
  <2> QED
    BY <2>3
<1> HIDE DEF T
<1>3. N \in T
  BY <1>1, <1>2, UpTo
<1> QED
  BY <1>3 DEF T

LEMMA ReachSpreads ==
    ASSUME NEW known, IsFiniteSet(known), NEW c
    PROVE  \E f : /\ Spreads(f, known, c, Cardinality(known))
                  /\ Reach(known, c) = f[Cardinality(known)]
<1>1. Cardinality(known) \in Nat
  BY FS_CardinalityType
<1>2. \E f : Spreads(f, known, c, Cardinality(known))
  BY <1>1, SpreadExists
<1> DEFINE g == CHOOSE f : Spreads(f, known, c, Cardinality(known))
<1>3. Spreads(g, known, c, Cardinality(known))
  BY <1>2, Zenon
<1>4. Reach(known, c) = g[Cardinality(known)]
  BY SMT DEF Reach, Spreads, ParentsOf
<1> QED
  BY <1>3, <1>4, Zenon

ClosedIn(set, known) == ParentsOf(set \cap known) \subseteq set

\* Cardinality(known) steps are enough: as long as a step finds something new
\* among the known commits, at least as many are known as steps were taken.
LEMMA ReachFacts ==
    ASSUME NEW known, IsFiniteSet(known), NEW c
    PROVE  /\ c \in Reach(known, c)
           /\ ClosedIn(Reach(known, c), known)
           /\ \A S : c \in S /\ ClosedIn(S, known) => Reach(known, c) \subseteq S
<1> DEFINE N == Cardinality(known)
<1>1. N \in Nat
  BY FS_CardinalityType
<1>2. PICK f : Spreads(f, known, c, N) /\ Reach(known, c) = f[N]
  BY ReachSpreads
<1> HIDE DEF N
<1>3. f[0] = {c} /\ \A n \in 1..N : f[n] = f[n-1] \cup ParentsOf(f[n-1] \cap known)
  <2>1. ASSUME NEW n \in 0..N
        PROVE  f[n] = IF n = 0 THEN {c} ELSE f[n-1] \cup ParentsOf(f[n-1] \cap known)
    BY <1>2, Zenon DEF Spreads
  <2>2. 0 \in 0..N /\ \A n \in 1..N : n \in 0..N /\ n # 0
    BY <1>1
  <2> QED
    BY <2>1, <2>2, Zenon
<1>4. ASSUME NEW n \in 0..(N - 1)
      PROVE  f[n + 1] = f[n] \cup ParentsOf(f[n] \cap known)
  <2>1. n + 1 \in 1..N /\ (n + 1) - 1 = n
    BY <1>1
  <2> QED
    BY <1>3, <2>1
<1>5. c \in f[N]
  <2> DEFINE T == {n \in 0..N : c \in f[n]}
  <2>1. 0 \in T
    BY <1>1, <1>3
  <2>2. ASSUME NEW n \in 0..(N - 1), n \in T PROVE n + 1 \in T
    <3>1. n + 1 \in 0..N /\ c \in f[n]
      BY <1>1, <2>2
    <3> QED
      BY <1>4, <3>1
  <2> HIDE DEF T
  <2>3. N \in T
    BY <1>1, <2>1, <2>2, UpTo
  <2> QED
    BY <2>3 DEF T
<1>6. ClosedIn(f[N], known)
  <2> DEFINE seen(n) == f[n] \cap known
             T == {n \in 0..N : ClosedIn(f[n], known) \/ Cardinality(seen(n)) > n}
  <2>1. \A n : IsFiniteSet(seen(n)) /\ Cardinality(seen(n)) \in Nat
    BY FS_Subset, FS_CardinalityType
  <2>2. 0 \in T
    <3>1. CASE c \in known
      <4>1. seen(0) = {c}
        BY <1>3, <3>1
      <4>2. Cardinality(seen(0)) = 1 /\ 0 \in 0..N
        BY <1>1, <4>1, FS_Singleton
      <4> QED
        BY <4>2
    <3>2. CASE c \notin known
      <4>1. f[0] \cap known = {}
        BY <1>3, <3>2
      <4> QED
        BY <1>1, <4>1 DEF ClosedIn, ParentsOf
    <3> QED
      BY <3>1, <3>2
  <2>3. ASSUME NEW n \in 0..(N - 1), n \in T PROVE n + 1 \in T
    <3>1. n + 1 \in 0..N /\ n \in Nat
      BY <1>1
    <3>2. f[n + 1] = f[n] \cup ParentsOf(f[n] \cap known)
      BY <1>4
    <3>3. CASE ClosedIn(f[n], known)
      <4>1. f[n + 1] = f[n]
        BY <3>2, <3>3 DEF ClosedIn
      <4> QED
        BY <3>1, <3>3, <4>1
    <3>4. CASE seen(n + 1) = seen(n)
      <4>1. ClosedIn(f[n + 1], known)
        BY <3>2, <3>4 DEF ClosedIn
      <4> QED
        BY <3>1, <4>1
    <3>5. CASE seen(n + 1) # seen(n) /\ ~ClosedIn(f[n], known)
      <4>1. seen(n) \subseteq seen(n + 1)
        BY <3>2
      <4>2. Cardinality(seen(n)) < Cardinality(seen(n + 1))
        <5>1. Cardinality(seen(n)) <= Cardinality(seen(n + 1))
          BY <2>1, <4>1, FS_Subset
        <5>2. Cardinality(seen(n)) # Cardinality(seen(n + 1))
          BY <2>1, <4>1, <3>5, FS_Subset
        <5> HIDE DEF seen
        <5> QED
          BY <2>1, <5>1, <5>2
      <4>3. Cardinality(seen(n)) > n
        BY <2>3, <3>5
      <4> HIDE DEF seen
      <4>4. Cardinality(seen(n + 1)) > n + 1
        BY <2>1, <3>1, <4>2, <4>3
      <4> QED
        BY <3>1, <4>4 DEF seen
    <3> QED
      BY <3>3, <3>4, <3>5
  <2> HIDE DEF T
  <2>4. N \in T
    BY <1>1, <2>2, <2>3, UpTo
  <2>5. Cardinality(seen(N)) <= N
    BY FS_Subset DEF N
  <2>6. ~(Cardinality(seen(N)) > N)
    <3> HIDE DEF seen
    <3> QED
      BY <1>1, <2>1, <2>5
  <2> QED
    BY <2>4, <2>6 DEF T
<1>7. ASSUME NEW S, c \in S, ClosedIn(S, known) PROVE f[N] \subseteq S
  <2> DEFINE T == {n \in 0..N : f[n] \subseteq S}
  <2>1. 0 \in T
    BY <1>1, <1>3, <1>7
  <2>2. ASSUME NEW n \in 0..(N - 1), n \in T PROVE n + 1 \in T
    <3>1. f[n] \subseteq S /\ n + 1 \in 0..N
      BY <1>1, <2>2
    <3>2. ParentsOf(f[n] \cap known) \subseteq ParentsOf(S \cap known)
      BY <3>1 DEF ParentsOf
    <3> QED
      BY <1>4, <1>7, <3>1, <3>2 DEF ClosedIn
  <2> HIDE DEF T
  <2>3. N \in T
    BY <1>1, <2>1, <2>2, UpTo
  <2> QED
    BY <2>3 DEF T
<1> QED
  BY <1>2, <1>5, <1>6, <1>7

LEMMA AncestorFacts ==
    ASSUME HistoryOK, NEW c \in All
    PROVE  /\ Ancestors(c) \subseteq All /\ c \in Ancestors(c)
           /\ \A d \in Ancestors(c) : history.parents[d] \subseteq Ancestors(c)
           /\ \A S : c \in S /\ (\A d \in S \cap All : history.parents[d] \subseteq S)
                       => Ancestors(c) \subseteq S
<1>1. /\ c \in Ancestors(c) /\ ClosedIn(Ancestors(c), All)
      /\ \A S : c \in S /\ ClosedIn(S, All) => Ancestors(c) \subseteq S
  BY ReachFacts DEF HistoryOK, Ancestors
<1>2. ClosedIn(All, All)
  BY DEF HistoryOK, ClosedIn, ParentsOf
<1>3. Ancestors(c) \subseteq All
  BY <1>1, <1>2
<1>4. \A d \in Ancestors(c) : history.parents[d] \subseteq Ancestors(c)
  BY <1>1, <1>3 DEF ClosedIn, ParentsOf
<1>5. ASSUME NEW S, c \in S, \A d \in S \cap All : history.parents[d] \subseteq S
      PROVE  Ancestors(c) \subseteq S
  BY <1>1, <1>5 DEF ClosedIn, ParentsOf
<1> QED
  BY <1>1, <1>3, <1>4, <1>5

LEMMA AncestorsOfAncestors ==
    ASSUME HistoryOK, NEW c \in All, NEW d \in Ancestors(c)
    PROVE  Ancestors(d) \subseteq Ancestors(c)
<1>1. d \in All
  BY AncestorFacts
<1>2. \A e \in Ancestors(c) \cap All : history.parents[e] \subseteq Ancestors(c)
  BY AncestorFacts
<1> QED
  BY <1>1, <1>2, AncestorFacts

\* What can be reached among commits that lack no parent is what can be reached
\* in the whole history.
LEMMA ReachInWhole ==
    ASSUME HistoryOK, NEW S \in SUBSET All, \A d \in S : history.parents[d] \subseteq S,
           NEW c \in S
    PROVE  Reach(S, c) = Ancestors(c) /\ Ancestors(c) \subseteq S
<1>1. IsFiniteSet(S) /\ c \in All
  BY FS_Subset DEF HistoryOK
<1>2. Ancestors(c) \subseteq S
  BY <1>1, AncestorFacts
<1>3. /\ c \in Reach(S, c) /\ ClosedIn(Reach(S, c), S)
      /\ \A T : c \in T /\ ClosedIn(T, S) => Reach(S, c) \subseteq T
  BY <1>1, ReachFacts
<1>4. ClosedIn(Ancestors(c), S) /\ ClosedIn(S, S)
  BY <1>1, AncestorFacts DEF ClosedIn, ParentsOf
<1>5. Reach(S, c) \subseteq Ancestors(c) /\ Reach(S, c) \subseteq S
  BY <1>1, <1>3, <1>4, AncestorFacts
<1>6. \A d \in Reach(S, c) \cap All : history.parents[d] \subseteq Reach(S, c)
  BY <1>3, <1>5 DEF ClosedIn, ParentsOf
<1>7. Ancestors(c) \subseteq Reach(S, c)
  BY <1>1, <1>3, <1>6, AncestorFacts
<1> QED
  BY <1>2, <1>5, <1>7
-----------------------------------------------------------------------------
(* Selection *)

\* The commits that a walk may list
WholeHistory == Ancestors(history.head)

\* A sequence of different commits of the history, newest or oldest first
Different(s) == \A i, j \in DOMAIN s : s[i] = s[j] => i = j
Down(s) == \A i, j \in DOMAIN s : s[j] \in Ancestors(s[i]) => i <= j
Up(s)   == \A i, j \in DOMAIN s : s[i] \in Ancestors(s[j]) => i <= j

LEMMA WalkedAll ==
    ASSUME HistoryOK, NEW s \in SetToSeqs(WholeHistory), NewestFirst(s)
    PROVE  s \in Seq(WholeHistory) /\ Different(s) /\ Down(s) /\ Range(s) = WholeHistory
<1> DEFINE N == Cardinality(WholeHistory)
<1>1. WholeHistory \subseteq All /\ IsFiniteSet(WholeHistory) /\ N \in Nat
  BY AncestorFacts, FS_Subset, FS_CardinalityType DEF HistoryOK, WholeHistory
<1>2. s \in [1..N -> WholeHistory] /\ \A i, j \in 1..N : i # j => s[i] # s[j]
  BY Zenon DEF SetToSeqs
<1> HIDE DEF N
<1>3. s \in Seq(WholeHistory) /\ DOMAIN s = 1..N
  BY <1>1, <1>2
<1>4. Different(s)
  BY <1>2, <1>3 DEF Different
<1>5. Range(s) = WholeHistory
  <2>1. s \in Bijection(1..N, Range(s))
    <3>1. s \in [1..N -> Range(s)]
      BY <1>2 DEF Range
    <3>2. s \in Injection(1..N, Range(s))
      BY <1>2, <3>1 DEF Injection, IsInjective
    <3>3. s \in Surjection(1..N, Range(s))
      BY <1>3, <3>1 DEF Surjection, Range
    <3> QED
      BY <3>2, <3>3 DEF Bijection
  <2>2. ExistsBijection(1..N, Range(s))
    BY <2>1 DEF ExistsBijection
  <2>3. IsFiniteSet(1..N) /\ Cardinality(1..N) = N
    BY <1>1, FirstNumbers
  <2>4. IsFiniteSet(Range(s)) /\ Cardinality(Range(s)) = N
    BY <2>2, <2>3, FS_Bijection
  <2>5. Range(s) \subseteq WholeHistory
    BY <1>2, <1>3 DEF Range
  <2> QED
    BY <1>1, <2>4, <2>5, FS_Subset DEF N
<1>6. Down(s)
  <2> SUFFICES ASSUME NEW i \in 1..N, NEW j \in 1..N, s[j] \in Ancestors(s[i]) PROVE i <= j
    BY <1>3 DEF Down
  <2> DEFINE S == {x \in All : \E k \in 1..N : i <= k /\ x = s[k]}
  <2>1. s[i] \in All /\ s[i] \in S
    BY <1>1, <1>2
  <2>2. ASSUME NEW d \in S \cap All, NEW p \in history.parents[d] PROVE p \in S
    <3>1. PICK k \in 1..N : i <= k /\ d = s[k]
      BY <2>2
    <3>2. d \in WholeHistory
      BY <1>2, <3>1
    <3>3. p \in WholeHistory
      BY <2>2, <3>2, AncestorFacts DEF WholeHistory, HistoryOK
    <3>4. PICK l \in 1..N : p = s[l]
      BY <1>3, <1>5, <3>3 DEF Range
    <3>5. k < l
      BY <1>3, <2>2, <3>1, <3>4 DEF NewestFirst
    <3>6. i <= l
      BY <1>1, <3>1, <3>5
    <3> QED
      BY <1>1, <3>3, <3>4, <3>6
  <2>3. Ancestors(s[i]) \subseteq S
    <3> HIDE DEF S
    <3> QED
      BY <2>1, <2>2, AncestorFacts
  <2>4. PICK k \in 1..N : i <= k /\ s[j] = s[k]
    BY <2>3
  <2> QED
    BY <1>2, <2>4
<1> QED
  BY <1>3, <1>4, <1>5, <1>6

LEMMA FirstOnes ==
    ASSUME NEW V, NEW s \in Seq(V), Different(s), Down(s), NEW n \in 0..Len(s)
    PROVE  LET p == SubSeq(s, 1, n)
           IN  /\ p \in Seq(V) /\ Len(p) = n /\ Different(p) /\ Down(p)
               /\ n = Len(s) => p = s
               /\ n < Len(s) => Range(p) # Range(s)
<1> DEFINE p == SubSeq(s, 1, n)
<1>1. p \in Seq(V) /\ Len(p) = n /\ \A i \in 1..n : p[i] = s[i]
  OBVIOUS
<1>2. DOMAIN p = 1..n /\ DOMAIN s = 1..Len(s) /\ Len(s) \in Nat /\ 1..n \subseteq 1..Len(s)
  OBVIOUS
<1>3. n = Len(s) => p = s
  BY <1>1, <1>2
<1> HIDE DEF p
<1>4. Different(p) /\ Down(p)
  BY <1>1, <1>2 DEF Different, Down
<1>5. ASSUME n < Len(s) PROVE Range(p) # Range(s)
  <2>1. n + 1 \in 1..Len(s) /\ s[n + 1] \in Range(s)
    BY <1>2, <1>5 DEF Range
  <2>2. ASSUME NEW i \in 1..n PROVE p[i] # s[n + 1]
    <3>1. i \in 1..Len(s) /\ i # n + 1 /\ p[i] = s[i]
      BY <1>1, <1>2
    <3> QED
      BY <1>2, <2>1, <3>1 DEF Different
  <2>3. s[n + 1] \notin Range(p)
    BY <1>2, <2>2 DEF Range
  <2> QED
    BY <2>1, <2>3
<1> QED
  BY <1>1, <1>3, <1>4, <1>5 DEF p

LEMMA Reversed ==
    ASSUME NEW V, NEW s \in Seq(V), Different(s), Down(s)
    PROVE  LET p == Reverse(s)
           IN  p \in Seq(V) /\ Different(p) /\ Up(p) /\ Range(p) = Range(s)
<1> DEFINE p == Reverse(s)
           N == Len(s)
<1>1. N \in Nat /\ DOMAIN s = 1..N /\ \A i \in 1..N : s[i] \in V
  OBVIOUS
<1>2. p = [i \in 1..N |-> s[(N - i) + 1]]
  BY DEF Reverse
<1> HIDE DEF p, N
<1>3. \A i \in 1..N : (N - i) + 1 \in 1..N /\ (N - ((N - i) + 1)) + 1 = i
  BY <1>1
<1>4. p \in [1..N -> V] /\ DOMAIN p = 1..N /\ \A i \in 1..N : p[i] = s[(N - i) + 1]
  BY <1>1, <1>2, <1>3
<1>5. p \in Seq(V)
  BY <1>1, <1>4
<1>6. Different(p)
  <2> SUFFICES ASSUME NEW i \in 1..N, NEW j \in 1..N, p[i] = p[j] PROVE i = j
    BY <1>4 DEF Different
  <2>1. (N - i) + 1 = (N - j) + 1
    BY <1>1, <1>3, <1>4 DEF Different
  <2> QED
    BY <1>1, <2>1
<1>7. Up(p)
  <2> SUFFICES ASSUME NEW i \in 1..N, NEW j \in 1..N, p[i] \in Ancestors(p[j]) PROVE i <= j
    BY <1>4 DEF Up
  <2>1. (N - j) + 1 <= (N - i) + 1
    BY <1>1, <1>3, <1>4 DEF Down
  <2> QED
    BY <1>1, <2>1
<1>8. Range(p) = Range(s)
  <2>1. \A i \in 1..N : s[i] = p[(N - i) + 1]
    BY <1>3, <1>4
  <2> QED
    BY <1>1, <1>3, <1>4, <2>1 DEF Range
<1> QED
  BY <1>5, <1>6, <1>7, <1>8 DEF p

\* A prefix within the limit can be chosen, since none needs no nodes.
LEMMA NoNodes ==
    ASSUME NEW V, commits \in Seq(V) PROVE Nodes(0) = 0
<1> DEFINE none == SubSeq(commits, 1, 0)
<1> DEFINE iter[s \in SUBSET DOMAIN none] ==
             IF s = {} THEN 0
             ELSE LET x == Max(s) IN iter[s \ {x}] + Annotations(none[x])
<1>1. Nodes(0) = iter[DOMAIN none]
  BY DEF Nodes, FoldLeft, MapThenFoldSet
<1> DEFINE Step(h) == [s \in SUBSET DOMAIN none |->
             IF s = {} THEN 0
             ELSE LET x == Max(s) IN h[s \ {x}] + Annotations(none[x])]
<1>2. iter = CHOOSE h : h = Step(h)
  OBVIOUS
<1> HIDE DEF iter
<1>3. DOMAIN none = {}
  OBVIOUS
<1> HIDE DEF none
<1>4. \E h : h = Step(h)
  <2> DEFINE h == [s \in SUBSET DOMAIN none |-> 0]
  <2>1. h = Step(h)
    BY <1>3
  <2> QED
    BY <2>1
<1>5. iter = Step(iter)
  BY <1>2, <1>4
<1>6. iter[{}] = 0
  BY <1>3, <1>5
<1> QED
  BY <1>1, <1>3, <1>6

LEMMA WithinLimit ==
    ASSUME policy \in Policies, NEW V, commits \in Seq(V)
    PROVE  Max({k \in 0..Len(commits) : Within(Nodes(k), policy.nodes)}) \in 0..Len(commits)
<1> DEFINE K == {k \in 0..Len(commits) : Within(Nodes(k), policy.nodes)}
<1>1. Len(commits) \in Nat
  OBVIOUS
<1>2. 0 \in K
  BY <1>1, NoNodes, PoliciesAssumption DEF Within
<1>3. \E k \in K : \A l \in K : k >= l
  <2>1. K \in SUBSET (0..Len(commits)) /\ K # {}
    BY <1>2
  <2> HIDE DEF K
  <2>2. PICK k \in K : \A l \in K : l <= k
    BY <1>1, <2>1, GreatestNumber
  <2>3. \A l \in K : l \in Nat
    BY <1>1, <2>1
  <2> QED
    BY <2>2, <2>3
<1> HIDE DEF K
<1>4. Max(K) \in K
  BY <1>3 DEF Max
<1> QED
  BY <1>4 DEF K

\* The commits are some of the history, and truncated tells whether all.
Chosen ==
    /\ commits \in Seq(WholeHistory) /\ Different(commits)
    /\ truncated \in BOOLEAN
    /\ truncated <=> Range(commits) # WholeHistory

SelectionInv ==
    /\ history \in Histories /\ policy \in Policies
    /\ phase \in {"walk", "select", "replay", "done", "failed"}
    /\ phase = "walk" => truncated = FALSE
    /\ phase = "select" => Chosen /\ Down(commits)
    /\ phase \in {"replay", "done", "failed"} => Chosen /\ Up(commits)
    /\ phase \in {"walk", "select"} => next = 1 /\ tables = EmptyTables
    /\ phase \in {"replay", "done", "failed"} => next \in 1..(Len(commits) + 1)

LEMMA SameHistory ==
    ASSUME history' = history
    PROVE  /\ WholeHistory' = WholeHistory /\ HistoryOK' = HistoryOK /\ All' = All
           /\ \A c : Ancestors(c)' = Ancestors(c)
           /\ \A c, x, key : Values(c, x, key)' = Values(c, x, key)
<1>1. \A c : Ancestors(c)' = Ancestors(c)
  BY SMT DEF Ancestors, Reach, All
<1>2. WholeHistory' = WholeHistory
  BY SMT DEF Ancestors, Reach, All, WholeHistory
<1>3. \A c, x, key : Values(c, x, key)' = Values(c, x, key)
  BY SMT DEF Values, Assigning, Between, Named, Ancestors, Reach, All
<1> QED
  BY <1>1, <1>2, <1>3 DEF HistoryOK, All

LEMMA WalkSelects ==
    ASSUME SelectionInv, Walk PROVE SelectionInv'
<1>1. HistoryOK
  BY HistoriesAreOK DEF SelectionInv
<1> DEFINE limit == policy.commits
<1>2. PICK s \in SetToSeqs(WholeHistory) :
        /\ NewestFirst(s)
        /\ LET shas == Listed(s)
           IN  /\ truncated' = ~Within(Len(shas), limit)
               /\ commits' = IF truncated' THEN SubSeq(shas, 1, limit) ELSE shas
  BY DEF Walk, WholeHistory, Ancestors
<1>3. /\ s \in Seq(WholeHistory) /\ Different(s) /\ Down(s)
      /\ Range(s) = WholeHistory /\ Len(s) \in Nat
  BY <1>1, <1>2, WalkedAll
<1>4. limit \in Nat \cup {Unlimited}
  BY PoliciesAssumption DEF SelectionInv
<1>5. /\ commits' \in Seq(WholeHistory) /\ Different(commits') /\ Down(commits')
      /\ truncated' \in BOOLEAN /\ (truncated' <=> Range(commits') # WholeHistory)
  <2>1. CASE limit = Unlimited
    BY <1>2, <1>3, <2>1 DEF Listed, Within
  <2>2. CASE limit # Unlimited
    <3> DEFINE m == Min({Len(s), limit + 1})
               shas == SubSeq(s, 1, m)
    <3>1. limit \in Nat
      BY <1>4, <2>2
    <3>2. m = IF Len(s) <= limit + 1 THEN Len(s) ELSE limit + 1
      <4>1. \E x \in {Len(s), limit + 1} : \A y \in {Len(s), limit + 1} : x <= y
        BY <1>3, <3>1
      <4>2. m \in {Len(s), limit + 1} /\ \A y \in {Len(s), limit + 1} : m <= y
        BY <4>1, Zenon DEF Min
      <4> HIDE DEF m
      <4> QED
        BY <1>3, <3>1, <4>2
    <3>3. Listed(s) = shas
      BY <2>2 DEF Listed
    <3> HIDE DEF m
    <3>4. m \in 0..Len(s)
      BY <1>3, <3>1, <3>2
    <3>5. /\ shas \in Seq(WholeHistory) /\ Len(shas) = m /\ Different(shas) /\ Down(shas)
          /\ m = Len(s) => shas = s
      BY <1>3, <3>4, FirstOnes
    <3> HIDE DEF shas
    <3>6. truncated' = ~(m <= limit)
      BY <1>2, <2>2, <3>3, <3>5 DEF Within
    <3>7. CASE m <= limit
      <4>1. commits' = s
        <5>1. m = Len(s)
          BY <1>3, <3>1, <3>2, <3>7
        <5> QED
          BY <1>2, <3>3, <3>5, <3>6, <3>7, <5>1, Zenon
      <4> QED
        BY <1>3, <3>6, <3>7, <4>1
    <3>8. CASE ~(m <= limit)
      <4>1. m = limit + 1 /\ limit \in 0..Len(shas) /\ limit \in 0..Len(s) /\ limit < Len(s)
        BY <1>3, <3>1, <3>2, <3>5, <3>8
      <4>2. commits' = SubSeq(shas, 1, limit)
        BY <1>2, <3>3, <3>6, <3>8
      <4>3. /\ commits' \in Seq(WholeHistory) /\ Different(commits') /\ Down(commits')
            /\ Len(commits') = limit
        BY <3>5, <4>1, <4>2, FirstOnes
      <4>4. limit < Len(shas)
        BY <3>1, <3>5, <4>1
      <4>5. Range(commits') # Range(shas) /\ Range(shas) \subseteq WholeHistory
        <5>1. Range(commits') # Range(shas)
          BY <3>5, <4>1, <4>2, <4>4, FirstOnes
        <5>2. DOMAIN shas = 1..Len(shas) /\ \A i \in DOMAIN shas : shas[i] \in WholeHistory
          BY <3>5
        <5>3. Range(shas) \subseteq WholeHistory
          BY <5>2 DEF Range
        <5> QED
          BY <5>1, <5>3
      <4>6. Range(commits') \subseteq Range(shas)
        <5>1. DOMAIN commits' = 1..limit /\ DOMAIN shas = 1..m
          BY <3>1, <3>5, <4>3
        <5>2. \A i \in 1..limit : commits'[i] = shas[i] /\ i \in 1..m
          BY <3>1, <3>5, <4>1, <4>2
        <5> QED
          BY <5>1, <5>2 DEF Range
      <4>7. Range(commits') # WholeHistory
        BY <4>5, <4>6
      <4> QED
        BY <3>6, <3>8, <4>3, <4>7
    <3> QED
      BY <3>7, <3>8
  <2> QED
    BY <2>1, <2>2
<1>6. /\ Different(commits)' /\ Down(commits)'
      /\ (Range(commits) # WholeHistory)' = (Range(commits') # WholeHistory)
  <2>1. history' = history
    BY DEF Walk
  <2> QED
    BY <1>5, <2>1, SameHistory DEF Different, Down, Range
<1>7. Chosen' /\ Down(commits)'
  BY <1>5, <1>6, SameHistory DEF Chosen, Walk
<1> QED
  BY <1>7 DEF SelectionInv, Walk, EmptyTables

LEMMA SelectReplays ==
    ASSUME SelectionInv, Select PROVE SelectionInv'
<1> DEFINE n == Max({k \in 0..Len(commits) : Within(Nodes(k), policy.nodes)})
           p == SubSeq(commits, 1, n)
<1>1. /\ commits' = Reverse(p) /\ truncated' = (truncated \/ n < Len(commits))
      /\ phase' = "replay" /\ UNCHANGED <<history, policy, next, tables>>
  BY DEF Select
<1>2. Chosen /\ Down(commits) /\ phase = "select"
  BY DEF SelectionInv, Select
<1>3. n \in 0..Len(commits)
  BY <1>2, WithinLimit DEF SelectionInv, Chosen
<1> HIDE DEF n
<1>4. /\ p \in Seq(WholeHistory) /\ Len(p) = n /\ Different(p) /\ Down(p)
      /\ n = Len(commits) => p = commits
      /\ n < Len(commits) => Range(p) # Range(commits)
  BY <1>2, <1>3, FirstOnes DEF Chosen
<1>5. Len(commits) \in Nat /\ \A i \in 1..n : p[i] = commits[i]
  BY <1>2, <1>3 DEF Chosen
<1> HIDE DEF p
<1>6. Range(p) \subseteq Range(commits) /\ Range(commits) \subseteq WholeHistory
  <2>1. DOMAIN p = 1..n /\ DOMAIN commits = 1..Len(commits) /\ 1..n \subseteq 1..Len(commits)
    BY <1>2, <1>3, <1>4 DEF Chosen
  <2> QED
    BY <1>2, <1>5, <2>1 DEF Range, Chosen
<1>7. truncated' \in BOOLEAN /\ (truncated' <=> Range(p) # WholeHistory)
  <2>1. truncated \in BOOLEAN /\ (truncated <=> Range(commits) # WholeHistory)
    BY <1>2 DEF Chosen
  <2>2. CASE n = Len(commits)
    <3>1. truncated' = truncated
      BY <1>1, <1>5, <2>1, <2>2
    <3> QED
      BY <1>4, <2>1, <2>2, <3>1
  <2>3. CASE n < Len(commits)
    <3>1. truncated' = TRUE
      BY <1>1, <2>3
    <3> QED
      BY <1>4, <1>6, <2>3, <3>1
  <2> QED
    BY <1>3, <1>5, <2>2, <2>3
<1>8. /\ commits' \in Seq(WholeHistory) /\ Different(commits') /\ Up(commits')
      /\ Range(commits') = Range(p)
  BY <1>1, <1>4, Reversed
<1>9. Chosen' /\ Up(commits)'
  <2>1. history' = history
    BY <1>1
  <2>2. Different(commits)' /\ Up(commits)'
    BY <1>8, <2>1, SameHistory DEF Different, Up
  <2>3. Range(commits)' = Range(commits') /\ WholeHistory' = WholeHistory
    BY <2>1, SameHistory DEF Range
  <2> QED
    BY <1>7, <1>8, <2>2, <2>3 DEF Chosen
<1>10. next' \in 1..(Len(commits') + 1)
  <2>1. next' = 1 /\ Len(commits') \in Nat
    BY <1>1, <1>2, <1>8 DEF SelectionInv
  <2> QED
    BY <2>1
<1> QED
  BY <1>1, <1>9, <1>10 DEF SelectionInv

LEMMA SelectionKept ==
    ASSUME SelectionInv, [Next]_vars PROVE SelectionInv'
<1>1. CASE Walk
  BY <1>1, WalkSelects
<1>2. CASE Select
  BY <1>2, SelectReplays
<1>3. ASSUME UNCHANGED <<history, policy, commits, truncated>>
      PROVE  /\ (Chosen /\ Up(commits))' = (Chosen /\ Up(commits))
             /\ (Chosen /\ Down(commits))' = (Chosen /\ Down(commits))
  <2>1. history' = history
    BY <1>3
  <2> QED
    BY <1>3, <2>1, SameHistory DEF Chosen, Different, Up, Down, Range
<1>4. CASE Replay
  <2>1. /\ UNCHANGED <<history, policy, commits, truncated>> /\ phase = "replay"
        /\ phase' \in {"replay", "failed"} /\ next' = next + 1 /\ next <= Len(commits)
    BY <1>4 DEF Replay
  <2>2. Len(commits) \in Nat /\ next \in 1..(Len(commits) + 1)
    BY <2>1 DEF SelectionInv, Chosen
  <2>3. next' \in 1..(Len(commits') + 1)
    BY <2>1, <2>2
  <2> QED
    BY <1>3, <2>1, <2>3 DEF SelectionInv
<1>5. CASE Publish
  BY <1>3, <1>5 DEF SelectionInv, Publish
<1>6. CASE UNCHANGED vars
  BY <1>3, <1>6 DEF SelectionInv, vars
<1> QED
  BY <1>1, <1>2, <1>4, <1>5, <1>6 DEF Next

LEMMA SelectionStarts ==
    ASSUME Init PROVE SelectionInv
BY DEF Init, SelectionInv

\* History that is not said to be truncated is whole, and otherwise something
\* was left out, whatever the limits and the order of the walk.
THEOREM TruncationIsTold == Spec => []TruncationTold
<1>1. Init => SelectionInv
  BY SelectionStarts
<1>2. SelectionInv /\ [Next]_vars => SelectionInv'
  BY SelectionKept
<1>3. SelectionInv => TruncationTold
  BY DEF SelectionInv, TruncationTold, Chosen, WholeHistory
<1> QED
  BY <1>1, <1>2, <1>3, PTL DEF Spec
-----------------------------------------------------------------------------
(* Where a replay is *)

\* What a commit that is replayed finds, and leaves when it succeeds: stored is
\* what was replayed, with c.
Stored == Replayed \cup {commits[next]}

LEMMA ReplayOrder ==
    ASSUME SelectionInv, phase = "replay", next <= Len(commits)
    PROVE  LET c == commits[next]
           IN  /\ HistoryOK /\ Stored \subseteq All /\ c \in All /\ c \notin Replayed
               /\ \A d \in Replayed : c \notin Ancestors(d)
               /\ ~truncated => \A d \in Stored : history.parents[d] \subseteq Stored
<1> DEFINE c == commits[next]
<1>1. HistoryOK /\ Chosen /\ Up(commits)
  BY HistoriesAreOK DEF SelectionInv
<1>2. /\ Len(commits) \in Nat /\ DOMAIN commits = 1..Len(commits) /\ next \in 1..Len(commits)
      /\ \A i \in 1..Len(commits) : commits[i] \in WholeHistory
  BY <1>1 DEF SelectionInv, Chosen
<1>3. \A i \in 1..(next - 1) : i \in 1..Len(commits) /\ i < next
  BY <1>2
<1>4. WholeHistory \subseteq All
  BY <1>1, AncestorFacts DEF WholeHistory, HistoryOK
<1>5. Stored \subseteq All /\ c \in All
  BY <1>2, <1>3, <1>4 DEF Stored, Replayed
<1>6. c \notin Replayed
  <2> SUFFICES ASSUME NEW i \in 1..(next - 1), c = commits[i] PROVE FALSE
    BY DEF Replayed
  <2>1. i = next
    BY <1>1, <1>2, <1>3 DEF Chosen, Different
  <2> QED
    BY <1>2, <1>3, <2>1
<1>7. ASSUME NEW d \in Replayed, c \in Ancestors(d) PROVE FALSE
  <2>1. PICK i \in 1..(next - 1) : d = commits[i]
    BY DEF Replayed
  <2>2. next <= i
    BY <1>1, <1>2, <1>3, <1>7, <2>1 DEF Up
  <2> QED
    BY <1>2, <2>2
<1>8. ASSUME ~truncated, NEW d \in Stored, NEW p \in history.parents[d] PROVE p \in Stored
  <2>1. PICK j \in 1..next : d = commits[j]
    <3>1. \A k \in 1..(next - 1) : k \in 1..next
      BY <1>2
    <3>2. next \in 1..next
      BY <1>2
    <3> QED
      BY <3>1, <3>2 DEF Stored, Replayed
  <2>2. j \in 1..Len(commits)
    BY <1>2
  <2>3. d \in WholeHistory /\ d \in All /\ Range(commits) = WholeHistory
    BY <1>1, <1>2, <1>4, <1>8, <2>1, <2>2 DEF Chosen
  <2>4. p \in WholeHistory
    BY <1>1, <1>8, <2>3, AncestorFacts DEF WholeHistory, HistoryOK
  <2>5. PICK i \in 1..Len(commits) : p = commits[i]
    BY <1>2, <2>3, <2>4 DEF Range
  <2>6. p \in Ancestors(d)
    BY <1>1, <1>8, <2>3, AncestorFacts
  <2>7. i <= j
    BY <1>1, <1>2, <2>1, <2>2, <2>5, <2>6 DEF Up
  <2>8. i = next \/ i \in 1..(next - 1)
    BY <1>2, <2>7
  <2> QED
    BY <2>5, <2>8 DEF Stored, Replayed
<1> QED
  BY <1>1, <1>5, <1>6, <1>7, <1>8

\* The journal of c is performed action by action.
LEMMA JournalPerformed ==
    ASSUME NEW c, history.journal[c] \in Seq(Range(history.journal[c])), NEW t
    PROVE  \E f : /\ f[0] = t
                  /\ \A n \in 1..Len(history.journal[c]) :
                        f[n] = Perform(f[n-1], c, history.journal[c][n])
                  /\ Performed(t, c) = f[Len(history.journal[c])]
<1> DEFINE Body(f, m) == [n \in 0..m |->
               IF n = 0 THEN t ELSE Perform(f[n-1], c, history.journal[c][n])]
           N == Len(history.journal[c])
           T == {m \in 0..N : \E f : f = Body(f, m)}
<1>1. N \in Nat
  OBVIOUS
<1> HIDE DEF N
<1>2. 0 \in T
  <2> DEFINE g == [n \in 0..0 |-> t]
  <2>1. g = Body(g, 0)
    OBVIOUS
  <2> HIDE DEF g
  <2> QED
    BY <1>1, <2>1
<1>3. ASSUME NEW m \in 0..(N - 1), m \in T PROVE m + 1 \in T
  <2>1. PICK f : f = Body(f, m)
    BY <1>3
  <2> DEFINE g == [n \in 0..(m + 1) |->
                     IF n = m + 1 THEN Perform(f[m], c, history.journal[c][m + 1]) ELSE f[n]]
  <2>2. ASSUME NEW n \in 0..(m + 1)
        PROVE  g[n] = IF n = 0 THEN t ELSE Perform(g[n-1], c, history.journal[c][n])
    <3>1. CASE n = m + 1
      <4>1. n # 0 /\ n - 1 = m /\ m # m + 1 /\ m \in 0..(m + 1)
        BY <1>1, <3>1
      <4>2. g[m] = f[m] /\ g[m + 1] = Perform(f[m], c, history.journal[c][m + 1])
        BY <4>1
      <4> HIDE DEF g
      <4> QED
        BY <3>1, <4>1, <4>2
    <3>2. CASE n \in 0..m
      <4>1. g[n] = f[n] /\ (n # 0 => g[n-1] = f[n-1])
        BY <1>1, <3>2
      <4>2. f[n] = IF n = 0 THEN t ELSE Perform(f[n-1], c, history.journal[c][n])
        BY <2>1, <3>2, Zenon
      <4> HIDE DEF g
      <4> QED
        BY <4>1, <4>2
    <3> QED
      BY <1>1, <3>1, <3>2
  <2>3. g = Body(g, m + 1)
    <3>1. g = [n \in 0..(m + 1) |-> g[n]]
      OBVIOUS
    <3> HIDE DEF g
    <3> QED
      BY <2>2, <3>1
  <2>4. m + 1 \in 0..N
    BY <1>1
  <2> HIDE DEF g
  <2> QED
    BY <2>3, <2>4
<1>4. N \in T
  <2> HIDE DEF T
  <2>1. \A n \in 0..(N - 1) : n \in T => n + 1 \in T
    BY <1>3
  <2>2. 0..N \subseteq T
    BY <1>1, <1>2, <2>1, UpTo
  <2> QED
    BY <1>1, <2>2
<1> DEFINE h == CHOOSE f : f = Body(f, N)
<1>5. h = Body(h, N)
  BY <1>4, Zenon
<1>6. Performed(t, c) = h[N]
  BY Zenon DEF Performed, N
<1> HIDE DEF h
<1>7. ASSUME NEW n \in 0..N
      PROVE  h[n] = IF n = 0 THEN t ELSE Perform(h[n-1], c, history.journal[c][n])
  BY <1>5, Zenon
<1>8. 0 \in 0..N /\ \A n \in 1..N : n \in 0..N /\ n # 0
  BY <1>1
<1>9. h[0] = t /\ \A n \in 1..N : h[n] = Perform(h[n-1], c, history.journal[c][n])
  BY <1>7, <1>8, Zenon
<1> QED
  BY <1>6, <1>9 DEF N
-----------------------------------------------------------------------------
(* Entries *)

Fields == {"stored", "entry", "assigned", "column", "conflicts", "reach", "ranges", "ok"}
EntryRecord == [decision : BOOLEAN, decays : Nat, valid : BOOLEAN]
EntriesTyped(t) == t.entry \in [DOMAIN t.entry -> EntryRecord]

\* Metadata and stored commits of u are those of t.
OnlyEntries(t, u) ==
    /\ DOMAIN u = Fields
    /\ u.stored = t.stored /\ u.assigned = t.assigned /\ u.column = t.column /\ u.ok = t.ok
    /\ u.conflicts = t.conflicts /\ u.reach = t.reach /\ u.ranges = t.ranges

\* Decisions stay decisions, what is not valid stays so, and decays add up.
Lessens(t, u) ==
    \A e \in DOMAIN t.entry :
        /\ e \in DOMAIN u.entry /\ u.entry[e].decision = t.entry[e].decision
        /\ u.entry[e].valid => t.entry[e].valid
        /\ t.entry[e].decays <= u.entry[e].decays

LEMMA DecayFacts ==
    ASSUME NEW t, DOMAIN t = Fields, EntriesTyped(t), IsFiniteSet(DOMAIN t.entry),
           NEW c, NEW act
    PROVE  LET u == Decay(t, c, act)
           IN  /\ OnlyEntries(t, u) /\ EntriesTyped(u) /\ DOMAIN u.entry = DOMAIN t.entry
               /\ Lessens(t, u)
               /\ \A e : Target(t, c, act.of) = {e} /\ u.entry[e].valid =>
                            t.entry[e].decays + 1 <= u.entry[e].decays
<1>1. CASE Decay(t, c, act) = t /\ ~(\E e : Target(t, c, act.of) = {e} /\ t.entry[e].valid)
  BY <1>1 DEF OnlyEntries, EntriesTyped, Lessens, EntryRecord
<1>2. ASSUME NEW e, Target(t, c, act.of) = {e}, t.entry[e].valid,
             Decay(t, c, act) = [t EXCEPT !.entry[e].decays = @ + 1]
      PROVE  LET u == Decay(t, c, act)
             IN  /\ OnlyEntries(t, u) /\ EntriesTyped(u) /\ DOMAIN u.entry = DOMAIN t.entry
                 /\ Lessens(t, u)
                 /\ t.entry[e].decays + 1 <= u.entry[e].decays
  <2> DEFINE u == Decay(t, c, act)
             r == [t.entry[e] EXCEPT !.decays = @ + 1]
  <2>1. e \in DOMAIN t.entry
    BY <1>2 DEF Target
  <2>2. u = [t EXCEPT !.entry = [t.entry EXCEPT ![e] = r]]
    BY <1>2
  <2>3. t.entry[e] \in EntryRecord
    BY <2>1 DEF EntriesTyped
  <2>4. /\ r \in EntryRecord /\ r.decays = t.entry[e].decays + 1
        /\ r.decision = t.entry[e].decision /\ r.valid = t.entry[e].valid
    BY <2>3 DEF EntryRecord
  <2> HIDE DEF r, u
  <2>5. u.entry = [t.entry EXCEPT ![e] = r] /\ OnlyEntries(t, u)
    BY <2>2 DEF Fields, OnlyEntries
  <2>6. /\ DOMAIN u.entry = DOMAIN t.entry /\ u.entry[e] = r
        /\ \A x \in DOMAIN t.entry : x # e => u.entry[x] = t.entry[x]
        /\ u.entry \in [DOMAIN t.entry -> EntryRecord]
    BY <2>1, <2>4, <2>5 DEF EntriesTyped
  <2>7. Lessens(t, u)
    <3> SUFFICES ASSUME NEW x \in DOMAIN t.entry
                 PROVE  /\ u.entry[x].decision = t.entry[x].decision
                        /\ u.entry[x].valid => t.entry[x].valid
                        /\ t.entry[x].decays <= u.entry[x].decays
      BY <2>6 DEF Lessens
    <3>1. t.entry[x].decays \in Nat
      BY DEF EntriesTyped, EntryRecord
    <3> QED
      BY <2>4, <2>6, <3>1
  <2>8. t.entry[e].decays + 1 <= u.entry[e].decays
    <3>1. t.entry[e].decays \in Nat
      BY <2>3 DEF EntryRecord
    <3> QED
      BY <2>4, <2>6, <3>1
  <2> QED
    BY <2>5, <2>6, <2>7, <2>8 DEF EntriesTyped, u
<1>3. CASE \E e : Target(t, c, act.of) = {e} /\ t.entry[e].valid
  <2>1. PICK e : Target(t, c, act.of) = {e} /\ t.entry[e].valid
    BY <1>3
  <2>2. Cardinality(Target(t, c, act.of)) = 1 /\ (CHOOSE x \in Target(t, c, act.of) : TRUE) = e
    BY <2>1, FS_Singleton
  <2>3. Decay(t, c, act) = [t EXCEPT !.entry[e].decays = @ + 1]
    BY <2>1, <2>2 DEF Decay
  <2> QED
    BY <1>2, <2>1, <2>3
<1>4. CASE ~(\E e : Target(t, c, act.of) = {e} /\ t.entry[e].valid)
  <2>1. ASSUME Cardinality(Target(t, c, act.of)) = 1
        PROVE  ~t.entry[CHOOSE x \in Target(t, c, act.of) : TRUE].valid
    <3>1. PICK e : Target(t, c, act.of) = {e}
      <4>1. IsFiniteSet(Target(t, c, act.of))
        BY FS_Subset DEF Target
      <4> QED
        BY <2>1, <4>1, FS_Singleton
    <3> QED
      BY <1>4, <3>1
  <2>2. Decay(t, c, act) = t
    BY <2>1 DEF Decay
  <2> QED
    BY <1>1, <1>4, <2>2
<1> QED
  BY <1>3, <1>4

LEMMA CancelFacts ==
    ASSUME NEW t, DOMAIN t = Fields, EntriesTyped(t), IsFiniteSet(DOMAIN t.entry),
           NEW c, NEW act
    PROVE  LET u == Cancel(t, c, act)
           IN  /\ OnlyEntries(t, u) /\ EntriesTyped(u) /\ DOMAIN u.entry = DOMAIN t.entry
               /\ Lessens(t, u)
               /\ \A e : Target(t, c, act.of) = {e} /\ u.entry[e].decision => ~u.entry[e].valid
<1>1. CASE /\ Cancel(t, c, act) = t
           /\ ~(\E e : Target(t, c, act.of) = {e} /\ t.entry[e].decision)
  BY <1>1 DEF OnlyEntries, EntriesTyped, Lessens, EntryRecord
<1>2. ASSUME NEW e, Target(t, c, act.of) = {e}, t.entry[e].decision,
             Cancel(t, c, act) = [t EXCEPT !.entry[e].valid = FALSE]
      PROVE  LET u == Cancel(t, c, act)
             IN  /\ OnlyEntries(t, u) /\ EntriesTyped(u) /\ DOMAIN u.entry = DOMAIN t.entry
                 /\ Lessens(t, u)
                 /\ ~u.entry[e].valid
  <2> DEFINE u == Cancel(t, c, act)
             r == [t.entry[e] EXCEPT !.valid = FALSE]
  <2>1. e \in DOMAIN t.entry
    BY <1>2 DEF Target
  <2>2. u = [t EXCEPT !.entry = [t.entry EXCEPT ![e] = r]]
    BY <1>2
  <2>3. t.entry[e] \in EntryRecord
    BY <2>1 DEF EntriesTyped
  <2>4. /\ r \in EntryRecord /\ r.decays = t.entry[e].decays
        /\ r.decision = t.entry[e].decision /\ r.valid = FALSE
    BY <2>3 DEF EntryRecord
  <2> HIDE DEF r, u
  <2>5. u.entry = [t.entry EXCEPT ![e] = r] /\ OnlyEntries(t, u)
    BY <2>2 DEF Fields, OnlyEntries
  <2>6. /\ DOMAIN u.entry = DOMAIN t.entry /\ u.entry[e] = r
        /\ \A x \in DOMAIN t.entry : x # e => u.entry[x] = t.entry[x]
        /\ u.entry \in [DOMAIN t.entry -> EntryRecord]
    BY <2>1, <2>4, <2>5 DEF EntriesTyped
  <2>7. Lessens(t, u)
    <3> SUFFICES ASSUME NEW x \in DOMAIN t.entry
                 PROVE  /\ u.entry[x].decision = t.entry[x].decision
                        /\ u.entry[x].valid => t.entry[x].valid
                        /\ t.entry[x].decays <= u.entry[x].decays
      BY <2>6 DEF Lessens
    <3>1. t.entry[x].decays \in Nat
      BY DEF EntriesTyped, EntryRecord
    <3> QED
      BY <2>4, <2>6, <3>1
  <2> QED
    BY <2>4, <2>5, <2>6, <2>7 DEF EntriesTyped, u
<1>3. CASE \E e : Target(t, c, act.of) = {e} /\ t.entry[e].decision
  <2>1. PICK e : Target(t, c, act.of) = {e} /\ t.entry[e].decision
    BY <1>3
  <2>2. Cardinality(Target(t, c, act.of)) = 1 /\ (CHOOSE x \in Target(t, c, act.of) : TRUE) = e
    BY <2>1, FS_Singleton
  <2>3. Cancel(t, c, act) = [t EXCEPT !.entry[e].valid = FALSE]
    BY <2>1, <2>2 DEF Cancel
  <2> QED
    BY <1>2, <2>1, <2>3
<1>4. CASE ~(\E e : Target(t, c, act.of) = {e} /\ t.entry[e].decision)
  <2>1. ASSUME Cardinality(Target(t, c, act.of)) = 1
        PROVE  ~t.entry[CHOOSE x \in Target(t, c, act.of) : TRUE].decision
    <3>1. PICK e : Target(t, c, act.of) = {e}
      <4>1. IsFiniteSet(Target(t, c, act.of))
        BY FS_Subset DEF Target
      <4> QED
        BY <2>1, <4>1, FS_Singleton
    <3> QED
      BY <1>4, <3>1
  <2>2. Cancel(t, c, act) = t
    BY <2>1 DEF Cancel
  <2> QED
    BY <1>1, <1>4, <2>2
<1> QED
  BY <1>3, <1>4

LEMMA AddFacts ==
    ASSUME NEW t, DOMAIN t = Fields, EntriesTyped(t), NEW c, NEW act, act.decision \in BOOLEAN
    PROVE  LET u == AddEntry(t, c, act)
           IN  /\ OnlyEntries(t, u) /\ EntriesTyped(u) /\ DOMAIN u.entry = DOMAIN t.entry \cup {c}
               /\ \A e \in DOMAIN t.entry : e # c => u.entry[e] = t.entry[e]
<1> DEFINE u == AddEntry(t, c, act)
           r == [decision |-> act.decision, decays |-> 0, valid |-> TRUE]
           f == [e \in DOMAIN t.entry \cup {c} |-> IF e = c THEN r ELSE t.entry[e]]
<1>1. u = [t EXCEPT !.entry = f]
  BY DEF AddEntry
<1>2. r \in EntryRecord
  BY DEF EntryRecord
<1> HIDE DEF u, r
<1>3. f \in [DOMAIN t.entry \cup {c} -> EntryRecord]
  BY <1>2 DEF EntriesTyped
<1>4. /\ DOMAIN f = DOMAIN t.entry \cup {c}
      /\ \A e \in DOMAIN t.entry : e # c => f[e] = t.entry[e]
  OBVIOUS
<1> HIDE DEF f
<1>5. u.entry = f /\ OnlyEntries(t, u)
  BY <1>1 DEF Fields, OnlyEntries
<1> QED
  BY <1>3, <1>4, <1>5 DEF EntriesTyped, u

\* The first n actions of c that decay or cancel the entry of e
Names(c, e, i, do) ==
    /\ history.journal[c][i].do = do
    /\ e \in Ancestors(c) \ {c}
    /\ (history.journal[c][i].of \cap All) \ {c} = {e}
ActsOn(c, e, do, n) == {i \in DOMAIN history.journal[c] : i <= n /\ Names(c, e, i, do)}
Reached(t, c, e, n) ==
    /\ ActsOn(c, e, "cancel", n) # {} /\ t.entry[e].decision => ~t.entry[e].valid
    /\ t.entry[e].valid => Cardinality(ActsOn(c, e, "decay", n)) <= t.entry[e].decays

LEMMA MoreActs ==
    ASSUME NEW c, history.journal[c] \in Seq(Range(history.journal[c])), NEW e, NEW do,
           NEW n \in 0..(Len(history.journal[c]) - 1)
    PROVE  /\ ~Names(c, e, n + 1, do) => ActsOn(c, e, do, n + 1) = ActsOn(c, e, do, n)
           /\ Cardinality(ActsOn(c, e, do, n)) \in Nat
           /\ Cardinality(ActsOn(c, e, do, n + 1)) <= Cardinality(ActsOn(c, e, do, n)) + 1
<1> DEFINE N == Len(history.journal[c])
           A == ActsOn(c, e, do, n)
<1>1. N \in Nat /\ DOMAIN history.journal[c] = 1..N
  OBVIOUS
<1>2. \A i \in 1..N : i <= n + 1 <=> i <= n \/ i = n + 1
  BY <1>1
<1>3. ~Names(c, e, n + 1, do) => ActsOn(c, e, do, n + 1) = A
  BY <1>1, <1>2 DEF ActsOn
<1>4. ActsOn(c, e, do, n + 1) \subseteq A \cup {n + 1}
  BY <1>1, <1>2 DEF ActsOn
<1>5. A \subseteq 1..n
  BY <1>1 DEF ActsOn
<1> HIDE DEF A
<1>6. IsFiniteSet(A) /\ Cardinality(A) \in Nat
  <2>1. n \in Nat
    BY <1>1
  <2>2. IsFiniteSet(1..n)
    BY <2>1, FirstNumbers
  <2> QED
    BY <1>5, <2>2, FS_Subset, FS_CardinalityType
<1>7. /\ IsFiniteSet(A \cup {n + 1}) /\ Cardinality(A \cup {n + 1}) \in Nat
      /\ Cardinality(A \cup {n + 1}) <= Cardinality(A) + 1
  <2>1. /\ IsFiniteSet(A \cup {n + 1})
        /\ Cardinality(A \cup {n + 1}) \in {Cardinality(A), Cardinality(A) + 1}
    BY <1>6, FS_AddElement
  <2> QED
    BY <1>6, <2>1
<1>8. /\ Cardinality(ActsOn(c, e, do, n + 1)) <= Cardinality(A \cup {n + 1})
      /\ Cardinality(ActsOn(c, e, do, n + 1)) \in Nat
  BY <1>4, <1>7, FS_Subset, FS_CardinalityType
<1>9. Cardinality(ActsOn(c, e, do, n + 1)) <= Cardinality(A) + 1
  BY <1>6, <1>7, <1>8
<1> QED
  BY <1>3, <1>6, <1>9 DEF A

\* The entries after n actions of c, which began with those of t0
EntriesAfter(t, t0, c, n) ==
    /\ EntriesTyped(t) /\ Lessens(t0, t)
    /\ DOMAIN t.entry \subseteq DOMAIN t0.entry \cup {c}
    /\ \A e \in DOMAIN t0.entry : Reached(t, c, e, n)

LEMMA EntryActions ==
    ASSUME HistoryOK, NEW c \in All, NEW t0, DOMAIN t0.entry \subseteq All \ {c},
           EntriesTyped(t0),
           NEW t, DOMAIN t = Fields, t.ok, NEW n \in 0..(Len(history.journal[c]) - 1),
           EntriesAfter(t, t0, c, n),
           history.journal[c][n + 1].do # "meta"
    PROVE  LET u == Perform(t, c, history.journal[c][n + 1])
           IN  OnlyEntries(t, u) /\ EntriesAfter(u, t0, c, n + 1)
<1> DEFINE act == history.journal[c][n + 1]
           u == Perform(t, c, act)
<1>1. /\ history.journal[c] \in Seq(Range(history.journal[c]))
      /\ Len(history.journal[c]) \in Nat /\ n + 1 \in DOMAIN history.journal[c]
  BY DEF HistoryOK
<1>2. IsAction(act)
  BY <1>1 DEF HistoryOK, Range
<1>3. EntriesTyped(t) /\ IsFiniteSet(DOMAIN t.entry) /\ DOMAIN t.entry \subseteq All
  <2>1. DOMAIN t.entry \subseteq All
    BY DEF EntriesAfter
  <2> QED
    BY <2>1, FS_Subset DEF EntriesAfter, HistoryOK
<1>4. ASSUME OnlyEntries(t, u), EntriesTyped(u), Lessens(t0, u),
             DOMAIN u.entry \subseteq DOMAIN t.entry \cup {c},
             \A e \in DOMAIN t0.entry :
                /\ u.entry[e].decision = t.entry[e].decision
                /\ u.entry[e].valid => t.entry[e].valid
                /\ t.entry[e].decays <= u.entry[e].decays,
             \A e \in DOMAIN t0.entry : Names(c, e, n + 1, "cancel") =>
                (u.entry[e].decision => ~u.entry[e].valid),
             \A e \in DOMAIN t0.entry : Names(c, e, n + 1, "decay") =>
                (u.entry[e].valid => t.entry[e].decays + 1 <= u.entry[e].decays)
      PROVE  OnlyEntries(t, u) /\ EntriesAfter(u, t0, c, n + 1)
  <2> SUFFICES ASSUME NEW e \in DOMAIN t0.entry PROVE Reached(u, c, e, n + 1)
    BY <1>4 DEF EntriesAfter
  <2> HIDE DEF act, u
  <2>1. Reached(t, c, e, n)
    BY DEF EntriesAfter
  <2>2. ActsOn(c, e, "cancel", n + 1) # {} /\ u.entry[e].decision => ~u.entry[e].valid
    <3>1. CASE Names(c, e, n + 1, "cancel")
      BY <1>4, <3>1
    <3>2. CASE ~Names(c, e, n + 1, "cancel")
      <4>1. ActsOn(c, e, "cancel", n + 1) = ActsOn(c, e, "cancel", n)
        BY <1>1, <3>2, MoreActs
      <4> QED
        BY <1>4, <2>1, <4>1 DEF Reached
    <3> QED
      BY <3>1, <3>2
  <2>3. ASSUME u.entry[e].valid
        PROVE  Cardinality(ActsOn(c, e, "decay", n + 1)) <= u.entry[e].decays
    <3>1. /\ Cardinality(ActsOn(c, e, "decay", n)) <= t.entry[e].decays
          /\ t.entry[e].decays <= u.entry[e].decays
      BY <1>4, <2>1, <2>3 DEF Reached
    <3>2. t.entry[e].decays \in Nat /\ u.entry[e].decays \in Nat
      <4>1. e \in DOMAIN t.entry /\ e \in DOMAIN u.entry
        BY <1>4 DEF Lessens, EntriesAfter
      <4> QED
        BY <1>3, <1>4, <4>1 DEF EntriesTyped, EntryRecord
    <3>3. /\ Cardinality(ActsOn(c, e, "decay", n)) \in Nat
          /\ ~Names(c, e, n + 1, "decay") =>
                ActsOn(c, e, "decay", n + 1) = ActsOn(c, e, "decay", n)
          /\ Cardinality(ActsOn(c, e, "decay", n + 1)) <= Cardinality(ActsOn(c, e, "decay", n)) + 1
      BY <1>1, MoreActs
    <3>4. CASE ~Names(c, e, n + 1, "decay")
      BY <3>1, <3>2, <3>3, <3>4
    <3>5. CASE Names(c, e, n + 1, "decay")
      <4>1. t.entry[e].decays + 1 <= u.entry[e].decays
        BY <1>4, <2>3, <3>5
      <4>2. IsFiniteSet(ActsOn(c, e, "decay", n + 1))
        <5>1. ActsOn(c, e, "decay", n + 1) \subseteq 1..(n + 1) /\ n + 1 \in Nat
          BY <1>1 DEF ActsOn
        <5> QED
          BY <5>1, FirstNumbers, FS_Subset
      <4>3. Cardinality(ActsOn(c, e, "decay", n + 1)) \in Nat
        BY <4>2, FS_CardinalityType
      <4> QED
        BY <3>1, <3>2, <3>3, <4>1, <4>3
    <3> QED
      BY <3>4, <3>5
  <2> QED
    BY <2>2, <2>3 DEF Reached
<1>5. \A e \in DOMAIN t0.entry :
          /\ e \in DOMAIN t.entry /\ e # c /\ t.entry[e].decision = t0.entry[e].decision
          /\ t.entry[e].valid => t0.entry[e].valid
          /\ t0.entry[e].decays <= t.entry[e].decays
          /\ t0.entry[e].decays \in Nat /\ t.entry[e].decays \in Nat
  BY <1>3 DEF EntriesAfter, Lessens, EntriesTyped, EntryRecord
<1>6. ASSUME Lessens(t, u), EntriesTyped(u)
      PROVE  /\ Lessens(t0, u)
             /\ \A e \in DOMAIN t0.entry :
                /\ u.entry[e].decision = t.entry[e].decision
                /\ u.entry[e].valid => t.entry[e].valid
                /\ t.entry[e].decays <= u.entry[e].decays
  <2> HIDE DEF act, u
  <2>1. \A e \in DOMAIN t0.entry : e \in DOMAIN u.entry /\ u.entry[e].decays \in Nat
    BY <1>5, <1>6 DEF Lessens, EntriesTyped, EntryRecord
  <2> QED
    BY <1>5, <1>6, <2>1 DEF Lessens
<1>7. ASSUME NEW e \in DOMAIN t0.entry, NEW do, Names(c, e, n + 1, do)
      PROVE  Target(t, c, act.of) = {e}
  BY <1>3, <1>5, <1>7 DEF Names, Target
<1>8. ASSUME act.do = "decay"
      PROVE  OnlyEntries(t, u) /\ EntriesAfter(u, t0, c, n + 1)
  <2>1. u = Decay(t, c, act)
    BY <1>8 DEF Perform
  <2>2. \A e : ~Names(c, e, n + 1, "cancel")
    BY <1>8 DEF Names
  <2> HIDE DEF u, act
  <2>3. /\ OnlyEntries(t, u) /\ EntriesTyped(u) /\ DOMAIN u.entry = DOMAIN t.entry
        /\ Lessens(t, u)
        /\ \A e : Target(t, c, act.of) = {e} /\ u.entry[e].valid =>
                     t.entry[e].decays + 1 <= u.entry[e].decays
    BY <1>3, <2>1, DecayFacts
  <2> QED
    BY <1>4, <1>6, <1>7, <2>2, <2>3
<1>9. ASSUME act.do = "cancel"
      PROVE  OnlyEntries(t, u) /\ EntriesAfter(u, t0, c, n + 1)
  <2>1. u = Cancel(t, c, act)
    BY <1>9 DEF Perform
  <2>2. \A e : ~Names(c, e, n + 1, "decay")
    BY <1>9 DEF Names
  <2> HIDE DEF u, act
  <2>3. /\ OnlyEntries(t, u) /\ EntriesTyped(u) /\ DOMAIN u.entry = DOMAIN t.entry
        /\ Lessens(t, u)
        /\ \A e : Target(t, c, act.of) = {e} /\ u.entry[e].decision => ~u.entry[e].valid
    BY <1>3, <2>1, CancelFacts
  <2> QED
    BY <1>4, <1>6, <1>7, <2>2, <2>3
<1>10. ASSUME act.do = "entry"
      PROVE  OnlyEntries(t, u) /\ EntriesAfter(u, t0, c, n + 1)
  <2>1. u = AddEntry(t, c, act) /\ act.decision \in BOOLEAN
    BY <1>2, <1>10 DEF Perform, IsAction
  <2>2. \A e : ~Names(c, e, n + 1, "decay") /\ ~Names(c, e, n + 1, "cancel")
    BY <1>10 DEF Names
  <2> HIDE DEF u, act
  <2>3. /\ OnlyEntries(t, u) /\ EntriesTyped(u) /\ DOMAIN u.entry = DOMAIN t.entry \cup {c}
        /\ \A e \in DOMAIN t.entry : e # c => u.entry[e] = t.entry[e]
    BY <1>3, <2>1, AddFacts
  <2>4. \A e \in DOMAIN t0.entry : e \in DOMAIN u.entry /\ u.entry[e] = t.entry[e]
    BY <1>5, <2>3
  <2>5. Lessens(t0, u)
    BY <1>5, <2>4 DEF Lessens
  <2> QED
    BY <1>4, <1>5, <2>2, <2>3, <2>4, <2>5
<1>11. act.do \in {"entry", "decay", "cancel", "meta"}
  BY <1>2 DEF IsAction
<1> QED
  BY <1>8, <1>9, <1>10, <1>11
-----------------------------------------------------------------------------
(* Cached ancestry *)

\* Commits of the history that lack no parent
Whole(W) == W \in SUBSET All /\ \A d \in W : history.parents[d] \subseteq W

CachesTrue(t) ==
    /\ \A p \in DOMAIN t.reach :
          /\ p = <<p[1], p[2]>> /\ p[1] # p[2]
          /\ t.reach[p] <=> p[2] \in Ancestors(p[1])
    /\ \A p \in DOMAIN t.ranges : p = <<p[1], p[2]>> /\ t.ranges[p] = Between(p[1], p[2])

Ready(t, W) ==
    /\ DOMAIN t = Fields /\ t.stored = W /\ CachesTrue(t)
    /\ DOMAIN t.column = W /\ \A x \in W : DOMAIN t.column[x] = Keys

OnlyCaches(t, u) ==
    /\ u.entry = t.entry /\ u.assigned = t.assigned /\ u.conflicts = t.conflicts
    /\ u.column = t.column /\ u.ok = t.ok

LEMMA AskTrue ==
    ASSUME HistoryOK, NEW W, Whole(W), NEW t, Ready(t, W), NEW d \in W, NEW a
    PROVE  IsAncestor(t, d, a) <=> a \in Ancestors(d)
<1>1. Reach(W, d) = Ancestors(d)
  BY ReachInWhole DEF Whole
<1>2. d \in Ancestors(d)
  BY AncestorFacts DEF Whole
<1>3. ASSUME <<d, a>> \in DOMAIN t.reach
      PROVE  t.reach[<<d, a>>] <=> a \in Ancestors(d)
  BY <1>3 DEF Ready, CachesTrue
<1> QED
  BY <1>1, <1>2, <1>3 DEF IsAncestor, Ready

LEMMA AskedTrue ==
    ASSUME HistoryOK, NEW W, Whole(W), NEW t, Ready(t, W), NEW pairs,
           \A p \in pairs : p = <<p[1], p[2]>> /\ p[1] \in W
    PROVE  OnlyCaches(t, Asked(t, pairs)) /\ Ready(Asked(t, pairs), W)
<1> DEFINE u == Asked(t, pairs)
           known == {p \in pairs : p[1] # p[2]}
           f == [p \in DOMAIN t.reach \cup known |-> IsAncestor(t, p[1], p[2])]
<1>1. u = [t EXCEPT !.reach = f]
  BY DEF Asked
<1>2. ASSUME NEW p \in DOMAIN t.reach \cup known
      PROVE  p = <<p[1], p[2]>> /\ p[1] # p[2] /\ (f[p] <=> p[2] \in Ancestors(p[1]))
  <2>1. CASE p \in known
    BY <2>1, AskTrue
  <2>2. CASE p \in DOMAIN t.reach
    <3>1. /\ p = <<p[1], p[2]>> /\ p[1] # p[2]
          /\ t.reach[p] <=> p[2] \in Ancestors(p[1])
      BY <2>2 DEF Ready, CachesTrue
    <3> QED
      BY <2>2, <3>1 DEF IsAncestor
  <2> QED
    BY <2>1, <2>2
<1>3. DOMAIN f = DOMAIN t.reach \cup known
  OBVIOUS
<1> HIDE DEF u, f
<1>4. u.reach = f /\ u.stored = t.stored /\ u.ranges = t.ranges /\ DOMAIN u = Fields
  BY <1>1 DEF Ready, Fields
<1>5. OnlyCaches(t, u)
  BY <1>1 DEF Ready, Fields, OnlyCaches
<1>6. CachesTrue(u)
  BY <1>2, <1>3, <1>4 DEF CachesTrue, Ready
<1> QED
  BY <1>4, <1>5, <1>6 DEF Ready, OnlyCaches, u

LEMMA RangeTrue ==
    ASSUME HistoryOK, NEW W, Whole(W), NEW t, Ready(t, W), NEW from \in W, NEW to \in W
    PROVE  RangeOf(t, from, to) = Between(from, to) /\ Between(from, to) \subseteq W
<1>1. Reach(W, to) = Ancestors(to) /\ Ancestors(to) \subseteq W
  BY ReachInWhole DEF Whole
<1>2. \A x \in W : Reach(W, x) = Ancestors(x)
  BY ReachInWhole DEF Whole
<1>3. {x \in t.stored : from \in Reach(t.stored, x) /\ x \in Reach(t.stored, to)}
        = Between(from, to)
  BY <1>1, <1>2 DEF Between, Ready
<1>4. ASSUME <<from, to>> \in DOMAIN t.ranges
      PROVE  t.ranges[<<from, to>>] = Between(from, to)
  BY <1>4 DEF Ready, CachesTrue
<1> QED
  BY <1>1, <1>3, <1>4 DEF RangeOf, Between

\* A patch that succeeds assigns or adds to the commits between the two that it
\* names, all of them replayed, and asks nothing whose answer could change.
LEMMA PatchFacts ==
    ASSUME HistoryOK, NEW W \in SUBSET All, ~truncated => Whole(W), NEW t, Ready(t, W),
           NEW c \in W, NEW act, Patch(t, c, act).ok
    PROVE  \E v, targets :
              /\ OnlyCaches(t, v) /\ Ready(v, W) /\ Whole(W)
              /\ targets = Between(Named(c, act.from), Named(c, act.to))
              /\ targets \subseteq Ancestors(c) /\ Ancestors(c) \subseteq W
              /\ Patch(t, c, act) = IF act.operator = "add" THEN AddValue(v, targets, act)
                                    ELSE Assign(v, c, targets, act)
<1> DEFINE froms == act.from \cap W
           tos   == act.to \cap W
           from  == CHOOSE x \in froms : TRUE
           to    == CHOOSE x \in tos : TRUE
           named == ~truncated /\ Cardinality(froms) = 1 /\ Cardinality(tos) = 1
           found == /\ IsAncestor(t, to, from)
                    /\ c \notin {from, to}
                    /\ IsAncestor(t, c, from) /\ IsAncestor(t, c, to)
           targets == RangeOf(t, from, to)
           ranges  == [p \in DOMAIN t.ranges \cup {<<from, to>>} |-> RangeOf(t, p[1], p[2])]
           r       == [t EXCEPT !.ranges = ranges]
           v       == Asked(r, {<<to, from>>, <<c, from>>, <<c, to>>})
<1>1. Patch(t, c, act) =
        IF ~named \/ ~found THEN Failed(t)
        ELSE IF act.operator = "add" THEN AddValue(v, targets, act)
        ELSE Assign(v, c, targets, act)
  BY DEF Patch, Ready
<1>2. Failed(t).ok = FALSE
  BY DEF Failed, Ready, Fields
<1>3. named /\ found
  BY <1>1, <1>2
<1>4. Whole(W) /\ IsFiniteSet(froms) /\ IsFiniteSet(tos)
  BY <1>3, FS_Subset DEF HistoryOK
<1>5. froms = {from} /\ tos = {to}
  <2>1. PICK x, y : froms = {x} /\ tos = {y}
    BY <1>3, <1>4, FS_Singleton
  <2> QED
    BY <2>1
<1> HIDE DEF from, to
<1>6. from \in W /\ to \in W
  BY <1>5
<1>7. from \in Ancestors(c) /\ to \in Ancestors(c) /\ from \in Ancestors(to)
  BY <1>3, <1>4, <1>6, AskTrue
<1>8. Ancestors(c) \subseteq W /\ c \in All
  BY <1>4, ReachInWhole DEF Whole
<1>9. Named(c, act.from) = from /\ Named(c, act.to) = to
  <2>1. act.from \cap Ancestors(c) = {from} /\ act.to \cap Ancestors(c) = {to}
    BY <1>5, <1>7, <1>8
  <2> QED
    BY <2>1 DEF Named
<1>10. targets = Between(from, to) /\ targets \subseteq W
  BY <1>4, <1>6, RangeTrue
<1>11. targets \subseteq Ancestors(c)
  BY <1>7, <1>8, <1>10, AncestorsOfAncestors DEF Between
<1>12. ASSUME NEW p \in DOMAIN t.ranges \cup {<<from, to>>}
       PROVE  p = <<p[1], p[2]>> /\ ranges[p] = Between(p[1], p[2])
  <2>1. CASE p = <<from, to>>
    BY <1>10, <2>1
  <2>2. CASE p \in DOMAIN t.ranges
    <3>1. p = <<p[1], p[2]>> /\ t.ranges[p] = Between(p[1], p[2])
      BY <2>2 DEF Ready, CachesTrue
    <3> QED
      BY <2>2, <3>1 DEF RangeOf
  <2> QED
    BY <2>1, <2>2
<1>13. DOMAIN ranges = DOMAIN t.ranges \cup {<<from, to>>}
  OBVIOUS
<1> HIDE DEF ranges
<1>14. /\ DOMAIN r = Fields /\ r.stored = t.stored /\ r.reach = t.reach
       /\ r.ranges = ranges /\ OnlyCaches(t, r)
  BY DEF Ready, Fields, OnlyCaches
<1> HIDE DEF r
<1>15. Ready(r, W)
  BY <1>12, <1>13, <1>14 DEF Ready, CachesTrue, OnlyCaches
<1>16. OnlyCaches(r, v) /\ Ready(v, W)
  <2>1. \A p \in {<<to, from>>, <<c, from>>, <<c, to>>} : p = <<p[1], p[2]>> /\ p[1] \in W
    BY <1>6
  <2> QED
    BY <1>4, <1>15, <2>1, AskedTrue
<1> HIDE DEF v
<1>17. OnlyCaches(t, v)
  BY <1>14, <1>16 DEF OnlyCaches
<1>18. Patch(t, c, act) = IF act.operator = "add" THEN AddValue(v, targets, act)
                          ELSE Assign(v, c, targets, act)
  BY <1>1, <1>3
<1> HIDE DEF targets
<1> QED
  BY <1>4, <1>8, <1>9, <1>10, <1>11, <1>16, <1>17, <1>18
-----------------------------------------------------------------------------
(* Assignments *)

Rows(t, x, key) == {r \in t.assigned : r.target = x /\ r.key = key}
ValuesOf(rows) == {r.value : r \in rows}

OnlyMore(v, u, W) ==
    /\ Ready(u, W) /\ u.entry = v.entry /\ u.assigned = v.assigned
    /\ u.conflicts = v.conflicts /\ u.ok = v.ok
    /\ \A x \in W, key \in Keys : v.column[x][key] \subseteq u.column[x][key]

LEMMA AddValueFacts ==
    ASSUME NEW W, NEW v, Ready(v, W), NEW targets, NEW act, AddValue(v, targets, act).ok
    PROVE  OnlyMore(v, AddValue(v, targets, act), W)
<1> DEFINE u == AddValue(v, targets, act)
           col(x) == IF x \in targets /\ v.column[x][act.key] # Null
                     THEN [v.column[x] EXCEPT ![act.key] = @ \cup {act.value}] ELSE v.column[x]
           f == [x \in DOMAIN v.column |-> col(x)]
<1>1. Failed(v).ok = FALSE
  BY DEF Failed, Ready, Fields
<1>2. u = [v EXCEPT !.column = f]
  BY <1>1 DEF AddValue
<1>3. \A x : /\ DOMAIN col(x) = DOMAIN v.column[x]
             /\ \A key \in DOMAIN v.column[x] : v.column[x][key] \subseteq col(x)[key]
  OBVIOUS
<1> HIDE DEF u, col
<1>4. DOMAIN f = W /\ \A x \in W : f[x] = col(x)
  BY DEF Ready
<1> HIDE DEF f
<1>5. /\ DOMAIN u = Fields /\ u.column = f /\ u.stored = v.stored /\ u.entry = v.entry
      /\ u.assigned = v.assigned /\ u.conflicts = v.conflicts /\ u.ok = v.ok
      /\ u.reach = v.reach /\ u.ranges = v.ranges
  BY <1>2 DEF Ready, Fields
<1>6. Ready(u, W)
  BY <1>3, <1>4, <1>5 DEF Ready, CachesTrue
<1>7. \A x \in W, key \in Keys : v.column[x][key] \subseteq u.column[x][key]
  BY <1>3, <1>4, <1>5 DEF Ready
<1> QED
  BY <1>5, <1>6, <1>7 DEF u, OnlyMore

\* What the rows of a commit and a key become when c assigns to them
Fresh(x, key, c, value) == [target |-> x, key |-> key, source |-> c, value |-> value]
AfterAssign(rows, x, key, c, value) ==
    (IF \A r \in rows : r.source \in Ancestors(c) THEN {}
     ELSE {r \in rows : r.source # c}) \cup {Fresh(x, key, c, value)}

Reassigned(v, u, W, c, targets, act) ==
    /\ Ready(u, W) /\ u.entry = v.entry /\ u.ok = v.ok
    /\ \A x, key :
          IF x \in targets /\ key = act.key
          THEN /\ Rows(u, x, key) = AfterAssign(Rows(v, x, key), x, key, c, act.value)
               /\ <<x, key>> \in u.conflicts
                     <=> Cardinality(ValuesOf(Rows(u, x, key))) > 1
               /\ x \in W /\ key \in Keys =>
                     u.column[x][key] = ColumnOf(key, ValuesOf(Rows(u, x, key)))
          ELSE /\ Rows(u, x, key) = Rows(v, x, key)
               /\ <<x, key>> \in u.conflicts <=> <<x, key>> \in v.conflicts
               /\ x \in W /\ key \in Keys => u.column[x][key] = v.column[x][key]

LEMMA AssignFacts ==
    ASSUME HistoryOK, NEW W, Whole(W), NEW v, Ready(v, W), NEW c \in W, NEW targets, NEW act
    PROVE  Reassigned(v, Assign(v, c, targets, act), W, c, targets, act)
<1> DEFINE u == Assign(v, c, targets, act)
           rows(x)  == {r \in v.assigned : r.target = x /\ r.key = act.key}
           gone(x)  == IF Replaces(v, c, rows(x)) THEN rows(x)
                       ELSE {r \in rows(x) : r.source = c}
           fresh(x) == [target |-> x, key |-> act.key, source |-> c, value |-> act.value]
           kept(x)  == (rows(x) \ gone(x)) \cup {fresh(x)}
           values(x) == {r.value : r \in kept(x)}
           mixed    == {x \in targets : Cardinality(values(x)) > 1}
           asked    == UNION {{<<c, r.source>> : r \in rows(x)} : x \in targets}
           w        == Asked(v, asked)
           A == (w.assigned \ UNION {rows(x) : x \in targets}) \cup UNION {kept(x) : x \in targets}
           C == (w.conflicts \ (targets \X {act.key})) \cup (mixed \X {act.key})
           col(x) == IF x \in targets
                     THEN [w.column[x] EXCEPT ![act.key] = ColumnOf(act.key, values(x))]
                     ELSE w.column[x]
           f == [x \in DOMAIN w.column |-> col(x)]
<1>1. u = [w EXCEPT !.assigned = A, !.conflicts = C, !.column = f]
  BY DEF Assign
<1>2. OnlyCaches(v, w) /\ Ready(w, W)
  <2>1. \A p \in asked : p = <<p[1], p[2]>> /\ p[1] \in W
    OBVIOUS
  <2> HIDE DEF asked
  <2> QED
    BY <2>1, AskedTrue
<1>3. \A x : rows(x) = Rows(v, x, act.key)
  BY DEF Rows
<1>4. \A x : kept(x) = AfterAssign(rows(x), x, act.key, c, act.value)
  <2> TAKE x
  <2>1. Replaces(v, c, rows(x)) <=> \A r \in rows(x) : r.source \in Ancestors(c)
    BY AskTrue DEF Replaces
  <2> QED
    BY <2>1 DEF AfterAssign, Fresh
<1>5. \A x : \A r \in kept(x) : r.target = x /\ r.key = act.key
  OBVIOUS
<1>6. \A x : \A r : r \in rows(x) <=> r \in v.assigned /\ r.target = x /\ r.key = act.key
  OBVIOUS
<1> HIDE DEF rows, kept
<1>7. \A r : r \in A <=> \/ r \in w.assigned /\ \A y \in targets : r \notin rows(y)
                        \/ \E y \in targets : r \in kept(y)
  OBVIOUS
<1> HIDE DEF A
<1> HIDE DEF u, w, mixed
<1>8. DOMAIN f = W /\ \A x \in W : f[x] = col(x)
  BY <1>2 DEF Ready
<1>9. /\ DOMAIN u = Fields /\ u.assigned = A /\ u.conflicts = C /\ u.column = f
      /\ u.stored = w.stored /\ u.entry = w.entry /\ u.ok = w.ok
      /\ u.reach = w.reach /\ u.ranges = w.ranges
  <2> HIDE DEF C, f
  <2> QED
    BY <1>1, <1>2 DEF Ready, Fields
<1>10. Ready(u, W)
  <2>1. \A x \in W : DOMAIN f[x] = Keys
    BY <1>2, <1>8 DEF Ready
  <2> HIDE DEF f
  <2> QED
    BY <1>2, <1>8, <1>9, <2>1 DEF Ready, CachesTrue
<1>11. u.entry = v.entry /\ u.ok = v.ok
  BY <1>2, <1>9 DEF OnlyCaches
<1>12. w.assigned = v.assigned /\ w.conflicts = v.conflicts /\ w.column = v.column
  BY <1>2 DEF OnlyCaches
<1>13. ASSUME NEW x \in targets
       PROVE  /\ Rows(u, x, act.key) = kept(x)
              /\ <<x, act.key>> \in u.conflicts <=> Cardinality(values(x)) > 1
              /\ x \in W /\ act.key \in Keys =>
                    u.column[x][act.key] = ColumnOf(act.key, values(x))
  <2>1. Rows(u, x, act.key) = kept(x)
    <3>1. ASSUME NEW r \in A, r.target = x, r.key = act.key PROVE r \in kept(x)
      BY <1>5, <1>12, <1>6, <1>7, <3>1
    <3>2. ASSUME NEW r \in kept(x) PROVE r \in A /\ r.target = x /\ r.key = act.key
      BY <1>5, <1>7, <3>2
    <3> QED
      BY <1>9, <3>1, <3>2 DEF Rows
  <2>2. <<x, act.key>> \in u.conflicts <=> Cardinality(values(x)) > 1
    <3> HIDE DEF values
    <3> QED
      BY <1>9 DEF mixed
  <2>3. ASSUME x \in W, act.key \in Keys
        PROVE  u.column[x][act.key] = ColumnOf(act.key, values(x))
    <3> HIDE DEF values
    <3>1. act.key \in DOMAIN w.column[x]
      BY <1>2, <2>3 DEF Ready
    <3> QED
      BY <1>8, <1>9, <2>3, <3>1
  <2> QED
    BY <2>1, <2>2, <2>3
<1>14. ASSUME NEW x, NEW key, ~(x \in targets /\ key = act.key)
       PROVE  /\ Rows(u, x, key) = Rows(v, x, key)
              /\ <<x, key>> \in u.conflicts <=> <<x, key>> \in v.conflicts
              /\ x \in W /\ key \in Keys => u.column[x][key] = v.column[x][key]
  <2>1. Rows(u, x, key) = Rows(v, x, key)
    <3>1. ASSUME NEW r \in A, r.target = x, r.key = key PROVE r \in v.assigned
      BY <1>5, <1>12, <1>14, <1>7, <3>1
    <3>2. ASSUME NEW r \in v.assigned, r.target = x, r.key = key PROVE r \in A
      BY <1>12, <1>14, <1>6, <1>7, <3>2
    <3> QED
      BY <1>9, <3>1, <3>2 DEF Rows
  <2>2. <<x, key>> \in u.conflicts <=> <<x, key>> \in v.conflicts
    <3>1. mixed \subseteq targets
      BY DEF mixed
    <3> QED
      BY <1>9, <1>12, <1>14, <3>1
  <2>3. ASSUME x \in W, key \in Keys PROVE u.column[x][key] = v.column[x][key]
    <3>1. f[x] = col(x)
      BY <1>8, <2>3
    <3> HIDE DEF f, values
    <3> QED
      BY <1>9, <1>12, <1>14, <2>3, <3>1
  <2> QED
    BY <2>1, <2>2, <2>3
<1>15. \A x : values(x) = ValuesOf(kept(x))
  BY DEF ValuesOf
<1> HIDE DEF values, C, f, col
<1>16. ASSUME NEW x, NEW key, x \in targets, key = act.key
       PROVE  /\ Rows(u, x, key) = AfterAssign(Rows(v, x, key), x, key, c, act.value)
              /\ <<x, key>> \in u.conflicts <=> Cardinality(ValuesOf(Rows(u, x, key))) > 1
              /\ x \in W /\ key \in Keys =>
                    u.column[x][key] = ColumnOf(key, ValuesOf(Rows(u, x, key)))
  BY <1>3, <1>4, <1>13, <1>15, <1>16
<1> QED
  BY <1>10, <1>11, <1>14, <1>16 DEF u, Reassigned

\* Who assigns twice replaces its own first value only.
LEMMA AssignTwice ==
    ASSUME HistoryOK, NEW c \in All, NEW rows, NEW x, NEW key, NEW first, NEW value
    PROVE  AfterAssign(AfterAssign(rows, x, key, c, first), x, key, c, value)
             = AfterAssign(rows, x, key, c, value)
<1>1. c \in Ancestors(c)
  BY AncestorFacts
<1> DEFINE mid == AfterAssign(rows, x, key, c, first)
<1>2. Fresh(x, key, c, first).source = c
  BY DEF Fresh
<1>3. CASE \A r \in rows : r.source \in Ancestors(c)
  <2>1. mid = {Fresh(x, key, c, first)}
    BY <1>3 DEF AfterAssign
  <2> QED
    BY <1>1, <1>2, <1>3, <2>1 DEF AfterAssign
<1>4. CASE ~(\A r \in rows : r.source \in Ancestors(c))
  <2>1. mid = {r \in rows : r.source # c} \cup {Fresh(x, key, c, first)}
    BY <1>4 DEF AfterAssign
  <2>2. ~(\A r \in mid : r.source \in Ancestors(c))
    BY <1>1, <1>4, <2>1
  <2>3. {r \in mid : r.source # c} = {r \in rows : r.source # c}
    BY <1>2, <2>1
  <2> HIDE DEF mid
  <2>4. AfterAssign(mid, x, key, c, value)
          = {r \in mid : r.source # c} \cup {Fresh(x, key, c, value)}
    BY <2>2 DEF AfterAssign
  <2>5. AfterAssign(rows, x, key, c, value)
          = {r \in rows : r.source # c} \cup {Fresh(x, key, c, value)}
    BY <1>4 DEF AfterAssign
  <2> QED
    BY <2>3, <2>4, <2>5 DEF mid
<1> QED
  BY <1>3, <1>4

\* What the first n actions of c made of the assignments to a key of x that t0
\* had: nothing, or that of the last of them.
Done(c, x, key, n) == {i \in Assigning(c, x, key) : i <= n}

Untouched(t, t0, x, key) ==
    /\ Rows(t, x, key) = Rows(t0, x, key)
    /\ <<x, key>> \in t.conflicts <=> <<x, key>> \in t0.conflicts
    /\ x \in t0.stored /\ key \in Keys => t0.column[x][key] \subseteq t.column[x][key]

Assigned(t, t0, c, x, key, value) ==
    /\ x \in Ancestors(c)
    /\ Rows(t, x, key) = AfterAssign(Rows(t0, x, key), x, key, c, value)
    /\ <<x, key>> \in t.conflicts <=> Cardinality(ValuesOf(Rows(t, x, key))) > 1
    /\ x \in t0.stored /\ key \in Keys /\ value # Null
       /\ (\A r \in Rows(t0, x, key) : r.source \in Ancestors(c)) => value \in t.column[x][key]

ValueAt(c, i) == history.journal[c][i].value

MetaAfter(t, t0, c, n) ==
    \A x, key :
       /\ Done(c, x, key, n) = {} => Untouched(t, t0, x, key)
       /\ \A i \in Done(c, x, key, n) :
             (\A j \in Done(c, x, key, n) : j <= i) => Assigned(t, t0, c, x, key, ValueAt(c, i))

OneMoreDone(c, x, key, n) ==
    /\ Done(c, x, key, n) \subseteq 1..n
    /\ n + 1 \notin Assigning(c, x, key) =>
          Done(c, x, key, n + 1) = Done(c, x, key, n)
    /\ n + 1 \in Assigning(c, x, key) =>
          Done(c, x, key, n + 1) = Done(c, x, key, n) \cup {n + 1}

LEMMA DoneNext ==
    ASSUME NEW c, history.journal[c] \in Seq(Range(history.journal[c])), NEW x, NEW key,
           NEW n \in 0..(Len(history.journal[c]) - 1)
    PROVE  OneMoreDone(c, x, key, n)
<1>1. Assigning(c, x, key) \subseteq 1..Len(history.journal[c])
  BY DEF Assigning
<1>2. Len(history.journal[c]) \in Nat
  OBVIOUS
<1>3. \A i \in 1..Len(history.journal[c]) : i <= n + 1 <=> i <= n \/ i = n + 1
  BY <1>2
<1> QED
  BY <1>1, <1>2, <1>3 DEF Done, OneMoreDone

LEMMA NotAssigned ==
    ASSUME NEW c, history.journal[c] \in Seq(Range(history.journal[c])), NEW x, NEW key,
           NEW n \in 0..(Len(history.journal[c]) - 1),
           n + 1 \notin Assigning(c, x, key),
           NEW t0, NEW t, MetaAfter(t, t0, c, n), NEW u,
           Untouched(u, t, x, key), t.stored = t0.stored
    PROVE  /\ Done(c, x, key, n + 1) = {} => Untouched(u, t0, x, key)
           /\ \A i \in Done(c, x, key, n + 1) :
                 (\A j \in Done(c, x, key, n + 1) : j <= i)
                    => Assigned(u, t0, c, x, key, ValueAt(c, i))
<1>1. Done(c, x, key, n + 1) = Done(c, x, key, n)
  <2>1. OneMoreDone(c, x, key, n)
    BY DoneNext
  <2> QED
    BY <2>1 DEF OneMoreDone
<1>2. ASSUME Done(c, x, key, n) = {} PROVE Untouched(u, t0, x, key)
  BY <1>2 DEF MetaAfter, Untouched
<1>3. ASSUME NEW i \in Done(c, x, key, n), \A j \in Done(c, x, key, n) : j <= i
      PROVE  Assigned(u, t0, c, x, key, ValueAt(c, i))
  <2>1. Assigned(t, t0, c, x, key, ValueAt(c, i))
    BY <1>3 DEF MetaAfter
  <2> QED
    BY <2>1 DEF Assigned, Untouched
<1> QED
  BY <1>1, <1>2, <1>3

LEMMA NowAssigned ==
    ASSUME HistoryOK, NEW c \in All, NEW x, NEW key,
           history.journal[c] \in Seq(Range(history.journal[c])),
           NEW n \in 0..(Len(history.journal[c]) - 1),
           n + 1 \in Assigning(c, x, key), x \in Ancestors(c),
           NEW t0, NEW t, MetaAfter(t, t0, c, n), NEW u, NEW value,
           value = ValueAt(c, n + 1),
           Rows(u, x, key) = AfterAssign(Rows(t, x, key), x, key, c, value),
           <<x, key>> \in u.conflicts <=> Cardinality(ValuesOf(Rows(u, x, key))) > 1,
           x \in t0.stored /\ key \in Keys =>
              u.column[x][key] = ColumnOf(key, ValuesOf(Rows(u, x, key)))
    PROVE  /\ Done(c, x, key, n + 1) # {}
           /\ \A i \in Done(c, x, key, n + 1) :
                 (\A j \in Done(c, x, key, n + 1) : j <= i)
                    => Assigned(u, t0, c, x, key, ValueAt(c, i))
<1>1. /\ Done(c, x, key, n) \subseteq 1..n
      /\ Done(c, x, key, n + 1) = Done(c, x, key, n) \cup {n + 1}
      /\ Len(history.journal[c]) \in Nat
  <2>1. OneMoreDone(c, x, key, n)
    BY DoneNext
  <2>2. Len(history.journal[c]) \in Nat
    OBVIOUS
  <2> QED
    BY <2>1, <2>2 DEF OneMoreDone
<1>2. Rows(u, x, key) = AfterAssign(Rows(t0, x, key), x, key, c, value)
  <2>1. CASE Done(c, x, key, n) = {}
    BY <2>1 DEF MetaAfter, Untouched
  <2>2. CASE Done(c, x, key, n) # {}
    <3>1. Done(c, x, key, n) \in SUBSET (0..n) /\ n \in Nat
      BY <1>1
    <3>2. PICK i \in Done(c, x, key, n) : \A j \in Done(c, x, key, n) : j <= i
      BY <2>2, <3>1, GreatestNumber
    <3>3. Rows(t, x, key) = AfterAssign(Rows(t0, x, key), x, key, c, ValueAt(c, i))
      BY <3>2 DEF MetaAfter, Assigned
    <3> QED
      BY <3>3, AssignTwice
  <2> QED
    BY <2>1, <2>2
<1>3. ASSUME x \in t0.stored, key \in Keys, value # Null,
             \A r \in Rows(t0, x, key) : r.source \in Ancestors(c)
      PROVE  value \in u.column[x][key]
  <2>1. Rows(u, x, key) = {Fresh(x, key, c, value)}
    BY <1>2, <1>3 DEF AfterAssign
  <2>2. ValuesOf(Rows(u, x, key)) = {value}
    <3>1. Fresh(x, key, c, value).value = value
      BY DEF Fresh
    <3> QED
      BY <2>1, <3>1 DEF ValuesOf
  <2>3. ColumnOf(key, {value}) = {value}
    BY <1>3, FS_Singleton DEF ColumnOf
  <2> QED
    BY <1>3, <2>2, <2>3
<1>4. Assigned(u, t0, c, x, key, value)
  BY <1>2, <1>3 DEF Assigned
<1>5. ASSUME NEW i \in Done(c, x, key, n + 1), \A j \in Done(c, x, key, n + 1) : j <= i
      PROVE  i = n + 1
  <2>1. n + 1 <= i /\ (i = n + 1 \/ i \in 1..n)
    BY <1>1, <1>5
  <2> QED
    BY <1>1, <2>1
<1> QED
  BY <1>1, <1>4, <1>5

LEMMA MetaAction ==
    ASSUME HistoryOK, NEW W \in SUBSET All, ~truncated => Whole(W), NEW c \in W,
           NEW n \in 0..(Len(history.journal[c]) - 1),
           NEW t0, t0.stored = W, NEW t, Ready(t, W), t.ok, MetaAfter(t, t0, c, n),
           NEW act, act = history.journal[c][n + 1], act.do = "meta",
           Perform(t, c, act).ok
    PROVE  LET u == Perform(t, c, act)
           IN  Ready(u, W) /\ u.entry = t.entry /\ MetaAfter(u, t0, c, n + 1)
<1> DEFINE u == Perform(t, c, act)
<1>1. u = Patch(t, c, act)
  BY DEF Perform
<1>2. PICK v, targets :
        /\ OnlyCaches(t, v) /\ Ready(v, W) /\ Whole(W)
        /\ targets = Between(Named(c, act.from), Named(c, act.to))
        /\ targets \subseteq Ancestors(c) /\ Ancestors(c) \subseteq W
        /\ u = IF act.operator = "add" THEN AddValue(v, targets, act)
               ELSE Assign(v, c, targets, act)
  BY <1>1, PatchFacts
<1>3. /\ history.journal[c] \in Seq(Range(history.journal[c]))
      /\ n + 1 \in DOMAIN history.journal[c] /\ c \in All
  BY DEF HistoryOK
<1>4. act.key \in Keys
  <2>1. IsAction(act)
    BY <1>3 DEF HistoryOK, Range
  <2> QED
    BY <2>1 DEF IsAction
<1>5. \A x, key : n + 1 \in Assigning(c, x, key) <=>
                    act.key = key /\ act.operator # "add" /\ x \in targets
  BY <1>2, <1>3 DEF Assigning
<1>6. t.stored = t0.stored
  BY DEF Ready
<1>7. u.ok
  OBVIOUS
<1> HIDE DEF u
<1>8. ASSUME act.operator = "add"
      PROVE  Ready(u, W) /\ u.entry = t.entry /\ MetaAfter(u, t0, c, n + 1)
  <2>1. u = AddValue(v, targets, act) /\ \A x, key : n + 1 \notin Assigning(c, x, key)
    BY <1>2, <1>5, <1>8
  <2>2. OnlyMore(v, u, W)
    BY <1>2, <1>7, <2>1, AddValueFacts
  <2>3. ASSUME NEW x, NEW key PROVE Untouched(u, t, x, key)
    <3>1. Rows(u, x, key) = Rows(t, x, key)
      BY <1>2, <2>2 DEF OnlyCaches, OnlyMore, Rows
    <3>2. u.conflicts = t.conflicts
      BY <1>2, <2>2 DEF OnlyCaches, OnlyMore
    <3>3. x \in t.stored /\ key \in Keys => t.column[x][key] \subseteq u.column[x][key]
      BY <1>2, <2>2 DEF OnlyCaches, OnlyMore, Ready
    <3> QED
      BY <3>1, <3>2, <3>3 DEF Untouched
  <2>4. MetaAfter(u, t0, c, n + 1)
    <3> SUFFICES ASSUME NEW x, NEW key
                 PROVE  /\ Done(c, x, key, n + 1) = {} => Untouched(u, t0, x, key)
                        /\ \A i \in Done(c, x, key, n + 1) :
                              (\A j \in Done(c, x, key, n + 1) : j <= i)
                                 => Assigned(u, t0, c, x, key, ValueAt(c, i))
      BY DEF MetaAfter
    <3> QED
      BY <1>3, <1>6, <2>1, <2>3, NotAssigned
  <2> QED
    BY <1>2, <2>2, <2>4 DEF OnlyCaches, OnlyMore
<1>9. ASSUME act.operator # "add"
      PROVE  Ready(u, W) /\ u.entry = t.entry /\ MetaAfter(u, t0, c, n + 1)
  <2>1. u = Assign(v, c, targets, act)
    BY <1>2, <1>9
  <2>2. Reassigned(v, u, W, c, targets, act)
    BY <1>2, <2>1, AssignFacts
  <2>3. \A x, key : Rows(v, x, key) = Rows(t, x, key)
    BY <1>2 DEF OnlyCaches, Rows
  <2>4. v.conflicts = t.conflicts /\ v.column = t.column
    BY <1>2 DEF OnlyCaches
  <2>5. MetaAfter(u, t0, c, n + 1)
    <3> SUFFICES ASSUME NEW x, NEW key
                 PROVE  /\ Done(c, x, key, n + 1) = {} => Untouched(u, t0, x, key)
                        /\ \A i \in Done(c, x, key, n + 1) :
                              (\A j \in Done(c, x, key, n + 1) : j <= i)
                                 => Assigned(u, t0, c, x, key, ValueAt(c, i))
      BY DEF MetaAfter
    <3>1. CASE x \in targets /\ key = act.key
      <4>1. n + 1 \in Assigning(c, x, key) /\ x \in Ancestors(c)
        BY <1>2, <1>5, <1>9, <3>1
      <4>2. /\ Rows(u, x, key) = AfterAssign(Rows(t, x, key), x, key, c, act.value)
            /\ <<x, key>> \in u.conflicts <=> Cardinality(ValuesOf(Rows(u, x, key))) > 1
            /\ x \in t0.stored /\ key \in Keys =>
                  u.column[x][key] = ColumnOf(key, ValuesOf(Rows(u, x, key)))
        BY <1>6, <2>2, <2>3, <3>1 DEF Reassigned, Ready
      <4>3. act.value = ValueAt(c, n + 1)
        BY DEF ValueAt
      <4> QED
        BY <1>3, <4>1, <4>2, <4>3, NowAssigned
    <3>2. CASE ~(x \in targets /\ key = act.key)
      <4>1. n + 1 \notin Assigning(c, x, key)
        BY <1>5, <3>2
      <4>2. Untouched(u, t, x, key)
        BY <1>6, <2>2, <2>3, <2>4, <3>2 DEF Untouched, Reassigned, Ready
      <4> QED
        BY <1>3, <1>6, <4>1, <4>2, NotAssigned
    <3> QED
      BY <3>1, <3>2
  <2> QED
    BY <1>2, <2>2, <2>5 DEF OnlyCaches, Reassigned
<1> QED
  BY <1>8, <1>9 DEF u
-----------------------------------------------------------------------------
(* A journal *)

\* The tables after n actions of c, which began with those of t0
StepInv(t, t0, c, W, n) ==
    Ready(t, W) /\ EntriesAfter(t, t0, c, n) /\ MetaAfter(t, t0, c, n)

LEMMA ActionKeeps ==
    ASSUME HistoryOK, NEW W \in SUBSET All, ~truncated => Whole(W), NEW c \in W,
           NEW t0, t0.stored = W, DOMAIN t0.entry \subseteq All \ {c}, EntriesTyped(t0),
           NEW n \in 0..(Len(history.journal[c]) - 1),
           NEW t, t.ok, StepInv(t, t0, c, W, n),
           Perform(t, c, history.journal[c][n + 1]).ok
    PROVE  StepInv(Perform(t, c, history.journal[c][n + 1]), t0, c, W, n + 1)
<1> DEFINE act == history.journal[c][n + 1]
           u == Perform(t, c, act)
<1>1. /\ history.journal[c] \in Seq(Range(history.journal[c]))
      /\ n + 1 \in DOMAIN history.journal[c] /\ c \in All
  BY DEF HistoryOK
<1>2. ASSUME act.do = "meta" PROVE StepInv(u, t0, c, W, n + 1)
  <2>1. Ready(u, W) /\ u.entry = t.entry /\ MetaAfter(u, t0, c, n + 1)
    BY <1>2, MetaAction DEF StepInv
  <2>2. \A e : ~Names(c, e, n + 1, "decay") /\ ~Names(c, e, n + 1, "cancel")
    BY <1>2 DEF Names
  <2> HIDE DEF u, act
  <2>3. \A e : /\ ActsOn(c, e, "decay", n + 1) = ActsOn(c, e, "decay", n)
               /\ ActsOn(c, e, "cancel", n + 1) = ActsOn(c, e, "cancel", n)
    BY <1>1, <2>2, MoreActs
  <2>4. EntriesAfter(u, t0, c, n + 1)
    BY <2>1, <2>3 DEF StepInv, EntriesAfter, EntriesTyped, Lessens, Reached
  <2> QED
    BY <2>1, <2>4 DEF StepInv
<1>3. ASSUME act.do # "meta" PROVE StepInv(u, t0, c, W, n + 1)
  <2>1. OnlyEntries(t, u) /\ EntriesAfter(u, t0, c, n + 1)
    BY <1>1, <1>3, EntryActions DEF StepInv, Ready
  <2>2. \A x, key : n + 1 \notin Assigning(c, x, key)
    BY <1>3 DEF Assigning
  <2> HIDE DEF u, act
  <2>3. Ready(u, W) /\ t.stored = t0.stored
    BY <2>1 DEF OnlyEntries, StepInv, Ready, CachesTrue
  <2>4. ASSUME NEW x, NEW key PROVE Untouched(u, t, x, key)
    BY <2>1 DEF OnlyEntries, Untouched, Rows
  <2>5. MetaAfter(u, t0, c, n + 1)
    <3> SUFFICES ASSUME NEW x, NEW key
                 PROVE  /\ Done(c, x, key, n + 1) = {} => Untouched(u, t0, x, key)
                        /\ \A i \in Done(c, x, key, n + 1) :
                              (\A j \in Done(c, x, key, n + 1) : j <= i)
                                 => Assigned(u, t0, c, x, key, ValueAt(c, i))
      BY DEF MetaAfter
    <3>1. MetaAfter(t, t0, c, n)
      BY DEF StepInv
    <3> QED
      BY <1>1, <2>2, <2>3, <2>4, <3>1, NotAssigned
  <2> QED
    BY <2>1, <2>3, <2>5 DEF StepInv
<1> QED
  BY <1>2, <1>3

LEMMA JournalKeeps ==
    ASSUME HistoryOK, NEW W \in SUBSET All, ~truncated => Whole(W), NEW c \in W,
           NEW t0, t0.stored = W, DOMAIN t0.entry \subseteq All \ {c}, EntriesTyped(t0),
           Ready(t0, W), Performed(t0, c).ok
    PROVE  StepInv(Performed(t0, c), t0, c, W, Len(history.journal[c]))
<1> DEFINE N == Len(history.journal[c])
<1>1. /\ history.journal[c] \in Seq(Range(history.journal[c])) /\ N \in Nat /\ c \in All
      /\ DOMAIN history.journal[c] = 1..N
  BY DEF HistoryOK
<1>2. PICK f : /\ f[0] = t0
               /\ \A n \in 1..N : f[n] = Perform(f[n-1], c, history.journal[c][n])
               /\ Performed(t0, c) = f[N]
  BY <1>1, JournalPerformed
<1> DEFINE T == {n \in 0..N : f[n].ok => StepInv(f[n], t0, c, W, n)}
<1> HIDE DEF N
<1>3. 0 \in T
  <2>1. \A e, do : ActsOn(c, e, do, 0) = {}
    BY <1>1 DEF ActsOn, N
  <2>2. \A x, key : Done(c, x, key, 0) = {}
    BY <1>1 DEF Done, Assigning
  <2>3. EntriesAfter(t0, t0, c, 0)
    <3>1. Cardinality({}) = 0
      BY FS_EmptySet
    <3>2. \A e \in DOMAIN t0.entry : t0.entry[e].decays \in Nat
      BY DEF EntriesTyped, EntryRecord
    <3>3. \A e \in DOMAIN t0.entry : Reached(t0, c, e, 0)
      BY <2>1, <3>1, <3>2 DEF Reached
    <3> QED
      BY <3>2, <3>3 DEF EntriesAfter, Lessens
  <2>4. MetaAfter(t0, t0, c, 0)
    BY <2>2 DEF MetaAfter, Untouched
  <2> QED
    BY <1>1, <1>2, <2>3, <2>4 DEF StepInv
<1>4. ASSUME NEW n \in 0..(N - 1), n \in T PROVE n + 1 \in T
  <2>1. n + 1 \in 1..N /\ (n + 1) - 1 = n /\ n + 1 \in 0..N
    BY <1>1
  <2>2. f[n + 1] = Perform(f[n], c, history.journal[c][n + 1])
    BY <1>2, <2>1
  <2>3. ASSUME f[n + 1].ok PROVE StepInv(f[n + 1], t0, c, W, n + 1)
    <3>1. f[n].ok
      BY <2>2, <2>3 DEF Perform
    <3>2. StepInv(f[n], t0, c, W, n)
      BY <1>4, <3>1
    <3> QED
      BY <2>2, <2>3, <3>1, <3>2, ActionKeeps DEF N
  <2> QED
    BY <2>1, <2>3
<1>5. N \in T
  <2> HIDE DEF T
  <2>1. \A n \in 0..(N - 1) : n \in T => n + 1 \in T
    BY <1>4
  <2>2. 0..N \subseteq T
    BY <1>1, <1>3, <2>1, UpTo
  <2> QED
    BY <1>1, <2>2
<1> QED
  BY <1>2, <1>5 DEF N

\* A commit leaves the assignments to a key of x alone, or gives it one value.
LEMMA CommitAssigns ==
    ASSUME HistoryOK, NEW c \in All, NEW t0, NEW t,
           MetaAfter(t, t0, c, Len(history.journal[c])), NEW x, NEW key
    PROVE  \/ Values(c, x, key) = {} /\ Untouched(t, t0, x, key)
           \/ \E value : Values(c, x, key) = {value} /\ Assigned(t, t0, c, x, key, value)
<1> DEFINE N == Len(history.journal[c])
           A == Assigning(c, x, key)
<1>1. N \in Nat /\ A \subseteq 1..N
  BY DEF Assigning, HistoryOK
<1>2. Done(c, x, key, N) = A
  BY <1>1 DEF Done
<1>3. CASE A = {}
  BY <1>2, <1>3 DEF Values, MetaAfter
<1>4. CASE A # {}
  <2>1. A \in SUBSET (0..N)
    BY <1>1
  <2> HIDE DEF A, N
  <2>2. PICK i \in A : \A j \in A : j <= i
    BY <1>1, <1>4, <2>1, GreatestNumber
  <2>3. Assigned(t, t0, c, x, key, ValueAt(c, i))
    BY <1>2, <2>2 DEF MetaAfter, N
  <2>4. {j \in A : \A k \in A : k <= j} = {i}
    <3>1. ASSUME NEW j \in A, \A k \in A : k <= j PROVE j = i
      BY <1>1, <2>2, <3>1
    <3> QED
      BY <2>2, <3>1
  <2>5. Values(c, x, key) = {ValueAt(c, i)}
    BY <2>4 DEF Values, ValueAt, A
  <2> QED
    BY <2>3, <2>5
<1> QED
  BY <1>3, <1>4
-----------------------------------------------------------------------------
(* What is true of the tables when the commits of R have been replayed *)

SourcesIn(R, x, key) == {c \in R : Values(c, x, key) # {}}

\* The rows are assignments of replayed commits, and of each assignment there
\* is its own row or one of a descendant.
RowsInv(t, R, x, key) ==
    /\ IsFiniteSet(Rows(t, x, key))
    /\ \A r \in Rows(t, x, key) : r.source \in R /\ r.value \in Values(r.source, x, key)
    /\ \A c \in SourcesIn(R, x, key) : \E r \in Rows(t, x, key) : c \in Ancestors(r.source)

\* A source that descends from all others is the only one left.
ResolvedInv(t, R, x, key) ==
    \A c \in SourcesIn(R, x, key) : SourcesIn(R, x, key) \subseteq Ancestors(c) =>
        /\ \A r \in Rows(t, x, key) : r.source = c
        /\ x \in R /\ key \in Keys => Values(c, x, key) \ {Null} \subseteq t.column[x][key]

MetaInv(t, R) ==
    /\ \A c \in R : \A x, key :
          /\ Values(c, x, key) # {} => x \in Ancestors(c)
          /\ \A v, w \in Values(c, x, key) : v = w
    /\ \A x, key : /\ RowsInv(t, R, x, key)
                   /\ <<x, key>> \in t.conflicts <=> Cardinality(ValuesOf(Rows(t, x, key))) > 1
                   /\ ResolvedInv(t, R, x, key)

LEMMA MetaStep ==
    ASSUME HistoryOK, NEW R \in SUBSET All, NEW c \in All, c \notin R,
           \A d \in R : c \notin Ancestors(d),
           NEW t, MetaInv(t, R), NEW t0, t0.assigned = t.assigned,
           t0.conflicts = t.conflicts, t0.stored = R \cup {c},
           \A x \in R : t0.column[x] = t.column[x],
           NEW u, MetaAfter(u, t0, c, Len(history.journal[c]))
    PROVE  MetaInv(u, R \cup {c})
<1>1. /\ \A x, key : Rows(t0, x, key) = Rows(t, x, key)
      /\ c \in Ancestors(c)
  BY AncestorFacts DEF Rows
<1>2. ASSUME NEW x, NEW key, Values(c, x, key) = {}, Untouched(u, t0, x, key)
      PROVE  /\ RowsInv(u, R \cup {c}, x, key)
             /\ <<x, key>> \in u.conflicts <=> Cardinality(ValuesOf(Rows(u, x, key))) > 1
             /\ ResolvedInv(u, R \cup {c}, x, key)
  <2>1. SourcesIn(R \cup {c}, x, key) = SourcesIn(R, x, key)
    BY <1>2 DEF SourcesIn
  <2>2. /\ Rows(u, x, key) = Rows(t, x, key)
        /\ <<x, key>> \in u.conflicts <=> <<x, key>> \in t.conflicts
    BY <1>1, <1>2 DEF Untouched
  <2>3. RowsInv(t, R, x, key) /\ ResolvedInv(t, R, x, key)
        /\ (<<x, key>> \in t.conflicts <=> Cardinality(ValuesOf(Rows(t, x, key))) > 1)
    BY DEF MetaInv
  <2>4. RowsInv(u, R \cup {c}, x, key)
    BY <2>1, <2>2, <2>3 DEF RowsInv
  <2>5. ASSUME NEW d \in SourcesIn(R, x, key), x \in R \cup {c}, key \in Keys,
               Values(d, x, key) \ {Null} \subseteq t.column[x][key] \/ x = c
        PROVE  Values(d, x, key) \ {Null} \subseteq u.column[x][key]
    <3>1. x # c
      BY <2>5 DEF MetaInv, SourcesIn
    <3>2. t.column[x][key] \subseteq u.column[x][key]
      BY <1>2, <2>5, <3>1 DEF Untouched
    <3> QED
      BY <2>5, <3>1, <3>2
  <2>6. ResolvedInv(u, R \cup {c}, x, key)
    BY <2>1, <2>2, <2>3, <2>5 DEF ResolvedInv
  <2> QED
    BY <2>2, <2>3, <2>4, <2>6
<1>3. ASSUME NEW x, NEW key, NEW value, Values(c, x, key) = {value},
             Assigned(u, t0, c, x, key, value)
      PROVE  /\ RowsInv(u, R \cup {c}, x, key)
             /\ <<x, key>> \in u.conflicts <=> Cardinality(ValuesOf(Rows(u, x, key))) > 1
             /\ ResolvedInv(u, R \cup {c}, x, key)
  <2> DEFINE fresh == Fresh(x, key, c, value)
             rows == Rows(t, x, key)
             now == Rows(u, x, key)
  <2>1. fresh.source = c /\ fresh.value = value
    BY DEF Fresh
  <2>2. now = AfterAssign(rows, x, key, c, value)
    BY <1>1, <1>3 DEF Assigned
  <2>3. RowsInv(t, R, x, key)
    BY DEF MetaInv
  <2>4. \A r \in rows : r.source \in R /\ r.source # c /\ r.value \in Values(r.source, x, key)
    BY <2>3 DEF RowsInv
  <2>5. now = (IF \A r \in rows : r.source \in Ancestors(c) THEN {} ELSE rows) \cup {fresh}
    BY <2>2, <2>4 DEF AfterAssign
  <2>6. SourcesIn(R \cup {c}, x, key) = SourcesIn(R, x, key) \cup {c}
    BY <1>3 DEF SourcesIn
  <2>7. \A d \in SourcesIn(R, x, key) : \E r \in rows : d \in Ancestors(r.source)
    BY <2>3 DEF RowsInv
  <2>8. IsFiniteSet(now)
    <3>1. IsFiniteSet(rows)
      BY <2>3 DEF RowsInv
    <3>2. IsFiniteSet(rows \cup {fresh}) /\ now \subseteq rows \cup {fresh}
      BY <2>5, <3>1, FS_AddElement
    <3> QED
      BY <3>2, FS_Subset
  <2> HIDE DEF fresh, rows, now
  <2>9. \A r \in now : r.source \in R \cup {c} /\ r.value \in Values(r.source, x, key)
    BY <1>3, <2>1, <2>4, <2>5
  <2>10. ASSUME NEW d \in SourcesIn(R \cup {c}, x, key)
         PROVE  \E r \in now : d \in Ancestors(r.source)
    <3>1. CASE d = c
      BY <1>1, <2>1, <2>5, <3>1
    <3>2. CASE d # c
      <4>1. PICK r \in rows : d \in Ancestors(r.source)
        BY <2>6, <2>7, <3>2
      <4>2. CASE r \in now
        BY <4>1, <4>2
      <4>3. CASE r \notin now
        <5>1. r.source \in Ancestors(c)
          BY <2>5, <4>3
        <5>2. d \in Ancestors(c)
          BY <4>1, <5>1, AncestorsOfAncestors
        <5> QED
          BY <2>1, <2>5, <5>2
      <4> QED
        BY <4>2, <4>3
    <3> QED
      BY <3>1, <3>2
  <2>11. RowsInv(u, R \cup {c}, x, key)
    BY <2>8, <2>9, <2>10 DEF RowsInv, now
  <2>12. <<x, key>> \in u.conflicts <=> Cardinality(ValuesOf(Rows(u, x, key))) > 1
    BY <1>3 DEF Assigned
  <2>13. ASSUME NEW d \in SourcesIn(R \cup {c}, x, key),
                SourcesIn(R \cup {c}, x, key) \subseteq Ancestors(d)
         PROVE  /\ \A r \in now : r.source = d
                /\ x \in R \cup {c} /\ key \in Keys =>
                      Values(d, x, key) \ {Null} \subseteq u.column[x][key]
    <3>1. d = c
      BY <2>6, <2>13 DEF SourcesIn
    <3>2. \A r \in rows : r.source \in Ancestors(c)
      BY <2>4, <2>6, <2>13, <3>1 DEF SourcesIn
    <3>3. \A r \in now : r.source = c
      BY <2>1, <2>5, <3>2
    <3>4. \A r \in Rows(t0, x, key) : r.source \in Ancestors(c)
      BY <1>1, <3>2 DEF rows
    <3>5. x \in R \cup {c} /\ key \in Keys /\ value # Null => value \in u.column[x][key]
      BY <1>3, <3>4 DEF Assigned
    <3> QED
      BY <1>3, <3>1, <3>3, <3>5
  <2>14. ResolvedInv(u, R \cup {c}, x, key)
    BY <2>13 DEF ResolvedInv, now
  <2> QED
    BY <2>11, <2>12, <2>14
<1>4. ASSUME NEW x, NEW key
      PROVE  /\ Values(c, x, key) # {} => x \in Ancestors(c)
             /\ \A v, w \in Values(c, x, key) : v = w
             /\ RowsInv(u, R \cup {c}, x, key)
             /\ <<x, key>> \in u.conflicts <=> Cardinality(ValuesOf(Rows(u, x, key))) > 1
             /\ ResolvedInv(u, R \cup {c}, x, key)
  <2>1. CASE Values(c, x, key) = {} /\ Untouched(u, t0, x, key)
    BY <1>2, <2>1
  <2>2. CASE \E value : Values(c, x, key) = {value} /\ Assigned(u, t0, c, x, key, value)
    <3>1. PICK value : Values(c, x, key) = {value} /\ Assigned(u, t0, c, x, key, value)
      BY <2>2
    <3>2. x \in Ancestors(c)
      BY <3>1 DEF Assigned
    <3> QED
      BY <1>3, <3>1, <3>2
  <2> QED
    BY <2>1, <2>2, CommitAssigns
<1>5. \A d \in R : \A x, key : /\ Values(d, x, key) # {} => x \in Ancestors(d)
                               /\ \A v, w \in Values(d, x, key) : v = w
  BY DEF MetaInv
<1> QED
  BY <1>4, <1>5 DEF MetaInv

\* The actions of the commits of R have reached the entries.
EntriesInv(t, R) ==
    /\ EntriesTyped(t) /\ DOMAIN t.entry \subseteq R
    /\ \A c \in R, e \in DOMAIN t.entry : Reached(t, c, e, Len(history.journal[c]))

LEMMA EntriesStep ==
    ASSUME HistoryOK, NEW R \in SUBSET All, NEW c \in All, c \notin R,
           \A d \in R : c \notin Ancestors(d),
           NEW t, EntriesInv(t, R), NEW t0, t0.entry = t.entry,
           NEW u, EntriesAfter(u, t0, c, Len(history.journal[c]))
    PROVE  EntriesInv(u, R \cup {c})
<1>1. EntriesTyped(u) /\ DOMAIN u.entry \subseteq R \cup {c}
  BY DEF EntriesAfter, EntriesInv
<1>2. \A e \in DOMAIN t.entry :
         /\ e \in R /\ e \in DOMAIN u.entry /\ u.entry[e].decision = t.entry[e].decision
         /\ u.entry[e].valid => t.entry[e].valid
         /\ t.entry[e].decays <= u.entry[e].decays
         /\ t.entry[e].decays \in Nat /\ u.entry[e].decays \in Nat
  BY DEF EntriesAfter, EntriesInv, Lessens, EntriesTyped, EntryRecord
<1>3. ASSUME NEW d \in R, NEW e \in DOMAIN t.entry
      PROVE  Reached(u, d, e, Len(history.journal[d]))
  <2> DEFINE N == Len(history.journal[d])
  <2>1. Reached(t, d, e, N)
    BY DEF EntriesInv
  <2>2. Cardinality(ActsOn(d, e, "decay", N)) \in Nat
    <3>1. ActsOn(d, e, "decay", N) \subseteq 1..N /\ N \in Nat
      BY DEF ActsOn, HistoryOK
    <3> QED
      BY <3>1, FirstNumbers, FS_Subset, FS_CardinalityType
  <2> HIDE DEF N
  <2> QED
    BY <1>2, <2>1, <2>2 DEF Reached, N
<1>4. ASSUME NEW d \in R \cup {c}, c \in DOMAIN u.entry
      PROVE  Reached(u, d, c, Len(history.journal[d]))
  <2> DEFINE N == Len(history.journal[d])
  <2>1. ActsOn(d, c, "cancel", N) = {} /\ ActsOn(d, c, "decay", N) = {}
    BY DEF ActsOn, Names
  <2> HIDE DEF N
  <2>2. u.entry[c].decays \in Nat
    BY <1>1, <1>4 DEF EntriesTyped, EntryRecord
  <2>3. Cardinality({}) = 0
    BY FS_EmptySet
  <2>4. Cardinality(ActsOn(d, c, "decay", N)) <= u.entry[c].decays
    <3>1. Cardinality(ActsOn(d, c, "decay", N)) = 0
      BY <2>1, <2>3, Zenon
    <3>2. \A k \in Nat : 0 <= k
      OBVIOUS
    <3> QED
      BY <2>2, <3>1, <3>2, Zenon
  <2> QED
    BY <2>1, <2>4 DEF Reached, N
<1>5. \A e \in DOMAIN t.entry : Reached(u, c, e, Len(history.journal[c]))
  BY DEF EntriesAfter
<1>6. \A e \in DOMAIN u.entry : e \in DOMAIN t.entry \/ e = c
  BY DEF EntriesAfter
<1> QED
  BY <1>1, <1>3, <1>4, <1>5, <1>6 DEF EntriesInv
-----------------------------------------------------------------------------
(* The replay *)

TablesInv(t, R) == t.ok /\ Ready(t, R) /\ EntriesInv(t, R) /\ MetaInv(t, R)

IInv ==
    /\ SelectionInv
    /\ phase \in {"walk", "select", "failed"} => tables = EmptyTables
    /\ phase \in {"replay", "done"} => TablesInv(tables, Replayed)

\* The row of the commit, and its own metadata
Inserted(t, u, R, c) ==
    /\ Ready(u, R \cup {c}) /\ u.entry = t.entry /\ u.ok = t.ok
    /\ u.assigned = t.assigned /\ u.conflicts = t.conflicts
    /\ \A x \in R : u.column[x] = t.column[x]

LEMMA InsertFacts ==
    ASSUME NEW R, NEW c, c \notin R, NEW t, Ready(t, R)
    PROVE  Inserted(t, Insert(t, c), R, c)
<1> DEFINE u == Insert(t, c)
           own == [affected_areas |-> history.areas[c], owner |-> Null, tags |-> {}]
           f == [x \in R \cup {c} |-> IF x = c THEN own ELSE t.column[x]]
<1>1. u = [t EXCEPT !.stored = R \cup {c}, !.column = f]
  BY DEF Insert, Ready
<1>2. DOMAIN own = Keys
  BY DEF Keys
<1> HIDE DEF own, u
<1>3. /\ DOMAIN f = R \cup {c} /\ \A x \in R : f[x] = t.column[x]
      /\ \A x \in R \cup {c} : DOMAIN f[x] = Keys
  BY <1>2 DEF Ready
<1> HIDE DEF f
<1>4. /\ DOMAIN u = Fields /\ u.stored = R \cup {c} /\ u.column = f /\ u.entry = t.entry
      /\ u.ok = t.ok /\ u.assigned = t.assigned /\ u.conflicts = t.conflicts
      /\ u.reach = t.reach /\ u.ranges = t.ranges
  BY <1>1 DEF Ready, Fields
<1> QED
  BY <1>3, <1>4 DEF Ready, CachesTrue, u, Inserted

\* Performing the journal of one more commit
LEMMA CommitReplayed ==
    ASSUME HistoryOK, NEW R \in SUBSET All, NEW c \in All, c \notin R,
           \A d \in R : c \notin Ancestors(d), ~truncated => Whole(R \cup {c}),
           NEW t, TablesInv(t, R), Performed(Insert(t, c), c).ok
    PROVE  TablesInv(Performed(Insert(t, c), c), R \cup {c})
<1> DEFINE t0 == Insert(t, c)
           u == Performed(t0, c)
<1>1. /\ Ready(t0, R \cup {c}) /\ t0.entry = t.entry /\ t0.ok = t.ok
      /\ t0.assigned = t.assigned /\ t0.conflicts = t.conflicts
      /\ \A x \in R : t0.column[x] = t.column[x]
  <2>1. Inserted(t, t0, R, c)
    BY InsertFacts DEF TablesInv
  <2> HIDE DEF t0
  <2> QED
    BY <2>1 DEF Inserted
<1> HIDE DEF t0
<1>2. u.ok
  BY DEF t0
<1>3. t0.stored = R \cup {c} /\ R \cup {c} \in SUBSET All
  BY <1>1 DEF Ready
<1>4. DOMAIN t0.entry \subseteq All \ {c} /\ EntriesTyped(t0)
  BY <1>1 DEF TablesInv, EntriesInv, EntriesTyped
<1>5. StepInv(u, t0, c, R \cup {c}, Len(history.journal[c]))
  BY <1>1, <1>2, <1>3, <1>4, JournalKeeps
<1> HIDE DEF u
<1>6. MetaInv(u, R \cup {c})
  BY <1>1, <1>3, <1>5, MetaStep DEF StepInv, TablesInv
<1>7. EntriesInv(u, R \cup {c})
  BY <1>1, <1>5, EntriesStep DEF StepInv, TablesInv
<1> QED
  BY <1>2, <1>5, <1>6, <1>7 DEF StepInv, TablesInv, u, t0

LEMMA NothingReplayed == TablesInv(EmptyTables, {})
<1> DEFINE t == EmptyTables
<1>1. /\ DOMAIN t = Fields /\ t.stored = {} /\ DOMAIN t.entry = {} /\ t.assigned = {}
      /\ DOMAIN t.column = {} /\ t.conflicts = {} /\ DOMAIN t.reach = {}
      /\ DOMAIN t.ranges = {} /\ t.ok = TRUE /\ t.entry = [e \in {} |-> 0]
  BY DEF EmptyTables, Fields
<1> HIDE DEF t
<1>2. Ready(t, {})
  BY <1>1 DEF Ready, CachesTrue
<1>3. EntriesInv(t, {})
  BY <1>1 DEF EntriesInv, EntriesTyped
<1>4. MetaInv(t, {})
  <2>1. \A x, key : Rows(t, x, key) = {} /\ SourcesIn({}, x, key) = {}
    BY <1>1 DEF Rows, SourcesIn
  <2>2. IsFiniteSet({}) /\ Cardinality({}) = 0 /\ ValuesOf({}) = {}
    BY FS_EmptySet DEF ValuesOf
  <2>3. \A x, key : RowsInv(t, {}, x, key) /\ ResolvedInv(t, {}, x, key)
    BY <2>1, <2>2 DEF RowsInv, ResolvedInv
  <2>4. ASSUME NEW x, NEW key
        PROVE  <<x, key>> \in t.conflicts <=> Cardinality(ValuesOf(Rows(t, x, key))) > 1
    <3>1. Cardinality(ValuesOf(Rows(t, x, key))) = 0
      BY <2>1, <2>2, Zenon
    <3> QED
      BY <1>1, <3>1
  <2> QED
    BY <2>3, <2>4 DEF MetaInv
<1> QED
  BY <1>1, <1>2, <1>3, <1>4 DEF TablesInv, t

\* All this is about the history, which does not change.
LEMMA SameTables ==
    ASSUME history' = history
    PROVE  \A t, R : TablesInv(t, R)' = TablesInv(t, R)
<1>1. \A c : Ancestors(c)' = Ancestors(c)
  BY SameHistory
<1>2. \A c, x, key : Values(c, x, key)' = Values(c, x, key)
  BY SameHistory
<1>3. \A t, R : Ready(t, R)' = Ready(t, R)
  BY <1>1, SMT DEF Ready, CachesTrue, Between
<1>4. \A t, R : EntriesInv(t, R)' = EntriesInv(t, R)
  <2>1. All' = All
    BY DEF All
  <2>2. \A c, e, do, n : ActsOn(c, e, do, n)' = ActsOn(c, e, do, n)
    BY <1>1, <2>1, SMT DEF ActsOn, Names
  <2>3. \A t, c, e, n : Reached(t, c, e, n)' = Reached(t, c, e, n)
    BY <2>2, SMT DEF Reached
  <2>4. \A c : Len(history.journal[c])' = Len(history.journal[c])
    OBVIOUS
  <2>5. \A t : EntriesTyped(t)' = EntriesTyped(t)
    BY DEF EntriesTyped
  <2> QED
    BY <2>3, <2>4, <2>5 DEF EntriesInv
<1>5. \A t, R : MetaInv(t, R)' = MetaInv(t, R)
  <2>1. \A t, R, x, key : RowsInv(t, R, x, key)' = RowsInv(t, R, x, key)
    BY <1>1, <1>2, SMT DEF RowsInv, SourcesIn
  <2>2. \A t, R, x, key : ResolvedInv(t, R, x, key)' = ResolvedInv(t, R, x, key)
    BY <1>1, <1>2, SMT DEF ResolvedInv, SourcesIn
  <2> QED
    BY <1>1, <1>2, <2>1, <2>2, SMT DEF MetaInv
<1> QED
  BY <1>3, <1>4, <1>5 DEF TablesInv

LEMMA ReplayStarts == Init => IInv
<1> SUFFICES ASSUME Init PROVE IInv
  OBVIOUS
<1>1. phase = "walk" /\ tables = EmptyTables
  BY DEF Init
<1> QED
  BY <1>1, SelectionStarts DEF IInv

LEMMA ReplayKept == IInv /\ [Next]_vars => IInv'
<1> SUFFICES ASSUME IInv, [Next]_vars PROVE IInv'
  OBVIOUS
<1>1. SelectionInv /\ SelectionInv'
  BY SelectionKept DEF IInv
<1>2. HistoryOK
  BY <1>1, HistoriesAreOK DEF SelectionInv
<1>3. ASSUME Walk PROVE IInv'
  <2>1. phase = "walk" /\ phase' = "select" /\ tables' = tables
    BY <1>3 DEF Walk
  <2>2. EmptyTables' = EmptyTables
    BY DEF EmptyTables
  <2> QED
    BY <1>1, <2>1, <2>2 DEF IInv
<1>4. ASSUME Select PROVE IInv'
  <2>1. /\ phase = "select" /\ phase' = "replay" /\ tables' = tables /\ next' = next
        /\ history' = history
    BY <1>4 DEF Select
  <2>2. tables' = EmptyTables /\ next' = 1
    BY <1>1, <2>1 DEF SelectionInv
  <2>3. Replayed' = {}
    BY <2>2 DEF Replayed
  <2>4. TablesInv(EmptyTables, {})'
    BY <2>1, NothingReplayed, SameTables
  <2>5. TablesInv(tables, Replayed)'
    BY <2>2, <2>3, <2>4
  <2> QED
    BY <1>1, <2>1, <2>5 DEF IInv
<1>5. ASSUME Replay PROVE IInv'
  <2> DEFINE c == commits[next]
             t == Performed(Insert(tables, c), c)
  <2>1. /\ phase = "replay" /\ next <= Len(commits) /\ next' = next + 1
        /\ tables' = IF t.ok THEN t ELSE EmptyTables
        /\ phase' = IF t.ok THEN "replay" ELSE "failed"
        /\ UNCHANGED <<history, policy, commits, truncated>>
    BY <1>5 DEF Replay
  <2>2. /\ Stored \subseteq All /\ c \in All /\ c \notin Replayed
        /\ \A d \in Replayed : c \notin Ancestors(d)
        /\ ~truncated => \A d \in Stored : history.parents[d] \subseteq Stored
    BY <1>1, <2>1, ReplayOrder
  <2>3. Replayed' = Replayed \cup {c}
    <3>1. next \in Nat /\ next >= 1
      BY <1>1, <2>1 DEF SelectionInv
    <3>2. 1..((next + 1) - 1) = 1..(next - 1) \cup {next}
      BY <3>1
    <3>3. Replayed' = {commits[i] : i \in 1..((next + 1) - 1)}
      BY <2>1 DEF Replayed
    <3> QED
      BY <3>2, <3>3 DEF Replayed
  <2>4. TablesInv(tables, Replayed)
    BY <2>1 DEF IInv
  <2>5. Replayed \in SUBSET All /\ (~truncated => Whole(Replayed \cup {c}))
    BY <2>2 DEF Stored, Whole
  <2> HIDE DEF c
  <2>6. ASSUME t.ok PROVE IInv'
    <3>1. TablesInv(t, Replayed \cup {c})
      BY <1>2, <2>2, <2>4, <2>5, <2>6, CommitReplayed
    <3> HIDE DEF t
    <3>2. TablesInv(t, Replayed \cup {c}) = TablesInv(tables, Replayed)'
      <4>1. tables' = t /\ history' = history
        BY <2>1, <2>6
      <4>2. \A v, R : TablesInv(v, R)' = TablesInv(v, R)
        BY <4>1, SameTables
      <4> QED
        BY <2>3, <4>1, <4>2
    <3>3. phase' = "replay"
      BY <2>1, <2>6
    <3> QED
      BY <1>1, <3>1, <3>2, <3>3 DEF IInv
  <2>7. ASSUME ~t.ok PROVE IInv'
    <3>1. phase' = "failed" /\ tables' = EmptyTables
      BY <2>1, <2>7
    <3> QED
      BY <1>1, <3>1 DEF IInv, EmptyTables
  <2> QED
    BY <2>6, <2>7
<1>6. ASSUME (phase = "replay" /\ phase' = "done") \/ phase' = phase,
             UNCHANGED <<history, commits, next, tables>>
      PROVE  IInv'
  <2>1. Replayed' = Replayed /\ EmptyTables' = EmptyTables
    BY <1>6 DEF Replayed, EmptyTables
  <2>2. TablesInv(tables, Replayed)' = TablesInv(tables, Replayed)
    <3>1. \A v, R : TablesInv(v, R)' = TablesInv(v, R)
      BY <1>6, SameTables
    <3> QED
      BY <1>6, <2>1, <3>1
  <2> QED
    BY <1>1, <1>6, <2>1, <2>2 DEF IInv
<1>7. CASE Publish
  BY <1>6, <1>7 DEF Publish
<1>8. CASE UNCHANGED vars
  BY <1>6, <1>8 DEF vars
<1> QED
  BY <1>3, <1>4, <1>5, <1>7, <1>8 DEF Next

\* The tables are, after each commit, what the whole history says of the
\* replayed ones: this is what evaluate_update keeps.
THEOREM InductiveInvariant == Spec => []IInv
BY ReplayStarts, ReplayKept, PTL DEF Spec
-----------------------------------------------------------------------------
(* Theorems *)

\* The tables are those of no commit, or those of the replayed ones.
LEMMA TablesAre ==
    ASSUME IInv
    PROVE  \/ tables = EmptyTables
           \/ TablesInv(tables, Replayed) /\ HistoryOK /\ Replayed \subseteq All
<1>1. SelectionInv /\ HistoryOK
  BY HistoriesAreOK DEF IInv, SelectionInv
<1>2. CASE phase \in {"walk", "select", "failed"}
  BY <1>2 DEF IInv
<1>3. CASE phase \in {"replay", "done"}
  <2>1. /\ commits \in Seq(WholeHistory) /\ Len(commits) \in Nat /\ next \in 1..(Len(commits) + 1)
    BY <1>1, <1>3 DEF SelectionInv, Chosen
  <2>2. \A i \in 1..(next - 1) : i \in 1..Len(commits)
    BY <2>1
  <2>3. WholeHistory \subseteq All
    BY <1>1, AncestorFacts DEF WholeHistory, HistoryOK
  <2>4. Replayed \subseteq All
    BY <2>1, <2>2, <2>3 DEF Replayed
  <2> QED
    BY <1>1, <1>3, <2>4 DEF IInv
<1> QED
  BY <1>1, <1>2, <1>3 DEF SelectionInv

\* Whatever the patches ask and whenever they ask it, an answer that the
\* ReachabilityCache has kept is what the whole history says.
THEOREM CachedAnswersAreTrue == Spec => []CacheTrue
<1>1. IInv => CacheTrue
  <2> SUFFICES ASSUME IInv PROVE CacheTrue
    OBVIOUS
  <2>1. CASE tables = EmptyTables
    <3>1. DOMAIN tables.reach = {} /\ DOMAIN tables.ranges = {}
      BY <2>1 DEF EmptyTables
    <3> QED
      BY <3>1 DEF CacheTrue
  <2>2. CASE TablesInv(tables, Replayed)
    BY <2>2 DEF TablesInv, Ready, CachesTrue, CacheTrue
  <2> QED
    BY <2>1, <2>2, TablesAre
<1> QED
  BY <1>1, InductiveInvariant, PTL

\* A CANCEL reaches the decision that it names without doubt, and a DECAY the
\* entry, in every order of the walk.
THEOREM EffectsReachTheirTargets == Spec => []EffectsReach
<1>1. IInv => EffectsReach
  <2> SUFFICES ASSUME IInv PROVE EffectsReach
    OBVIOUS
  <2>1. CASE tables = EmptyTables
    <3>1. DOMAIN tables.entry = {}
      BY <2>1 DEF EmptyTables
    <3> QED
      BY <3>1 DEF EffectsReach
  <2>2. CASE TablesInv(tables, Replayed) /\ HistoryOK /\ Replayed \subseteq All
    <3> SUFFICES ASSUME NEW c \in Replayed, NEW e \in DOMAIN tables.entry
                 PROVE  LET acts(do) == {i \in DOMAIN history.journal[c] :
                              /\ history.journal[c][i].do = do
                              /\ e \in Ancestors(c) \ {c}
                              /\ (history.journal[c][i].of \cap All) \ {c} = {e}}
                        IN  /\ acts("cancel") # {} /\ tables.entry[e].decision =>
                                  ~tables.entry[e].valid
                            /\ tables.entry[e].valid =>
                                  tables.entry[e].decays >= Cardinality(acts("decay"))
      BY DEF EffectsReach
    <3> DEFINE acts(do) == {i \in DOMAIN history.journal[c] :
                              /\ history.journal[c][i].do = do
                              /\ e \in Ancestors(c) \ {c}
                              /\ (history.journal[c][i].of \cap All) \ {c} = {e}}
               N == Len(history.journal[c])
    <3>1. N \in Nat /\ DOMAIN history.journal[c] = 1..N
      BY <2>2 DEF HistoryOK
    <3>2. \A do : acts(do) = ActsOn(c, e, do, N)
      BY <3>1 DEF ActsOn, Names
    <3>3. Reached(tables, c, e, N)
      BY <2>2 DEF TablesInv, EntriesInv
    <3> HIDE DEF acts, N
    <3>4. /\ acts("cancel") # {} /\ tables.entry[e].decision => ~tables.entry[e].valid
          /\ tables.entry[e].valid => Cardinality(acts("decay")) <= tables.entry[e].decays
      BY <3>2, <3>3 DEF Reached
    <3>5. /\ tables.entry[e].decays \in Nat /\ Cardinality(acts("decay")) \in Nat
      <4>1. acts("decay") \subseteq 1..N
        BY <3>1 DEF acts
      <4>2. IsFiniteSet(acts("decay"))
        BY <3>1, <4>1, FirstNumbers, FS_Subset
      <4> QED
        BY <2>2, <4>2, FS_CardinalityType DEF TablesInv, EntriesInv, EntriesTyped, EntryRecord
    <3>6. tables.entry[e].valid => tables.entry[e].decays >= Cardinality(acts("decay"))
      BY <3>4, <3>5
    <3> QED
      BY <3>4, <3>6 DEF acts
  <2> QED
    BY <2>1, <2>2, TablesAre
<1> QED
  BY <1>1, InductiveInvariant, PTL

\* A row is an assignment that its source makes in the whole history, and what
\* a replayed commit assigned has a row of its own or one of a descendant.
THEOREM FrontierIsKept == Spec => []FrontierKept
<1>1. IInv => FrontierKept
  <2> SUFFICES ASSUME IInv PROVE FrontierKept
    OBVIOUS
  <2>1. CASE tables = EmptyTables
    <3>1. tables.assigned = {} /\ tables.stored = {}
      BY <2>1 DEF EmptyTables
    <3> QED
      BY <3>1 DEF FrontierKept
  <2>2. CASE TablesInv(tables, Replayed) /\ HistoryOK /\ Replayed \subseteq All
    <3>1. \A x, key : RowsInv(tables, Replayed, x, key)
      BY <2>2 DEF TablesInv, MetaInv
    <3>2. ASSUME NEW r \in tables.assigned PROVE r.value \in Values(r.source, r.target, r.key)
      BY <3>1 DEF RowsInv, Rows
    <3>3. ASSUME NEW x, NEW key, NEW c \in Sources(x, key)
          PROVE  \E r \in tables.assigned :
                    r.target = x /\ r.key = key /\ c \in Ancestors(r.source)
      <4>1. c \in SourcesIn(Replayed, x, key)
        BY DEF Sources, SourcesIn
      <4>2. PICK r \in Rows(tables, x, key) : c \in Ancestors(r.source)
        BY <3>1, <4>1 DEF RowsInv
      <4> QED
        BY <4>2 DEF Rows
    <3> QED
      BY <3>2, <3>3 DEF FrontierKept
  <2> QED
    BY <2>1, <2>2, TablesAre
<1> QED
  BY <1>1, InductiveInvariant, PTL

\* Each assignment that no other descends from has its row, so two that differ
\* are seen, whatever was replaced before and between them.
THEOREM NoConflictIsLost == Spec => []NoFalseResolution
<1>1. IInv => NoFalseResolution
  <2> SUFFICES ASSUME IInv PROVE NoFalseResolution
    OBVIOUS
  <2>1. CASE tables = EmptyTables
    <3>1. tables.stored = {}
      BY <2>1 DEF EmptyTables
    <3> QED
      BY <3>1 DEF NoFalseResolution
  <2>2. CASE TablesInv(tables, Replayed) /\ HistoryOK /\ Replayed \subseteq All
    <3> SUFFICES ASSUME NEW x, NEW key, Cardinality(Effective(x, key)) > 1
                 PROVE  <<x, key>> \in tables.conflicts
      BY DEF NoFalseResolution
    <3> DEFINE rows == Rows(tables, x, key)
    <3>1. /\ RowsInv(tables, Replayed, x, key)
          /\ \A c \in Replayed : \A v, w \in Values(c, x, key) : v = w
          /\ <<x, key>> \in tables.conflicts <=> Cardinality(ValuesOf(rows)) > 1
      BY <2>2 DEF TablesInv, MetaInv
    <3>2. ASSUME NEW c \in Maximal(x, key) PROVE Values(c, x, key) \subseteq ValuesOf(rows)
      <4>1. c \in Sources(x, key) /\ c \in Replayed
        BY DEF Maximal, Sources
      <4>2. PICK r \in rows : c \in Ancestors(r.source)
        BY <3>1, <4>1 DEF RowsInv, Sources, SourcesIn
      <4>3. r.source \in Replayed /\ r.value \in Values(r.source, x, key)
        BY <3>1 DEF RowsInv
      <4>4. r.source = c
        BY <4>2, <4>3 DEF Maximal, Sources
      <4> QED
        BY <3>1, <4>1, <4>3, <4>4 DEF ValuesOf
    <3>3. Effective(x, key) \subseteq ValuesOf(rows)
      BY <3>2 DEF Effective
    <3>4. IsFiniteSet(rows)
      BY <3>1 DEF RowsInv
    <3> HIDE DEF rows
    <3>5. IsFiniteSet(ValuesOf(rows))
      <4> DEFINE f == [r \in rows |-> r.value]
      <4>1. f \in Surjection(rows, ValuesOf(rows))
        BY DEF Surjection, ValuesOf
      <4> QED
        BY <3>4, <4>1, FS_Surjection
    <3>6. /\ Cardinality(Effective(x, key)) <= Cardinality(ValuesOf(rows))
          /\ Cardinality(Effective(x, key)) \in Nat /\ Cardinality(ValuesOf(rows)) \in Nat
      BY <3>3, <3>5, FS_Subset, FS_CardinalityType
    <3>7. Cardinality(ValuesOf(rows)) > 1
      BY <3>6
    <3> QED
      BY <3>1, <3>7
  <2> QED
    BY <2>1, <2>2, TablesAre
<1> QED
  BY <1>1, InductiveInvariant, PTL

\* When a commit descends from all other assignments of a key, its own is the
\* only one left, whatever had been kept before.
THEOREM ADescendantResolves == Spec => []DescendantResolves
<1>1. IInv => DescendantResolves
  <2> SUFFICES ASSUME IInv PROVE DescendantResolves
    OBVIOUS
  <2>1. CASE tables = EmptyTables
    <3>1. tables.stored = {}
      BY <2>1 DEF EmptyTables
    <3> QED
      BY <3>1 DEF DescendantResolves
  <2>2. CASE TablesInv(tables, Replayed) /\ HistoryOK /\ Replayed \subseteq All
    <3> SUFFICES ASSUME NEW x \in tables.stored, NEW key \in Keys, NEW c \in Sources(x, key),
                        Sources(x, key) \subseteq Ancestors(c)
                 PROVE  /\ <<x, key>> \notin tables.conflicts
                        /\ Values(c, x, key) \ {Null} # {} =>
                              Values(c, x, key) \subseteq tables.column[x][key]
      BY DEF DescendantResolves
    <3> DEFINE rows == Rows(tables, x, key)
    <3>1. /\ RowsInv(tables, Replayed, x, key)
          /\ \A d \in Replayed : \A v, w \in Values(d, x, key) : v = w
          /\ <<x, key>> \in tables.conflicts <=> Cardinality(ValuesOf(rows)) > 1
          /\ ResolvedInv(tables, Replayed, x, key)
      BY <2>2 DEF TablesInv, MetaInv
    <3>2. Sources(x, key) = SourcesIn(Replayed, x, key) /\ x \in Replayed /\ c \in Replayed
      BY <2>2 DEF Sources, SourcesIn, TablesInv, Ready
    <3>3. /\ \A r \in rows : r.source = c
          /\ Values(c, x, key) \ {Null} \subseteq tables.column[x][key]
      BY <3>1, <3>2 DEF ResolvedInv
    <3>4. PICK value : Values(c, x, key) = {value}
      <4>1. \A v, w \in Values(c, x, key) : v = w
        BY <3>1, <3>2
      <4>2. PICK v : v \in Values(c, x, key)
        BY DEF Sources
      <4>3. Values(c, x, key) = {v}
        BY <4>1, <4>2
      <4> QED
        BY <4>3
    <3>5. ValuesOf(rows) \subseteq {value}
      BY <3>1, <3>3, <3>4 DEF RowsInv, ValuesOf
    <3> HIDE DEF rows
    <3>6. ~(Cardinality(ValuesOf(rows)) > 1)
      <4>1. IsFiniteSet({value}) /\ Cardinality({value}) = 1
        BY FS_Singleton
      <4>2. Cardinality(ValuesOf(rows)) <= Cardinality({value})
        BY <3>5, <4>1, FS_Subset
      <4>3. Cardinality(ValuesOf(rows)) \in Nat
        BY <3>5, <4>1, FS_Subset, FS_CardinalityType
      <4> QED
        BY <4>1, <4>2, <4>3
    <3>7. <<x, key>> \notin tables.conflicts
      BY <3>1, <3>6
    <3>8. Values(c, x, key) \ {Null} # {} => Values(c, x, key) \subseteq tables.column[x][key]
      BY <3>3, <3>4
    <3> QED
      BY <3>7, <3>8
  <2> QED
    BY <2>1, <2>2, TablesAre
<1> QED
  BY <1>1, InductiveInvariant, PTL
=============================================================================
