--------------------------- MODULE SelectionProof ---------------------------
(***************************************************************************)
(* What the operators of Selection.tla compute, for every input, and what a *)
(* scan of SelectionScan.tla may rely on.  Induction over the naturals is   *)
(* by least counterexample.                                                 *)
(***************************************************************************)
EXTENDS SelectionScan, FiniteSetTheorems, SequenceTheorems, TLAPS

-----------------------------------------------------------------------------
(* Induction *)

\* A set of naturals that is not empty has a least element.
LEMMA LeastNatural ==
    ASSUME NEW T \in SUBSET Nat, T # {}
    PROVE  \E x \in T : \A y \in T : x <= y
<1> DEFINE R == OpToRel(<, Nat)
<1>1. \A x, y \in Nat : x < y => <<x, y>> \in R BY DEF OpToRel
<1>2. IsWellFoundedOn(R, Nat) BY NatLessThanWellFounded
<1> HIDE DEF R
<1>3. PICK x \in T : \A y \in T : ~ (<<y, x>> \in R) BY <1>2, WFMin
<1>4. \A y \in T : ~(y < x) BY <1>1, <1>3
<1> QED BY <1>4

\* A set that contains 0 and every successor of its members up to n contains 0..n.
LEMMA Inductive ==
    ASSUME NEW n \in Nat, NEW S, 0 \in S, \A i \in 0..(n - 1) : i \in S => i + 1 \in S
    PROVE  0..n \subseteq S
<1> DEFINE T == (0..n) \ S
<1>1. CASE T # {}
  <2>1. PICK x \in T : \A y \in T : x <= y
    <3>1. T \in SUBSET Nat OBVIOUS
    <3> HIDE DEF T
    <3> QED BY <3>1, <1>1, LeastNatural
  <2>2. x # 0 /\ x - 1 \in 0..(n - 1) /\ x - 1 + 1 = x OBVIOUS
  <2>3. x - 1 \notin T BY <2>1, <2>2
  <2> QED BY <2>2, <2>3
<1> QED BY <1>1

-----------------------------------------------------------------------------
(* Sets of naturals in increasing order *)

LEMMA Ranks ==
    ASSUME NEW S \in SUBSET Nat, IsFiniteSet(S), NEW a \in S, NEW b \in S, a < b
    PROVE  Cardinality({k \in S : k < a}) < Cardinality({k \in S : k < b})
<1> DEFINE A == {k \in S : k < a}
           B == {k \in S : k < b}
<1>0. ~(a < a) /\ \A k \in S : k < a => k < b OBVIOUS
<1>1. A \subseteq B /\ a \in B /\ a \notin A /\ B \subseteq S BY <1>0
<1> HIDE DEF A, B
<1>2. IsFiniteSet(B) BY <1>1, FS_Subset
<1>3. /\ IsFiniteSet(A) /\ Cardinality(A) <= Cardinality(B)
      /\ Cardinality(B) = Cardinality(A) => B = A
  BY <1>1, <1>2, FS_Subset
<1>4. Cardinality(A) \in Nat /\ Cardinality(B) \in Nat BY <1>2, <1>3, FS_CardinalityType
<1> QED BY <1>1, <1>3, <1>4 DEF A, B

LEMMA RankBound ==
    ASSUME NEW S \in SUBSET Nat, IsFiniteSet(S), NEW a \in S
    PROVE  Cardinality({k \in S : k < a}) \in 0..(Cardinality(S) - 1)
<1> DEFINE A == {k \in S : k < a}
<1>1. A \subseteq S /\ a \notin A OBVIOUS
<1> HIDE DEF A
<1>2. /\ IsFiniteSet(A) /\ Cardinality(A) <= Cardinality(S)
      /\ Cardinality(S) = Cardinality(A) => S = A
  BY <1>1, FS_Subset
<1>3. Cardinality(A) \in Nat /\ Cardinality(S) \in Nat BY <1>2, FS_CardinalityType
<1>4. Cardinality(A) \in 0..(Cardinality(S) - 1) BY <1>1, <1>2, <1>3
<1> QED BY <1>4 DEF A

\* Every place up to the size of S is the rank of one of its members.
LEMMA RankTaken ==
    ASSUME NEW S \in SUBSET Nat, IsFiniteSet(S), NEW i \in 1..Cardinality(S)
    PROVE  \E n \in S : Cardinality({k \in S : k < n}) = i - 1
<1> DEFINE N == Cardinality(S)
           rank == [n \in S |-> Cardinality({k \in S : k < n})]
<1>1. N \in Nat BY FS_CardinalityType
<1>2. rank \in [S -> 0..(N - 1)] BY RankBound
<1>3. ASSUME NEW a \in S, NEW b \in S, rank[a] = rank[b] PROVE a = b
  <2>1. /\ rank[a] = Cardinality({k \in S : k < a}) /\ rank[b] = Cardinality({k \in S : k < b})
    OBVIOUS
  <2>2. rank[a] \in Nat /\ rank[b] \in Nat BY <1>1, <1>2
  <2>3. a < b => rank[a] < rank[b] BY <2>1, Ranks
  <2>4. b < a => rank[b] < rank[a] BY <2>1, Ranks
  <2> HIDE DEF rank
  <2>5. ~(a < b) /\ ~(b < a) BY <1>3, <2>2, <2>3, <2>4
  <2> QED BY <2>5
<1>4. rank \in Injection(S, 0..(N - 1))
  <2> HIDE DEF rank
  <2> QED BY <1>2, <1>3 DEF Injection, IsInjective
<1>5. IsFiniteSet(0..(N - 1)) /\ Cardinality(0..(N - 1)) = N
  <2>1. 0 \in Int /\ N - 1 \in Int BY <1>1
  <2>2. /\ IsFiniteSet(0..(N - 1))
        /\ Cardinality(0..(N - 1)) = IF 0 > N - 1 THEN 0 ELSE N - 1 - 0 + 1
    BY <2>1, FS_Interval
  <2> QED BY <1>1, <2>2
<1>6. rank \in Surjection(S, 0..(N - 1))
  <2> HIDE DEF rank
  <2> QED BY <1>4, <1>5, FS_Injection
<1>7. i - 1 \in 0..(N - 1) BY <1>1
<1>8. PICK n \in S : rank[n] = i - 1 BY <1>6, <1>7 DEF Surjection
<1> QED BY <1>8

\* InOrder lists each member of a finite set once, in increasing order.
LEMMA InOrderLists ==
    ASSUME NEW S \in SUBSET Nat, IsFiniteSet(S)
    PROVE  /\ Cardinality(S) \in Nat
           /\ InOrder(S) \in [1..Cardinality(S) -> S]
           /\ \A n \in S : \E i \in 1..Cardinality(S) : InOrder(S)[i] = n
           /\ \A i, j \in 1..Cardinality(S) : i < j => InOrder(S)[i] < InOrder(S)[j]
<1> DEFINE N == Cardinality(S)
           q == InOrder(S)
           rank(n) == Cardinality({k \in S : k < n})
<1>1. N \in Nat BY FS_CardinalityType
<1>2. DOMAIN q = 1..N /\ \A i \in 1..N : q[i] \in S /\ rank(q[i]) = i - 1
  <2>1. DOMAIN q = 1..N /\ \A i \in 1..N : q[i] = CHOOSE n \in S : rank(n) = i - 1
    BY DEF InOrder
  <2>2. ASSUME NEW i \in 1..N PROVE \E n \in S : rank(n) = i - 1 BY RankTaken
  <2> HIDE DEF q, rank
  <2> QED BY <2>1, <2>2
<1>3. q \in [1..N -> S]
  <2>1. \A i \in 1..N : (CHOOSE n \in S : rank(n) = i - 1) \in S
    BY <1>2, Zenon DEF InOrder
  <2> QED BY <2>1, Zenon DEF InOrder
<1>4. ASSUME NEW n \in S PROVE \E i \in 1..N : q[i] = n
  <2>1. rank(n) \in 0..(N - 1) BY RankBound
  <2> DEFINE i == rank(n) + 1
  <2>2. i \in 1..N /\ rank(n) = i - 1
    <3> HIDE DEF rank
    <3> QED BY <1>1, <2>1
  <2>3. rank(q[i]) = rank(n) /\ q[i] \in S BY <1>2, <2>2
  <2>4. q[i] < n => rank(q[i]) < rank(n) BY <2>3, Ranks
  <2>5. n < q[i] => rank(n) < rank(q[i]) BY <2>3, Ranks
  <2>6. rank(n) \in Nat BY <2>1, <1>1
  <2> HIDE DEF rank, q, i
  <2>7. ~(rank(n) < rank(n)) BY <2>6
  <2>8. ~(q[i] < n) /\ ~(n < q[i]) BY <2>3, <2>4, <2>5, <2>7
  <2>9. q[i] \in Nat /\ n \in Nat BY <2>3
  <2> QED BY <2>2, <2>8, <2>9
<1>5. ASSUME NEW i \in 1..N, NEW j \in 1..N, i < j PROVE q[i] < q[j]
  <2>1. /\ q[i] \in S /\ q[j] \in S /\ rank(q[i]) = i - 1 /\ rank(q[j]) = j - 1
    BY <1>2
  <2>2. q[j] < q[i] => rank(q[j]) < rank(q[i]) BY <2>1, Ranks
  <2> HIDE DEF rank, q
  <2>3. ~(q[j] < q[i]) /\ q[i] # q[j] BY <1>1, <1>5, <2>1, <2>2
  <2>4. q[i] \in Nat /\ q[j] \in Nat BY <2>1
  <2> QED BY <2>3, <2>4
<1> QED BY <1>1, <1>3, <1>4, <1>5

-----------------------------------------------------------------------------
(* Subsequences *)

\* at lists the n places of q whose element is kept, in increasing order, and k what
\* is there.
Places(S, q, kept, k, n, at) ==
    /\ k \in [1..n -> S]
    /\ \A i \in 1..n : k[i] = q[at[i]] /\ q[at[i]] \in kept
    /\ \A i, j \in 1..n : i < j => at[i] < at[j]
    /\ \A a \in DOMAIN q : q[a] \in kept => \E i \in 1..n : at[i] = a

LEMMA KeepPlaces ==
    ASSUME NEW S, NEW q \in Seq(S), NEW kept
    PROVE  \E n \in Nat : \E at \in [1..n -> DOMAIN q] :
             Places(S, q, kept, Keep(q, kept), n, at)
<1> DEFINE P == {i \in DOMAIN q : q[i] \in kept}
           n == Cardinality(P)
           at == InOrder(P)
<1>1. DOMAIN q = 1..Len(q) /\ Len(q) \in Nat /\ \A i \in DOMAIN q : q[i] \in S
  BY LenProperties
<1>2. P \in SUBSET Nat /\ IsFiniteSet(P)
  <2>1. P \in SUBSET Nat /\ \A i \in P : i <= Len(q) BY <1>1
  <2> HIDE DEF P
  <2> QED BY <1>1, <2>1, FS_BoundedSetOfNaturals
<1>3. /\ n \in Nat /\ at \in [1..n -> P]
      /\ \A a \in P : \E i \in 1..n : at[i] = a
      /\ \A i, j \in 1..n : i < j => at[i] < at[j]
  <2> HIDE DEF P
  <2> QED BY <1>2, InOrderLists
<1>4. Keep(q, kept) = [i \in 1..n |-> q[at[i]]]
  <2>1. DOMAIN at = 1..n BY DEF InOrder
  <2> QED BY <2>1, Zenon DEF Keep
<1> HIDE DEF n, at
<1>5. at \in [1..n -> DOMAIN q] BY <1>3
<1>6. \A i \in 1..n : q[at[i]] \in S /\ q[at[i]] \in kept BY <1>1, <1>3
<1>7. Keep(q, kept) \in [1..n -> S] BY <1>4, <1>6
<1>8. \A i \in 1..n : Keep(q, kept)[i] = q[at[i]] BY <1>4
<1>9. \A a \in DOMAIN q : q[a] \in kept => \E i \in 1..n : at[i] = a BY <1>3
<1> HIDE DEF P
<1>10. Places(S, q, kept, Keep(q, kept), n, at)
  BY <1>3, <1>6, <1>7, <1>8, <1>9 DEF Places
<1> QED BY <1>3, <1>5, <1>10

\* Keep of a sequence is the sequence of its kept elements.
LEMMA KeepContents ==
    ASSUME NEW S, NEW q \in Seq(S), NEW kept
    PROVE  Keep(q, kept) \in Seq(S) /\ ToSet(Keep(q, kept)) = ToSet(q) \cap kept
<1> DEFINE k == Keep(q, kept)
<1>1. PICK n \in Nat : \E at \in [1..n -> DOMAIN q] : Places(S, q, kept, k, n, at)
  BY KeepPlaces
<1>2. PICK at \in [1..n -> DOMAIN q] : Places(S, q, kept, k, n, at) BY <1>1
<1> HIDE DEF k
<1>3. k \in Seq(S) BY <1>2, SeqDef DEF Places
<1>4. DOMAIN k = 1..n BY <1>2 DEF Places
<1>5. ASSUME NEW e \in ToSet(k) PROVE e \in ToSet(q) \cap kept
  <2>1. PICK i \in 1..n : e = k[i] BY <1>4 DEF ToSet
  <2>2. e = q[at[i]] /\ e \in kept /\ at[i] \in DOMAIN q BY <1>2, <2>1 DEF Places
  <2> QED BY <2>2 DEF ToSet
<1>6. ASSUME NEW e \in ToSet(q) \cap kept PROVE e \in ToSet(k)
  <2>1. PICK a \in DOMAIN q : e = q[a] BY DEF ToSet
  <2>2. PICK i \in 1..n : at[i] = a BY <1>2, <2>1 DEF Places
  <2>3. k[i] = e BY <1>2, <2>1, <2>2 DEF Places
  <2> QED BY <1>4, <2>3 DEF ToSet
<1> QED BY <1>3, <1>5, <1>6 DEF k

\* What Keep keeps stays in order.
LEMMA KeepOrder ==
    ASSUME NEW S, NEW q \in Seq(S), NEW kept,
           NEW a \in DOMAIN q, NEW b \in DOMAIN q, a < b, q[a] \in kept, q[b] \in kept
    PROVE  \E i, j \in DOMAIN Keep(q, kept) :
             i < j /\ Keep(q, kept)[i] = q[a] /\ Keep(q, kept)[j] = q[b]
<1> DEFINE k == Keep(q, kept)
<1>0. DOMAIN q = 1..Len(q) /\ Len(q) \in Nat BY LenProperties
<1>1. PICK n \in Nat : \E at \in [1..n -> DOMAIN q] : Places(S, q, kept, k, n, at)
  BY KeepPlaces
<1>2. PICK at \in [1..n -> DOMAIN q] : Places(S, q, kept, k, n, at) BY <1>1
<1> HIDE DEF k
<1>3. PICK i \in 1..n : at[i] = a BY <1>2 DEF Places
<1>4. PICK j \in 1..n : at[j] = b BY <1>2 DEF Places
<1>5. j < i => b < a BY <1>2, <1>3, <1>4 DEF Places
<1>6. i < j
  <2>1. a \in Nat /\ b \in Nat BY <1>0
  <2>2. ~(j < i) /\ i # j BY <1>3, <1>4, <1>5, <2>1
  <2> QED BY <2>2
<1>7. DOMAIN k = 1..n /\ k[i] = q[a] /\ k[j] = q[b] BY <1>2, <1>3, <1>4 DEF Places
<1> QED BY <1>6, <1>7 DEF k

\* Two places of what Keep keeps are two places of the sequence, in order.
LEMMA KeepFrom ==
    ASSUME NEW S, NEW q \in Seq(S), NEW kept,
           NEW i \in DOMAIN Keep(q, kept), NEW j \in DOMAIN Keep(q, kept), i < j
    PROVE  \E a, b \in DOMAIN q :
             a < b /\ Keep(q, kept)[i] = q[a] /\ Keep(q, kept)[j] = q[b]
<1> DEFINE k == Keep(q, kept)
<1>1. PICK n \in Nat : \E at \in [1..n -> DOMAIN q] : Places(S, q, kept, k, n, at)
  BY KeepPlaces
<1>2. PICK at \in [1..n -> DOMAIN q] : Places(S, q, kept, k, n, at) BY <1>1
<1>3. i \in DOMAIN k /\ j \in DOMAIN k OBVIOUS
<1> HIDE DEF k
<1>4. DOMAIN k = 1..n BY <1>2 DEF Places
<1>5. /\ at[i] \in DOMAIN q /\ at[j] \in DOMAIN q /\ at[i] < at[j]
      /\ k[i] = q[at[i]] /\ k[j] = q[at[j]]
  BY <1>2, <1>3, <1>4 DEF Places
<1> QED BY <1>5 DEF k

-----------------------------------------------------------------------------
(* Recursion along a sequence *)

\* g is b at 0 and at every later place i what F[i] makes of the place before.
Recurses(g, n, b, F) == g[0] = b /\ \A i \in 1..n : g[i] = F[i][g[i - 1]]

\* A value that is rewritten once for each of n places is well defined.
LEMMA RecursionDefined ==
    ASSUME NEW n \in Nat, NEW V, NEW b \in V, NEW F \in [1..n -> [V -> V]]
    PROVE  \E g \in [0..n -> V] : Recurses(g, n, b, F)
<1> DEFINE Runs(g, m) == g[0] = b /\ \A i \in 1..m : g[i] = F[i][g[i - 1]]
           D == {m \in 0..n : \E g \in [0..m -> V] : Runs(g, m)}
<1>1. 0 \in D
  <2>1. [i \in 0..0 |-> b] \in [0..0 -> V] /\ Runs([i \in 0..0 |-> b], 0) OBVIOUS
  <2>2. 0 \in 0..n OBVIOUS
  <2> HIDE DEF Runs
  <2> QED BY <2>1, <2>2
<1>2. ASSUME NEW m \in 0..(n - 1), m \in D PROVE m + 1 \in D
  <2>1. PICK g \in [0..m -> V] : Runs(g, m) BY <1>2
  <2>2. /\ m \in Nat /\ m + 1 \in 1..n /\ m \in 0..m /\ m + 1 \in 0..n
        /\ \A i \in 1..(m + 1) : i - 1 \in 0..m
        /\ \A i \in 0..(m + 1) : i <= m => i \in 0..m
        /\ \A i \in 1..(m + 1) : (i <= m => i \in 1..m) /\ i - 1 <= m /\ i - 1 \in 0..(m + 1)
        /\ \A i \in 1..(m + 1) : ~(i <= m) => i = m + 1
        /\ 0 <= m /\ 0 \in 0..(m + 1) /\ 1..(m + 1) \subseteq 0..(m + 1) /\ m + 1 - 1 = m
    OBVIOUS
  <2> DEFINE h == [i \in 0..(m + 1) |-> IF i <= m THEN g[i] ELSE F[m + 1][g[m]]]
  <2>3. F[m + 1] \in [V -> V] /\ g[m] \in V BY <2>2
  <2>4. F[m + 1][g[m]] \in V BY <2>3
  <2>5. h \in [0..(m + 1) -> V] BY <2>2, <2>4
  <2>6. h[0] = b BY <2>1, <2>2
  <2>7. ASSUME NEW i \in 1..(m + 1) PROVE h[i] = F[i][h[i - 1]]
    <3>1. h[i - 1] = g[i - 1] BY <2>2
    <3>2. CASE i <= m
      <4>1. h[i] = g[i] BY <2>2, <3>2
      <4>2. g[i] = F[i][g[i - 1]] BY <2>1, <2>2, <3>2
      <4> QED BY <3>1, <4>1, <4>2
    <3>3. CASE ~(i <= m)
      <4>1. i = m + 1 /\ i - 1 = m BY <2>2, <3>3
      <4>2. h[i] = F[m + 1][g[m]] BY <2>2, <3>3
      <4> QED BY <3>1, <4>1, <4>2
    <3> QED BY <3>2, <3>3
  <2> HIDE DEF h
  <2> QED BY <2>2, <2>5, <2>6, <2>7
<1>3. 0..n \subseteq D
  <2> HIDE DEF D
  <2> QED BY <1>1, <1>2, Inductive
<1>4. n \in D BY <1>3
<1> QED BY <1>4 DEF Recurses

-----------------------------------------------------------------------------
(* Merge *)

CandidatesOf(K) == [key : K, disposition : Dispositions, observed : BOOLEAN]

\* Merge lists candidates of its two sources, each key once and in increasing order.
LEMMA MergeLists ==
    ASSUME NEW n \in Nat, NEW rest \in SUBSET CandidatesOf(1..n),
           NEW retained \in SUBSET CandidatesOf(1..n)
    PROVE  /\ Merge(rest, retained) \in Seq(rest \cup retained)
           /\ \A i, j \in DOMAIN Merge(rest, retained) :
                i < j => Merge(rest, retained)[i].key < Merge(rest, retained)[j].key
           /\ \A c \in rest \cup retained : \E i \in DOMAIN Merge(rest, retained) :
                Merge(rest, retained)[i].key = c.key
<1> DEFINE all == rest \cup {c \in retained : \A r \in rest : r.key # c.key}
           K == {c.key : c \in all}
           keys == InOrder(K)
           m == Merge(rest, retained)
<1>1. /\ all \subseteq rest \cup retained /\ \A c \in all : c.key \in 1..n
      /\ \A c \in rest \cup retained : \E d \in all : d.key = c.key
  BY DEF CandidatesOf
<1>2. K \in SUBSET Nat /\ \A k \in K : k <= n BY <1>1
<1>3. /\ DOMAIN m = DOMAIN keys
      /\ \A i \in DOMAIN keys : m[i] = CHOOSE c \in all : c.key = keys[i]
      /\ m = [i \in DOMAIN keys |-> CHOOSE c \in all : c.key = keys[i]]
  BY Zenon DEF Merge
<1>4. \A k \in K : \E c \in all : c.key = k OBVIOUS
<1>5. \A c \in all : c.key \in K OBVIOUS
<1> HIDE DEF all, m
<1>6. IsFiniteSet(K)
  <2> HIDE DEF K
  <2> QED BY <1>2, FS_BoundedSetOfNaturals
<1> HIDE DEF K
<1> DEFINE N == Cardinality(K)
<1>7. /\ N \in Nat /\ keys \in [1..N -> K]
      /\ \A k \in K : \E i \in 1..N : keys[i] = k
      /\ \A i, j \in 1..N : i < j => keys[i] < keys[j]
  BY <1>2, <1>6, InOrderLists
<1> HIDE DEF keys, N
<1>8. DOMAIN keys = 1..N /\ \A i \in 1..N : keys[i] \in K BY <1>7
<1>9. \A i \in 1..N : (CHOOSE c \in all : c.key = keys[i]) \in all
                      /\ (CHOOSE c \in all : c.key = keys[i]).key = keys[i]
  BY <1>4, <1>8, Zenon
<1>10. \A i \in 1..N : m[i] \in all /\ m[i].key = keys[i] BY <1>3, <1>8, <1>9, Zenon
<1>11. m \in [1..N -> rest \cup retained] BY <1>1, <1>3, <1>8, <1>9
<1>12. m \in Seq(rest \cup retained) BY <1>7, <1>11, SeqDef
<1>13. DOMAIN m = 1..N BY <1>3, <1>8
<1>14. \A i, j \in 1..N : i < j => m[i].key < m[j].key BY <1>7, <1>10
<1>15. ASSUME NEW c \in rest \cup retained PROVE \E i \in 1..N : m[i].key = c.key
  <2>1. PICK d \in all : d.key = c.key BY <1>1
  <2>2. PICK i \in 1..N : keys[i] = d.key BY <1>5, <1>7
  <2> QED BY <1>10, <2>1, <2>2
<1> QED BY <1>12, <1>13, <1>14, <1>15 DEF m

-----------------------------------------------------------------------------
(* SelectPrefix *)

NoPrefix == [members |-> <<>>, stop |-> "end", at |-> NoCandidate]

\* The walk's accumulator over candidates C.
Accumulators(C) == [members : Seq(C), stop : Stops, at : C \cup {NoCandidate}]

LEMMA WalkTyped ==
    ASSUME NEW C \in SUBSET CandidatesOf(Nat), NEW c \in C, NEW acc \in Accumulators(C),
           NEW listed, NEW cap, NEW pageReaches, NEW exhausted, NEW resumed
    PROVE  Walk(listed, cap, pageReaches, exhausted, resumed, acc, c) \in Accumulators(C)
<1> DEFINE w == Walk(listed, cap, pageReaches, exhausted, resumed, acc, c)
           grown == Append(acc.members, c)
           first == IF acc.members = <<>> THEN <<c>> ELSE acc.members
<1>1. acc.members \in Seq(C) /\ acc.stop \in Stops BY DEF Accumulators
<1>2. grown \in Seq(C) BY <1>1, AppendProperties
<1>3. first \in Seq(C) BY <1>1
<1> HIDE DEF grown, first
<1>4. \A x \in Stops : [acc EXCEPT !.stop = x, !.at = c] \in Accumulators(C) BY DEF Accumulators
<1>5. \A x \in Stops : [acc EXCEPT !.members = grown, !.stop = x] \in Accumulators(C)
  BY <1>2 DEF Accumulators
<1>6. \A x \in Stops : [members |-> first, stop |-> x, at |-> c] \in Accumulators(C)
  BY <1>3 DEF Accumulators
<1>7. {"frontier", "held", "control", "boundary", "cap", "end"} \subseteq Stops BY DEF Stops
<1>8. \/ w = acc \/ w = [acc EXCEPT !.stop = "frontier", !.at = c]
      \/ w = [acc EXCEPT !.stop = "held", !.at = c]
      \/ \E x \in {"control", "boundary"} : w = [members |-> first, stop |-> x, at |-> c]
      \/ \E x \in {"cap", "end"} : w = [acc EXCEPT !.members = grown, !.stop = x]
  BY Zenon DEF Walk, grown, first
<1> HIDE DEF w
<1>9. w \in Accumulators(C) BY <1>4, <1>5, <1>6, <1>7, <1>8
<1> QED BY <1>9 DEF w

\* w is the walk of select_prefix over cs.
Walks(C, cs, listed, cap, reaches, exhausted, resumed, w) ==
    /\ w \in [0..Len(cs) -> Accumulators(C)] /\ w[0] = NoPrefix
    /\ \A i \in 1..Len(cs) :
         w[i] = Walk(listed, cap, reaches, exhausted, resumed, w[i - 1], cs[i])

\* select_prefix returns what its walk has found at the last candidate.
LEMMA PrefixWalks ==
    ASSUME NEW C \in SUBSET CandidatesOf(Nat), NEW cs \in Seq(C),
           NEW listed, NEW cap, NEW reaches, NEW exhausted, NEW resumed
    PROVE  \E w : /\ Walks(C, cs, listed, cap, reaches, exhausted, resumed, w)
                  /\ SelectPrefix(cs, listed, cap, reaches, exhausted, resumed) = w[Len(cs)]
<1> DEFINE n == Len(cs)
           V == Accumulators(C)
           Step(v, i) == Walk(listed, cap, reaches, exhausted, resumed, v, cs[i])
           F == [i \in 1..n |-> [v \in V |-> Step(v, i)]]
           Def(w) == [i \in 0..n |-> IF i = 0 THEN NoPrefix ELSE Step(w[i - 1], i)]
           walk == CHOOSE w : w = Def(w)
<1>1. n \in Nat /\ \A i \in 1..n : cs[i] \in C BY LenProperties
<1>2. NoPrefix \in V
  <2>1. <<>> \in Seq(C) /\ "end" \in Stops BY DEF Stops
  <2> QED BY <2>1 DEF NoPrefix, Accumulators
<1>3. ASSUME NEW v \in V, NEW i \in 1..n PROVE Step(v, i) \in V BY <1>1, WalkTyped
<1>4. SelectPrefix(cs, listed, cap, reaches, exhausted, resumed) = walk[n]
  BY Zenon DEF SelectPrefix, NoPrefix
<1> HIDE DEF n, V, Step
<1>5. F \in [1..n -> [V -> V]] BY <1>3
<1>6. \A i \in 1..n, v \in V : F[i][v] = Step(v, i) OBVIOUS
<1> HIDE DEF F
<1>7. PICK g \in [0..n -> V] : Recurses(g, n, NoPrefix, F)
  BY <1>1, <1>2, <1>5, RecursionDefined
<1>8. \A i \in 1..n : i - 1 \in 0..n /\ i \in 0..n BY <1>1
<1>9. \A i \in 0..n : i = 0 \/ i \in 1..n BY <1>1
<1>10. \A i \in 1..n : g[i] = Step(g[i - 1], i) BY <1>6, <1>7, <1>8 DEF Recurses
<1>11. g = Def(g) BY <1>7, <1>9, <1>10 DEF Recurses
<1>12. walk = Def(walk)
  <2> HIDE DEF Def
  <2> QED BY <1>11
<1> HIDE DEF walk
<1>13. /\ DOMAIN walk = 0..n
       /\ \A i \in 0..n : walk[i] = IF i = 0 THEN NoPrefix ELSE Step(walk[i - 1], i)
  BY <1>12
<1>14. walk[0] = NoPrefix /\ \A i \in 1..n : walk[i] = Step(walk[i - 1], i)
  <2>1. 0 \in 0..n /\ \A i \in 1..n : i # 0 BY <1>1
  <2> QED BY <1>8, <1>13, <2>1
<1>15. \A i \in 0..n : walk[i] \in V
  <2> DEFINE D == {i \in 0..n : walk[i] \in V}
  <2>1. 0 \in D BY <1>1, <1>2, <1>14
  <2>2. ASSUME NEW i \in 0..(n - 1), i \in D PROVE i + 1 \in D
    <3>1. i + 1 \in 1..n /\ i + 1 - 1 = i /\ i + 1 \in 0..n BY <1>1
    <3>2. walk[i + 1] = Step(walk[i], i + 1) BY <1>14, <3>1
    <3> QED BY <1>3, <2>2, <3>1, <3>2
  <2> HIDE DEF D
  <2>3. 0..n \subseteq D BY <1>1, <2>1, <2>2, Inductive
  <2> QED BY <2>3 DEF D
<1>16. walk \in [0..n -> V] BY <1>12, <1>13, <1>15
<1>17. Walks(C, cs, listed, cap, reaches, exhausted, resumed, walk)
  BY <1>14, <1>16 DEF Walks, n, V, Step
<1> QED BY <1>4, <1>17 DEF n

-----------------------------------------------------------------------------
(* What select_prefix selects *)

\* The read tells the place of c: it lists c, reaches it, or c keeps its place as a
\* resumed retry.
Reached(c, listed, reaches, exhausted, resumed) ==
    c.key \in listed \/ c.key \in resumed \/ ReadReaches(c, reaches, exhausted)

\* One step of the walk, told by what it does to the members and the stop.
LEMMA WalkSteps ==
    ASSUME NEW C \in SUBSET CandidatesOf(Nat), NEW c \in C, NEW acc \in Accumulators(C),
           NEW listed, NEW cap, NEW reaches, NEW exhausted, NEW resumed,
           NEW w, w = Walk(listed, cap, reaches, exhausted, resumed, acc, c)
    PROVE  \/ w = acc /\ (acc.stop # "end" \/ c.disposition = "skip")
           \/ /\ acc.stop = "end" /\ w.members = acc.members /\ w.stop \in {"frontier", "held"}
              /\ w.stop = "frontier" => ~Reached(c, listed, reaches, exhausted, resumed)
           \/ /\ acc.stop = "end" /\ w.stop \in {"control", "boundary"}
              /\ IF acc.members = <<>> THEN w.members = <<c>> ELSE w.members = acc.members
              /\ c.disposition \notin {"skip", "held"}
              /\ Reached(c, listed, reaches, exhausted, resumed)
           \/ /\ acc.stop = "end" /\ w.members = Append(acc.members, c)
              /\ w.stop = IF Len(w.members) = cap THEN "cap" ELSE "end"
              /\ c.disposition = "runnable" /\ c.key \in listed
              /\ Reached(c, listed, reaches, exhausted, resumed)
<1>1. c.disposition \in Dispositions /\ acc.stop \in Stops /\ DOMAIN acc = {"members", "stop", "at"}
  BY DEF CandidatesOf, Accumulators
<1>2. CASE acc.stop # "end" BY <1>2, Zenon DEF Walk
<1>3. CASE /\ acc.stop = "end" /\ c.key \notin listed /\ c.key \notin resumed
           /\ ~ReadReaches(c, reaches, exhausted)
  <2>1. w = [acc EXCEPT !.stop = "frontier", !.at = c] BY <1>3, Zenon DEF Walk
  <2> QED BY <1>3, <2>1 DEF Accumulators, Reached
<1>4. CASE /\ acc.stop = "end"
           /\ ~(c.key \notin listed /\ c.key \notin resumed /\ ~ReadReaches(c, reaches, exhausted))
  <2>1. CASE c.disposition = "skip"
    <3>1. w = acc BY <1>4, <2>1, Zenon DEF Walk
    <3> QED BY <2>1, <3>1
  <2>2. CASE c.disposition = "held"
    <3>1. w = [acc EXCEPT !.stop = "held", !.at = c] BY <1>4, <2>2, Zenon DEF Walk
    <3> QED BY <1>4, <3>1 DEF Accumulators, Reached
  <2>3. CASE \/ c.disposition \in {"control", "boundary"}
             \/ c.key \notin listed /\ c.disposition = "runnable"
    <3>1. c.disposition \notin {"skip", "held"} BY <2>3
    <3>2. w = [members |-> IF acc.members = <<>> THEN <<c>> ELSE acc.members,
               stop |-> IF ~(c.key \notin listed) /\ c.disposition = "control"
                        THEN "control" ELSE "boundary",
               at |-> c]
      BY <1>4, <2>3, <3>1, Zenon DEF Walk
    <3> QED BY <1>4, <3>1, <3>2 DEF Reached
  <2>4. CASE c.key \in listed /\ c.disposition = "runnable"
    <3>1. w = [acc EXCEPT !.members = Append(acc.members, c),
                          !.stop = IF Len(Append(acc.members, c)) = cap THEN "cap" ELSE "end"]
      BY <1>4, <2>4, Zenon DEF Walk
    <3> DEFINE grown == Append(acc.members, c)
               stop == IF Len(grown) = cap THEN "cap" ELSE "end"
    <3>2. w = [acc EXCEPT !.members = grown, !.stop = stop] BY <3>1
    <3> HIDE DEF grown, stop
    <3>3. w.members = grown /\ w.stop = stop BY <3>2 DEF Accumulators
    <3> QED BY <1>4, <2>4, <3>3 DEF grown, stop, Reached
  <2> QED BY <1>1, <2>1, <2>2, <2>3, <2>4 DEF Dispositions
<1> QED BY <1>2, <1>3, <1>4

\* A turn of several messages holds only listed runnable ones, within the cap; a turn
\* never holds a settled or a held message.
Batchable(v, listed, cap) ==
    /\ \A x \in ToSet(v.members) : x.disposition \notin {"skip", "held"}
    /\ Len(v.members) <= cap
    /\ v.stop \in {"end", "frontier", "held"} => Len(v.members) < cap
    /\ (v.stop = "end" \/ Len(v.members) > 1) =>
         \A x \in ToSet(v.members) : x.disposition = "runnable" /\ x.key \in listed

\* ToSet of an extended sequence.
LEMMA AppendContents ==
    ASSUME NEW S, NEW q \in Seq(S), NEW e \in S
    PROVE  ToSet(Append(q, e)) = ToSet(q) \cup {e}
<1>1. /\ Append(q, e) \in Seq(S) /\ Len(Append(q, e)) = Len(q) + 1
      /\ \A i \in 1..Len(q) : Append(q, e)[i] = q[i]
      /\ Append(q, e)[Len(q) + 1] = e
  BY AppendProperties
<1>2. /\ DOMAIN q = 1..Len(q) /\ Len(q) \in Nat
      /\ DOMAIN Append(q, e) = 1..(Len(q) + 1)
  BY <1>1, LenProperties
<1> DEFINE a == Append(q, e)
           n == Len(q)
<1> HIDE DEF a, n
<1>3. /\ DOMAIN a = 1..(n + 1) /\ DOMAIN q = 1..n /\ n \in Nat
      /\ \A i \in 1..n : a[i] = q[i] /\ a[n + 1] = e
  BY <1>1, <1>2 DEF a, n
<1>4. a[n + 1] = e BY <1>1 DEF a, n
<1>5. \A i \in 1..(n + 1) : i \in 1..n \/ i = n + 1 BY <1>3
<1>6. 1..n \subseteq 1..(n + 1) /\ n + 1 \in 1..(n + 1) BY <1>3
<1>7. ToSet(a) = ToSet(q) \cup {e} BY <1>3, <1>4, <1>5, <1>6 DEF ToSet
<1> QED BY <1>7 DEF a

LEMMA WalkBatchable ==
    ASSUME NEW C \in SUBSET CandidatesOf(Nat), NEW c \in C, NEW acc \in Accumulators(C),
           NEW listed, NEW cap \in Nat \ {0}, NEW reaches, NEW exhausted, NEW resumed,
           Batchable(acc, listed, cap)
    PROVE  Batchable(Walk(listed, cap, reaches, exhausted, resumed, acc, c), listed, cap)
<1> DEFINE w == Walk(listed, cap, reaches, exhausted, resumed, acc, c)
<1>1. w \in Accumulators(C) BY WalkTyped
<1>2. \/ w = acc
      \/ acc.stop = "end" /\ w.members = acc.members /\ w.stop \in {"frontier", "held"}
      \/ /\ acc.stop = "end" /\ w.stop \in {"control", "boundary"}
         /\ IF acc.members = <<>> THEN w.members = <<c>> ELSE w.members = acc.members
         /\ c.disposition \notin {"skip", "held"}
      \/ /\ acc.stop = "end" /\ w.members = Append(acc.members, c)
         /\ w.stop = IF Len(w.members) = cap THEN "cap" ELSE "end"
         /\ c.disposition = "runnable" /\ c.key \in listed
  BY WalkSteps
<1>3. /\ acc.members \in Seq(C) /\ Len(acc.members) \in Nat /\ w.members \in Seq(C)
      /\ Len(w.members) \in Nat
  BY <1>1 DEF Accumulators
<1> HIDE DEF w
<1>4. CASE w = acc BY <1>4 DEF w
<1>5. CASE acc.stop = "end" /\ w.members = acc.members /\ w.stop # "end"
  <2>1. Len(w.members) < cap BY <1>5 DEF Batchable
  <2>2. Len(w.members) <= cap BY <1>3, <2>1
  <2> QED BY <1>5, <2>2 DEF Batchable, w
<1>6. CASE /\ acc.stop = "end" /\ w.stop \in {"control", "boundary"} /\ w.members = <<c>>
           /\ c.disposition \notin {"skip", "held"}
  <2>1. Len(w.members) = 1 /\ ToSet(w.members) = {c} BY <1>6 DEF ToSet
  <2>2. 1 <= cap /\ ~(1 > 1) OBVIOUS
  <2> QED BY <1>6, <2>1, <2>2 DEF Batchable, w
<1>7. CASE /\ acc.stop = "end" /\ w.members = Append(acc.members, c)
           /\ w.stop = IF Len(w.members) = cap THEN "cap" ELSE "end"
           /\ c.disposition = "runnable" /\ c.key \in listed
  <2>1. Len(w.members) = Len(acc.members) + 1 BY <1>3, <1>7, AppendProperties
  <2>2. ToSet(w.members) = ToSet(acc.members) \cup {c} BY <1>3, <1>7, AppendContents
  <2>3. Len(acc.members) < cap BY <1>7 DEF Batchable
  <2>4. /\ Len(w.members) <= cap /\ w.stop \notin {"frontier", "held"}
        /\ w.stop = "end" => Len(w.members) < cap
    BY <1>3, <1>7, <2>1, <2>3
  <2>5. \A x \in ToSet(w.members) : x.disposition = "runnable" /\ x.key \in listed
    BY <1>7, <2>2 DEF Batchable
  <2> QED BY <2>4, <2>5 DEF Batchable, w
<1> QED BY <1>2, <1>4, <1>5, <1>6, <1>7

\* What select_prefix selects can be run as one turn.
LEMMA PrefixBatchable ==
    ASSUME NEW C \in SUBSET CandidatesOf(Nat), NEW cs \in Seq(C),
           NEW listed, NEW cap \in Nat \ {0}, NEW reaches, NEW exhausted, NEW resumed
    PROVE  /\ SelectPrefix(cs, listed, cap, reaches, exhausted, resumed) \in Accumulators(C)
           /\ Batchable(SelectPrefix(cs, listed, cap, reaches, exhausted, resumed), listed, cap)
<1>1. PICK w : /\ Walks(C, cs, listed, cap, reaches, exhausted, resumed, w)
               /\ SelectPrefix(cs, listed, cap, reaches, exhausted, resumed) = w[Len(cs)]
  BY PrefixWalks
<1> DEFINE n == Len(cs)
           D == {i \in 0..n : Batchable(w[i], listed, cap)}
<1>2. n \in Nat /\ \A i \in 1..n : cs[i] \in C BY LenProperties
<1>3. 0 \in D
  <2>1. ToSet(NoPrefix.members) = {} /\ Len(NoPrefix.members) = 0 BY DEF NoPrefix, ToSet
  <2>2. 0 <= cap /\ 0 < cap OBVIOUS
  <2>3. Batchable(NoPrefix, listed, cap) BY <2>1, <2>2 DEF Batchable
  <2> QED BY <1>1, <1>2, <2>3 DEF Walks
<1>4. ASSUME NEW i \in 0..(n - 1), i \in D PROVE i + 1 \in D
  <2>1. i + 1 \in 1..n /\ i + 1 - 1 = i /\ i + 1 \in 0..n /\ i \in 0..n BY <1>2
  <2>2. w[i + 1] = Walk(listed, cap, reaches, exhausted, resumed, w[i], cs[i + 1])
    BY <1>1, <2>1 DEF Walks
  <2>3. w[i] \in Accumulators(C) BY <1>1, <2>1 DEF Walks
  <2>4. Batchable(w[i + 1], listed, cap) BY <1>2, <1>4, <2>1, <2>2, <2>3, WalkBatchable
  <2> QED BY <2>1, <2>4
<1> HIDE DEF D
<1>5. 0..n \subseteq D BY <1>2, <1>3, <1>4, Inductive
<1>6. n \in 0..n BY <1>2
<1>7. Batchable(w[n], listed, cap) BY <1>5, <1>6 DEF D
<1>8. w[n] \in Accumulators(C) BY <1>1, <1>6 DEF Walks
<1> QED BY <1>1, <1>7, <1>8

\* Everything up to cs[j] is settled or selected.
Cleared(v, cs, j) ==
    \A k \in 1..j : cs[k].disposition = "skip" \/ cs[k] \in ToSet(v.members)

\* What the walk over cs may have left behind at i.
Covers(v, cs, i, listed, reaches, exhausted, resumed) ==
    /\ v.stop = "end" => Cleared(v, cs, i)
    /\ v.stop = "frontier" =>
         \E j \in 1..i : /\ Cleared(v, cs, j - 1)
                         /\ ~Reached(cs[j], listed, reaches, exhausted, resumed)
    /\ v.stop \in {"control", "boundary", "cap"} => v.members # <<>>
    /\ \A x \in ToSet(v.members) :
         \E j \in 1..i : /\ cs[j] = x /\ Cleared(v, cs, j)
                         /\ Reached(x, listed, reaches, exhausted, resumed)

LEMMA WalkCovers ==
    ASSUME NEW C \in SUBSET CandidatesOf(Nat), NEW cs \in Seq(C), NEW i \in 1..Len(cs),
           NEW acc \in Accumulators(C), NEW listed, NEW cap, NEW reaches, NEW exhausted,
           NEW resumed, Covers(acc, cs, i - 1, listed, reaches, exhausted, resumed), NEW w,
           w = Walk(listed, cap, reaches, exhausted, resumed, acc, cs[i])
    PROVE  Covers(w, cs, i, listed, reaches, exhausted, resumed)
<1> DEFINE c == cs[i]
           R(x) == Reached(x, listed, reaches, exhausted, resumed)
<1>1. c \in C /\ i \in Nat /\ i # 0 BY LenProperties
<1>2. \/ w = acc /\ (acc.stop # "end" \/ c.disposition = "skip")
      \/ /\ acc.stop = "end" /\ w.members = acc.members /\ w.stop \in {"frontier", "held"}
         /\ w.stop = "frontier" => ~R(c)
      \/ /\ acc.stop = "end" /\ w.stop \in {"control", "boundary"}
         /\ IF acc.members = <<>> THEN w.members = <<c>> ELSE w.members = acc.members
         /\ c.disposition \notin {"skip", "held"} /\ R(c)
      \/ /\ acc.stop = "end" /\ w.members = Append(acc.members, c)
         /\ w.stop = IF Len(w.members) = cap THEN "cap" ELSE "end"
         /\ c.disposition = "runnable" /\ c.key \in listed /\ R(c)
  BY <1>1, WalkSteps
<1>3. acc.members \in Seq(C) BY DEF Accumulators
<1>4. /\ \A k \in 1..i : k \in 1..(i - 1) \/ k = i
      /\ 1..(i - 1) \subseteq 1..i /\ i \in 1..i
  BY <1>1
<1>5. /\ acc.stop = "end" => Cleared(acc, cs, i - 1)
      /\ acc.stop = "frontier" => \E j \in 1..(i - 1) : Cleared(acc, cs, j - 1) /\ ~R(cs[j])
      /\ acc.stop \in {"control", "boundary", "cap"} => acc.members # <<>>
      /\ \A x \in ToSet(acc.members) :
           \E j \in 1..(i - 1) : cs[j] = x /\ Cleared(acc, cs, j) /\ R(x)
  BY DEF Covers
<1> SUFFICES /\ w.stop = "end" => Cleared(w, cs, i)
             /\ w.stop = "frontier" => \E j \in 1..i : Cleared(w, cs, j - 1) /\ ~R(cs[j])
             /\ w.stop \in {"control", "boundary", "cap"} => w.members # <<>>
             /\ \A x \in ToSet(w.members) :
                  \E j \in 1..i : cs[j] = x /\ Cleared(w, cs, j) /\ R(x)
  BY DEF Covers
<1> HIDE DEF R
<1>6. ASSUME w.members = acc.members
      PROVE  /\ \A j : Cleared(w, cs, j) <=> Cleared(acc, cs, j)
             /\ \A x \in ToSet(w.members) :
                  \E j \in 1..i : cs[j] = x /\ Cleared(w, cs, j) /\ R(x)
  <2>1. \A j : Cleared(w, cs, j) <=> Cleared(acc, cs, j) BY <1>6 DEF Cleared
  <2> QED BY <1>4, <1>5, <1>6, <2>1
<1>7. CASE w = acc /\ (acc.stop # "end" \/ c.disposition = "skip")
  <2>1. acc.stop = "end" => Cleared(acc, cs, i) BY <1>4, <1>5, <1>7 DEF Cleared
  <2> QED BY <1>4, <1>5, <1>6, <1>7, <2>1
<1>8. CASE /\ acc.stop = "end" /\ w.members = acc.members /\ w.stop \in {"frontier", "held"}
           /\ w.stop = "frontier" => ~R(c)
  <2>1. Cleared(w, cs, i - 1) BY <1>5, <1>6, <1>8
  <2> QED BY <1>4, <1>6, <1>8, <2>1
<1>9. CASE /\ acc.stop = "end" /\ w.stop \in {"control", "boundary"} /\ R(c)
           /\ IF acc.members = <<>> THEN w.members = <<c>> ELSE w.members = acc.members
  <2>1. CASE acc.members = <<>>
    <3>1. w.members = <<c>> /\ w.members # <<>> /\ ToSet(w.members) = {c}
      <4>1. w.members = <<c>> BY <1>9, <2>1
      <4>2. \A y : <<y>> # <<>> /\ ToSet(<<y>>) = {y} BY DEF ToSet
      <4> HIDE DEF c
      <4> QED BY <4>1, <4>2
    <3>2. Cleared(w, cs, i)
      <4>1. \A k \in 1..(i - 1) : cs[k].disposition = "skip"
        <5>1. ToSet(acc.members) = {} BY <2>1 DEF ToSet
        <5> QED BY <1>5, <1>9, <5>1 DEF Cleared
      <4> QED BY <1>4, <3>1, <4>1 DEF Cleared
    <3> QED BY <1>4, <1>9, <3>1, <3>2
  <2>2. CASE acc.members # <<>>
    <3>1. w.members = acc.members BY <1>9, <2>2
    <3> QED BY <1>6, <1>9, <2>2, <3>1
  <2> QED BY <2>1, <2>2
<1>10. CASE /\ acc.stop = "end" /\ w.members = Append(acc.members, c) /\ R(c)
            /\ w.stop = IF Len(w.members) = cap THEN "cap" ELSE "end"
  <2>1. ToSet(w.members) = ToSet(acc.members) \cup {c} BY <1>1, <1>3, <1>10, AppendContents
  <2>2. Cleared(w, cs, i) BY <1>4, <1>5, <1>10, <2>1 DEF Cleared
  <2>3. \A j \in 1..i : Cleared(w, cs, j)
    <3>1. \A j \in 1..i : 1..j \subseteq 1..i BY <1>1
    <3> QED BY <2>2, <3>1 DEF Cleared
  <2>4. w.members # <<>>
    <3>1. c \in ToSet(w.members) BY <2>1
    <3>2. ToSet(<<>>) = {} BY DEF ToSet
    <3> QED BY <3>1, <3>2
  <2>5. w.stop \in {"cap", "end"} BY <1>10
  <2> QED BY <1>4, <1>5, <1>10, <2>1, <2>2, <2>3, <2>4, <2>5
<1> QED BY <1>2, <1>7, <1>8, <1>9, <1>10

\* select_prefix overtakes nothing, for every sequence of candidates and every read:
\* what stands before a selected candidate is selected with it or settled, a selected
\* candidate's place is known from the read, and a prefix that ends empty has passed
\* only settled candidates, up to the end or to one the read does not reach.
THEOREM PrefixOvertakesNothing ==
    ASSUME NEW C \in SUBSET CandidatesOf(Nat), NEW cs \in Seq(C),
           NEW listed, NEW cap \in Nat \ {0}, NEW reaches, NEW exhausted, NEW resumed
    PROVE  Covers(SelectPrefix(cs, listed, cap, reaches, exhausted, resumed),
                  cs, Len(cs), listed, reaches, exhausted, resumed)
<1>1. PICK w : /\ Walks(C, cs, listed, cap, reaches, exhausted, resumed, w)
               /\ SelectPrefix(cs, listed, cap, reaches, exhausted, resumed) = w[Len(cs)]
  BY PrefixWalks
<1> DEFINE n == Len(cs)
           G(i) == Covers(w[i], cs, i, listed, reaches, exhausted, resumed)
           D == {i \in 0..n : G(i)}
<1>2. n \in Nat BY LenProperties
<1>3. 0 \in D
  <2>1. ToSet(NoPrefix.members) = {} /\ NoPrefix.stop = "end" BY DEF NoPrefix, ToSet
  <2>2. Cleared(NoPrefix, cs, 0) BY DEF Cleared
  <2>3. w[0] = NoPrefix BY <1>1 DEF Walks
  <2>4. G(0) BY <2>1, <2>2, <2>3 DEF Covers
  <2> QED BY <1>2, <2>4
<1>4. ASSUME NEW i \in 0..(n - 1), i \in D PROVE i + 1 \in D
  <2>1. i + 1 \in 1..n /\ i + 1 - 1 = i /\ i + 1 \in 0..n /\ i \in 0..n BY <1>2
  <2>2. w[i + 1] = Walk(listed, cap, reaches, exhausted, resumed, w[i], cs[i + 1])
    BY <1>1, <2>1 DEF Walks
  <2>3. w[i] \in Accumulators(C) BY <1>1, <2>1 DEF Walks
  <2> DEFINE h == i + 1
             acc == w[i]
             v == w[i + 1]
  <2>4. /\ h \in 1..Len(cs) /\ acc \in Accumulators(C)
        /\ Covers(acc, cs, h - 1, listed, reaches, exhausted, resumed)
        /\ v = Walk(listed, cap, reaches, exhausted, resumed, acc, cs[h])
    BY <1>4, <2>1, <2>2, <2>3
  <2> HIDE DEF h, acc, v
  <2>5. Covers(v, cs, h, listed, reaches, exhausted, resumed) BY <2>4, WalkCovers
  <2> QED BY <2>1, <2>5 DEF h, v
<1> HIDE DEF D
<1>5. 0..n \subseteq D BY <1>2, <1>3, <1>4, Inductive
<1>6. n \in 0..n BY <1>2
<1>7. G(n) BY <1>5, <1>6 DEF D
<1> QED BY <1>1, <1>7

-----------------------------------------------------------------------------
(* The scan *)

\* What is listed from the scan's cursor on, and what a page of it is merged to.
Ahead == {m \in ScanMsgs \ scanHidden : m > scanCursor}
OnPage == ToSet(Rows)
PageReaches == IF Rows = <<>> THEN 0 ELSE Last(Rows)
PageMerged == Merge({Candidate(m, scanDisposition[m], TRUE) : m \in OnPage},
                    {Candidate(m, scanDisposition[m], FALSE) : m \in scanRetained})

LEMMA ScanSelects ==
    Select = SelectPrefix(PageMerged, OnPage, ScanCap, PageReaches, NextCursor = 0, {})
BY Zenon DEF Select, PageMerged, OnPage, PageReaches

LEMMA RowsListed ==
    Rows = SubSeq(InOrder(Ahead), 1, IF Len(InOrder(Ahead)) < ScanPageSize
                                     THEN Len(InOrder(Ahead)) ELSE ScanPageSize)
BY Zenon DEF Rows, Ahead

\* The scan has passed only settled messages.
ScanInv ==
    /\ scanHidden \subseteq 1..ScanSize /\ scanRetained \subseteq 1..ScanSize
    /\ scanDisposition \in [1..ScanSize -> {"runnable", "skip", "held", "control"}]
    /\ scanCursor \in Nat
    /\ scanOutcome.kind = "scanning" =>
         \A m \in Known : m <= scanCursor => scanDisposition[m] = "skip"
    /\ NothingOvertaken /\ EmptyMeansSettled

\* A page holds the first listed messages, in their order.
LEMMA RowsFirst ==
    ASSUME ScanInv
    PROVE  /\ OnPage \subseteq Ahead
           /\ \A m \in Ahead : m \in OnPage \/ \A r \in OnPage : r < m
           /\ Rows = <<>> => Ahead = {}
           /\ Rows # <<>> => /\ Last(Rows) \in OnPage
                                  /\ \A r \in OnPage : r <= Last(Rows)
<1> DEFINE all == InOrder(Ahead)
           n == Cardinality(Ahead)
           k == IF Len(all) < ScanPageSize THEN Len(all) ELSE ScanPageSize
           rows == Rows
<1>1. ScanSize \in Nat /\ ScanPageSize \in Nat \ {0} BY ScanAssumption
<1>2. Ahead \subseteq 1..ScanSize BY DEF Ahead, ScanMsgs
<1>3. Ahead \in SUBSET Nat BY <1>1, <1>2
<1>4. IsFiniteSet(Ahead)
  <2>1. 1 \in Int /\ ScanSize \in Int BY <1>1
  <2>2. IsFiniteSet(1..ScanSize) BY <2>1, FS_Interval
  <2> QED BY <1>2, <2>2, FS_Subset
<1>5. /\ n \in Nat /\ all \in [1..n -> Ahead]
      /\ \A m \in Ahead : \E i \in 1..n : all[i] = m
      /\ \A i, j \in 1..n : i < j => all[i] < all[j]
  BY <1>3, <1>4, InOrderLists
<1>6. rows = SubSeq(all, 1, k) BY RowsListed
<1> HIDE DEF all, n, rows
<1>7. all \in Seq(Ahead) /\ Len(all) = n BY <1>5, SeqDef, LenProperties
<1>8. k \in Nat /\ k <= n /\ (k = 0 => n = 0) BY <1>1, <1>5, <1>7
<1> HIDE DEF k
<1>9. \A i \in 1..k : i \in 1..n /\ 1 + i - 1 = i BY <1>5, <1>8
<1>10. \A i \in 1..k : all[i] \in Ahead BY <1>5, <1>9
<1>11. /\ rows \in Seq(Ahead) /\ Len(rows) = k /\ \A i \in 1..k : rows[i] = all[i]
  <2>1. /\ rows \in Seq(Ahead) /\ Len(rows) = (IF 1 <= k THEN k - 1 + 1 ELSE 0)
        /\ \A i \in 1..(k - 1 + 1) : rows[i] = all[1 + i - 1]
    BY <1>6, <1>8, <1>10, SubSeqProperties
  <2>2. k - 1 + 1 = k /\ (IF 1 <= k THEN k - 1 + 1 ELSE 0) = k BY <1>8
  <2> QED BY <1>9, <2>1, <2>2
<1>12. DOMAIN rows = 1..k BY <1>11, LenProperties
<1>13. \A r : r \in OnPage <=> \E i \in 1..k : r = all[i]
  BY <1>11, <1>12 DEF ToSet, OnPage, rows
<1>14. ASSUME NEW m \in Ahead, m \notin OnPage, NEW r \in OnPage PROVE r < m
  <2>1. PICK i \in 1..n : all[i] = m BY <1>5
  <2>2. PICK j \in 1..k : all[j] = r BY <1>13
  <2>3. i \notin 1..k BY <1>13, <1>14, <2>1
  <2>4. j < i /\ j \in 1..n BY <1>5, <1>8, <1>9, <2>3
  <2> QED BY <1>5, <2>1, <2>2, <2>4
<1>15. rows = <<>> => Ahead = {}
  <2>1. rows = <<>> => k = 0 BY <1>11
  <2>2. k = 0 => 1..n = {} BY <1>5, <1>8
  <2> QED BY <1>5, <2>1, <2>2
<1>16. ASSUME rows # <<>>
       PROVE  Last(rows) \in OnPage /\ \A r \in OnPage : r <= Last(rows)
  <2>1. k # 0 /\ k \in 1..k
    <3>1. k # 0 BY <1>11, <1>16, EmptySeq
    <3> QED BY <1>8, <3>1
  <2>2. Last(rows) = all[k] BY <1>11, <2>1 DEF Last
  <2>3. ASSUME NEW r \in OnPage PROVE r <= Last(rows)
    <3>1. PICK j \in 1..k : all[j] = r BY <1>13
    <3>2. j \in 1..n /\ k \in 1..n /\ (j < k \/ j = k) BY <1>8, <1>9, <2>1
    <3>3. r \in Nat /\ all[k] \in Nat BY <1>3, <1>10, <2>1, <3>1
    <3> QED BY <1>5, <2>2, <3>1, <3>2, <3>3
  <2> QED BY <1>13, <2>1, <2>2, <2>3
<1>17. OnPage \subseteq Ahead BY <1>10, <1>13
<1> QED BY <1>14, <1>15, <1>16, <1>17 DEF rows

\* A cursor follows a page exactly when something is listed beyond it.
LEMMA CursorFollows ==
    ASSUME ScanInv
    PROVE  \/ NextCursor = 0 /\ Ahead \subseteq OnPage
           \/ /\ NextCursor \in OnPage /\ NextCursor # 0 /\ NextCursor \in Nat
              /\ PageReaches = NextCursor /\ \A r \in OnPage : r <= NextCursor
<1> DEFINE beyond == \E m \in Ahead : \A r \in OnPage : m > r
<1>1. Ahead \subseteq 1..ScanSize /\ ScanSize \in Nat BY ScanAssumption DEF Ahead, ScanMsgs
<1>2. NextCursor = IF beyond THEN Last(Rows) ELSE 0
  <2>1. ToSet(Rows) = OnPage BY DEF OnPage
  <2>2. (\E m \in ScanMsgs \ scanHidden : m > scanCursor /\ \A r \in OnPage : m > r) <=> beyond
    BY DEF Ahead, ScanMsgs
  <2> HIDE DEF beyond
  <2> QED BY <2>1, <2>2, Zenon DEF NextCursor
<1>3. /\ OnPage \subseteq Ahead
      /\ \A m \in Ahead : m \in OnPage \/ \A r \in OnPage : r < m
      /\ Rows = <<>> => Ahead = {}
      /\ Rows # <<>> => /\ Last(Rows) \in OnPage
                             /\ \A r \in OnPage : r <= Last(Rows)
  BY RowsFirst
<1>4. CASE beyond
  <2>1. Ahead # {} BY <1>4
  <2>2. /\ Last(Rows) \in OnPage /\ \A r \in OnPage : r <= Last(Rows)
        /\ PageReaches = Last(Rows) /\ NextCursor = Last(Rows)
    BY <1>2, <1>3, <1>4, <2>1 DEF PageReaches
  <2>3. \A m \in OnPage : m \in Nat /\ m # 0 BY <1>1, <1>3
  <2> QED BY <2>2, <2>3, Zenon
<1>5. CASE ~beyond
  <2>1. ASSUME NEW m \in Ahead PROVE m \in OnPage
    <3>1. \A r \in OnPage : r < m <=> m > r BY <1>1, <1>3
    <3> QED BY <1>3, <1>5, <3>1
  <2> QED BY <1>2, <1>5, <2>1
<1> QED BY <1>4, <1>5

\* A page is merged to the candidates of what it lists and of what is retained.
LEMMA PageMerges ==
    ASSUME ScanInv
    PROVE  /\ \E C \in SUBSET CandidatesOf(Nat) : PageMerged \in Seq(C)
           /\ \A i \in 1..Len(PageMerged) :
                /\ PageMerged[i].key \in OnPage \cup scanRetained
                /\ PageMerged[i].disposition = scanDisposition[PageMerged[i].key]
           /\ \A i, j \in 1..Len(PageMerged) : i < j => PageMerged[i].key < PageMerged[j].key
           /\ \A m \in OnPage \cup scanRetained :
                \E i \in 1..Len(PageMerged) : PageMerged[i].key = m
<1> DEFINE rest == {Candidate(m, scanDisposition[m], TRUE) : m \in OnPage}
           kept == {Candidate(m, scanDisposition[m], FALSE) : m \in scanRetained}
           K == OnPage \cup scanRetained
<1>1. ScanSize \in Nat BY ScanAssumption
<1>2. K \subseteq 1..ScanSize BY RowsFirst DEF ScanInv, Ahead, ScanMsgs
<1>3. \A m \in K : scanDisposition[m] \in Dispositions BY <1>2 DEF ScanInv, Dispositions
<1>4. \A m, d, o : /\ Candidate(m, d, o).key = m
                   /\ Candidate(m, d, o).disposition = d
  BY DEF Candidate
<1>5. ASSUME NEW m \in K, NEW o \in BOOLEAN
      PROVE  Candidate(m, scanDisposition[m], o) \in CandidatesOf(1..ScanSize)
  BY <1>2, <1>3 DEF Candidate, CandidatesOf
<1>6. rest \in SUBSET CandidatesOf(1..ScanSize) /\ kept \in SUBSET CandidatesOf(1..ScanSize)
  <2>1. \A m \in OnPage : Candidate(m, scanDisposition[m], TRUE) \in CandidatesOf(1..ScanSize)
    BY <1>5
  <2>2. \A m \in scanRetained :
          Candidate(m, scanDisposition[m], FALSE) \in CandidatesOf(1..ScanSize)
    BY <1>5
  <2> QED BY <2>1, <2>2
<1>7. \A c \in rest \cup kept : c.key \in K /\ c.disposition = scanDisposition[c.key]
  <2>1. \A c \in rest \cup kept : \E m \in K, o \in BOOLEAN :
          c = Candidate(m, scanDisposition[m], o)
    OBVIOUS
  <2> HIDE DEF rest, kept, K
  <2> QED BY <1>4, <2>1
<1>8. \A m \in K : \E c \in rest \cup kept : c.key = m
  <2>1. \A m \in K : \E o \in BOOLEAN : Candidate(m, scanDisposition[m], o) \in rest \cup kept
    OBVIOUS
  <2> HIDE DEF rest, kept, K
  <2> QED BY <1>4, <2>1
<1>9. PageMerged = Merge(rest, kept) BY Zenon DEF PageMerged
<1> HIDE DEF rest, kept
<1>10. /\ PageMerged \in Seq(rest \cup kept)
       /\ \A i, j \in DOMAIN PageMerged : i < j => PageMerged[i].key < PageMerged[j].key
       /\ \A c \in rest \cup kept : \E i \in DOMAIN PageMerged : PageMerged[i].key = c.key
  BY <1>1, <1>6, <1>9, MergeLists
<1>11. /\ DOMAIN PageMerged = 1..Len(PageMerged)
       /\ \A i \in 1..Len(PageMerged) : PageMerged[i] \in rest \cup kept
  BY <1>10, LenProperties
<1>12. rest \cup kept \in SUBSET CandidatesOf(Nat)
  <2>1. CandidatesOf(1..ScanSize) \subseteq CandidatesOf(Nat) BY <1>1 DEF CandidatesOf
  <2> QED BY <1>6, <2>1
<1>13. \A m \in K : \E i \in 1..Len(PageMerged) : PageMerged[i].key = m
  BY <1>8, <1>10, <1>11
<1> QED BY <1>7, <1>10, <1>11, <1>12, <1>13

\* What a step of the scan selects from its page.
LEMMA PageSelected ==
    ASSUME ScanInv
    PROVE  /\ Select.members \in Seq(CandidatesOf(Nat)) /\ Select.stop \in Stops
           /\ Batchable(Select, OnPage, ScanCap)
           /\ Covers(Select, PageMerged, Len(PageMerged), OnPage, PageReaches,
                     NextCursor = 0, {})
<1>1. PICK C \in SUBSET CandidatesOf(Nat) : PageMerged \in Seq(C) BY PageMerges
<1>2. ScanCap \in Nat \ {0} BY ScanAssumption
<1> DEFINE v == Select
           ended == NextCursor = 0
           nothing == {}
<1>3. v = SelectPrefix(PageMerged, OnPage, ScanCap, PageReaches, ended, nothing) BY ScanSelects
<1> HIDE DEF v, ended, nothing
<1>4. /\ v \in Accumulators(C) /\ Batchable(v, OnPage, ScanCap)
      /\ Covers(v, PageMerged, Len(PageMerged), OnPage, PageReaches, ended, nothing)
  BY <1>1, <1>2, <1>3, PrefixBatchable, PrefixOvertakesNothing
<1>5. v.members \in Seq(CandidatesOf(Nat)) /\ v.stop \in Stops BY <1>4 DEF Accumulators
<1> QED BY <1>4, <1>5 DEF v, ended, nothing

\* A known message the cursor has not passed is a candidate, or lies beyond the page.
LEMMA KnownPlace ==
    ASSUME ScanInv, NEW m \in Known, m > scanCursor
    PROVE  \/ \E i \in 1..Len(PageMerged) : PageMerged[i].key = m
           \/ /\ NextCursor # 0 /\ NextCursor < m /\ PageReaches = NextCursor
              /\ \A r \in OnPage : r < m
<1>1. m \in 1..ScanSize /\ (m \in scanRetained \/ m \in Ahead)
  BY DEF Known, ScanMsgs, Ahead
<1>2. CASE m \in OnPage \cup scanRetained BY <1>2, PageMerges
<1>3. CASE m \in Ahead /\ m \notin OnPage
  <2>1. \A r \in OnPage : r < m BY <1>3, RowsFirst
  <2>2. NextCursor \in OnPage /\ NextCursor # 0 /\ PageReaches = NextCursor
    BY <1>3, CursorFollows
  <2> QED BY <2>1, <2>2
<1> QED BY <1>1, <1>2, <1>3

\* The set of keys a selection runs.
Keys(v) == {c.key : c \in ToSet(v.members)}

LEMMA KeysBound ==
    ASSUME NEW C, NEW s \in Seq(C), NEW K, K = {c.key : c \in ToSet(s)}
    PROVE  Cardinality(K) <= Len(s) /\ Cardinality(K) \in Nat
<1> DEFINE n == Len(s)
           f == [i \in 1..n |-> s[i].key]
<1>1. n \in Nat /\ DOMAIN s = 1..n BY LenProperties
<1>2. \A k : k \in K <=> \E i \in 1..n : k = s[i].key BY <1>1 DEF ToSet
<1>3. f \in Surjection(1..n, K) BY <1>2 DEF Surjection
<1> HIDE DEF f
<1>4. IsFiniteSet(1..n) /\ Cardinality(1..n) = n
  <2>1. 1 \in Int /\ n \in Int BY <1>1
  <2>2. IsFiniteSet(1..n) /\ Cardinality(1..n) = IF 1 > n THEN 0 ELSE n - 1 + 1
    BY <2>1, FS_Interval
  <2> QED BY <1>1, <2>2
<1>5. IsFiniteSet(K) /\ Cardinality(K) <= Cardinality(1..n) BY <1>3, <1>4, FS_Surjection
<1> QED BY <1>4, <1>5, FS_CardinalityType

\* What the scan selects overtakes no known message, whatever the page shows of them.
LEMMA SelectionRespects ==
    ASSUME ScanInv, scanOutcome.kind = "scanning",
           NEW m \in Known, NEW r \in Keys(Select), m < r,
           scanDisposition[m] # "skip"
    PROVE  m \in Keys(Select)
<1> DEFINE v == Select
           ended == NextCursor = 0
           cs == PageMerged
<1>0. m \in 1..ScanSize /\ ScanSize \in Nat /\ scanCursor \in Nat
  BY ScanAssumption DEF Known, ScanMsgs, ScanInv
<1>1. m > scanCursor
  <2>1. ~(m <= scanCursor) BY DEF ScanInv
  <2> QED BY <1>0, <2>1
<1>2. PICK x \in ToSet(v.members) : r = x.key BY DEF Keys
<1>3. PICK j \in 1..Len(cs) :
        /\ cs[j] = x /\ Cleared(v, cs, j) /\ Reached(x, OnPage, PageReaches, ended, {})
  BY <1>2, PageSelected DEF Covers
<1>4. r \in Nat /\ Len(cs) \in Nat
  <2>1. r \in OnPage \cup scanRetained BY <1>2, <1>3, PageMerges
  <2>2. r \in 1..ScanSize BY <2>1, RowsFirst DEF Ahead, ScanMsgs, ScanInv
  <2> QED BY <1>0, <2>2, PageMerges, LenProperties
<1>5. \E i \in 1..Len(cs) : cs[i].key = m
  <2> SUFFICES ASSUME /\ NextCursor # 0 /\ NextCursor < m
                      /\ PageReaches = NextCursor
                      /\ \A p \in OnPage : p < m
               PROVE  FALSE
    BY <1>1, KnownPlace
  <2>1. r \notin OnPage BY <1>0, <1>4
  <2>2. PageReaches >= r BY <1>2, <1>3, <2>1 DEF Reached, ReadReaches
  <2>3. PageReaches \in Nat BY CursorFollows
  <2> QED BY <1>0, <1>4, <2>2, <2>3
<1>6. PICK i \in 1..Len(cs) : cs[i].key = m BY <1>5
<1>7. i < j
  <2>1. ~(j < i) /\ i # j
    <3>1. j < i => r < m BY <1>2, <1>3, <1>6, PageMerges
    <3>2. ~(r < m) /\ r # m BY <1>0, <1>4
    <3> QED BY <1>2, <1>3, <1>6, <3>1, <3>2
  <2> QED BY <1>4, <2>1
<1>8. i \in 1..j BY <1>4, <1>7
<1>9. cs[i].disposition = scanDisposition[m] BY <1>6, PageMerges
<1>10. cs[i] \in ToSet(v.members) BY <1>3, <1>8, <1>9 DEF Cleared
<1> QED BY <1>6, <1>10 DEF Keys

\* What the scan selects fits one turn.
LEMMA SelectionFits ==
    ASSUME ScanInv
    PROVE  /\ Cardinality(Keys(Select)) <= ScanCap
           /\ Cardinality(Keys(Select)) > 1 =>
                \A m \in Keys(Select) : scanDisposition[m] = "runnable" /\ m \notin scanHidden
<1> DEFINE v == Select
           K == Keys(v)
<1>1. /\ v.members \in Seq(CandidatesOf(Nat)) /\ Batchable(v, OnPage, ScanCap)
      /\ Covers(v, PageMerged, Len(PageMerged), OnPage, PageReaches, NextCursor = 0, {})
  BY PageSelected
<1> HIDE DEF v
<1>2. Cardinality(K) <= Len(v.members) /\ Cardinality(K) \in Nat BY <1>1, KeysBound DEF Keys
<1>3. Len(v.members) \in Nat /\ Len(v.members) <= ScanCap /\ ScanCap \in Nat
  BY <1>1, ScanAssumption DEF Batchable
<1>4. ASSUME Cardinality(K) > 1, NEW m \in K
      PROVE  scanDisposition[m] = "runnable" /\ m \notin scanHidden
  <2>1. PICK x \in ToSet(v.members) : m = x.key BY DEF Keys
  <2>2. Len(v.members) > 1 BY <1>2, <1>3, <1>4
  <2>3. x.disposition = "runnable" /\ x.key \in OnPage BY <1>1, <2>1, <2>2 DEF Batchable
  <2>4. PICK j \in 1..Len(PageMerged) : PageMerged[j] = x BY <1>1, <2>1 DEF Covers
  <2>5. x.disposition = scanDisposition[x.key] BY <2>4, PageMerges
  <2>6. m \notin scanHidden BY <2>1, <2>3, RowsFirst DEF Ahead
  <2> QED BY <2>1, <2>3, <2>5, <2>6
<1>5. Cardinality(K) <= ScanCap BY <1>2, <1>3
<1> HIDE DEF K
<1> QED BY <1>4, <1>5 DEF K, v

\* A page that selects nothing shows only settled messages, up to where the scan goes on.
LEMMA NothingSelected ==
    ASSUME ScanInv, scanOutcome.kind = "scanning",
           Select.members = <<>>, Select.stop # "held",
           NEW m \in Known, NextCursor = 0 \/ m <= NextCursor
    PROVE  scanDisposition[m] = "skip"
<1> DEFINE v == Select
           ended == NextCursor = 0
           cs == PageMerged
<1>0. m \in 1..ScanSize /\ ScanSize \in Nat /\ scanCursor \in Nat
  BY ScanAssumption DEF Known, ScanMsgs, ScanInv
<1>1. CASE m <= scanCursor BY <1>1 DEF ScanInv
<1>2. CASE m > scanCursor
  <2>1. \E i \in 1..Len(cs) : cs[i].key = m
    <3>1. NextCursor # 0 => NextCursor \in Nat BY CursorFollows
    <3>2. ~(NextCursor # 0 /\ NextCursor < m) BY <1>0, <3>1
    <3> QED BY <1>2, <3>2, KnownPlace
  <2>2. PICK i \in 1..Len(cs) : cs[i].key = m BY <2>1
  <2>3. cs[i].disposition = scanDisposition[m] BY <2>2, PageMerges
  <2>4. ToSet(v.members) = {} BY DEF ToSet
  <2>5. Covers(v, cs, Len(cs), OnPage, PageReaches, ended, {}) /\ v.stop \in Stops
    BY PageSelected
  <2>6. v.stop \in {"end", "frontier"} BY <2>5 DEF Covers, Stops
  <2> HIDE DEF v
  <2>7. CASE v.stop = "end"
    <3>1. Cleared(v, cs, Len(cs)) BY <2>5, <2>7 DEF Covers
    <3> QED BY <2>2, <2>3, <2>4, <3>1 DEF Cleared
  <2>8. CASE v.stop = "frontier"
    <3>1. PICK j \in 1..Len(cs) :
            Cleared(v, cs, j - 1) /\ ~Reached(cs[j], OnPage, PageReaches, ended, {})
      BY <2>5, <2>8 DEF Covers
    <3>2. Len(cs) \in Nat BY PageMerges, LenProperties
    <3>3. /\ NextCursor # 0 /\ PageReaches = NextCursor
          /\ NextCursor \in Nat /\ ~(NextCursor >= cs[j].key)
      BY <3>1, CursorFollows DEF Reached, ReadReaches
    <3>4. cs[j].key \in Nat
      <4>1. cs[j].key \in OnPage \cup scanRetained BY PageMerges
      <4>2. cs[j].key \in 1..ScanSize BY <4>1, RowsFirst DEF Ahead, ScanMsgs, ScanInv
      <4> QED BY <1>0, <4>2
    <3>5. m < cs[j].key BY <1>0, <3>3, <3>4
    <3>6. i \in 1..(j - 1)
      <4>1. j < i => cs[j].key < m BY <2>2, PageMerges
      <4>2. ~(cs[j].key < m) /\ cs[j].key # m BY <1>0, <3>4, <3>5
      <4>3. ~(j < i) /\ i # j BY <2>2, <4>1, <4>2
      <4> QED BY <3>2, <4>3
    <3> QED BY <2>3, <2>4, <3>1, <3>6 DEF Cleared
  <2> QED BY <2>6, <2>7, <2>8
<1> QED BY <1>0, <1>1, <1>2

LEMMA ScanInitial ==
    ASSUME ScanInit
    PROVE  ScanInv
<1>1. /\ scanHidden \subseteq 1..ScanSize /\ scanRetained \subseteq 1..ScanSize
      /\ scanDisposition \in [1..ScanSize -> {"runnable", "skip", "held", "control"}]
      /\ scanCursor = 0 /\ scanOutcome.kind = "scanning"
  BY DEF ScanInit, ScanMsgs
<1>2. \A m \in Known : ~(m <= 0) BY DEF Known, ScanMsgs
<1> QED BY <1>1, <1>2 DEF ScanInv, NothingOvertaken, EmptyMeansSettled

LEMMA ScanStep ==
    ASSUME ScanInv, [ScanNext]_scanVars
    PROVE  ScanInv'
<1> DEFINE v == Select
<1>1. CASE UNCHANGED scanVars
  <2>1. UNCHANGED <<scanHidden, scanRetained, scanDisposition, scanCursor, scanOutcome>>
    BY <1>1 DEF scanVars
  <2>2. Known' = Known /\ Run' = Run
    BY <2>1 DEF Known, ScanMsgs, Run
  <2> QED
    BY <2>1, <2>2 DEF ScanInv, NothingOvertaken, EmptyMeansSettled
<1>2. CASE ScanNext
  <2>1. scanOutcome.kind = "scanning" /\ UNCHANGED <<scanHidden, scanRetained, scanDisposition>>
    BY <1>2 DEF ScanNext, ScanPage
  <2>2. Known' = Known BY <2>1 DEF Known, ScanMsgs
  <2>3. /\ scanHidden' \subseteq 1..ScanSize /\ scanRetained' \subseteq 1..ScanSize
        /\ scanDisposition' \in [1..ScanSize -> {"runnable", "skip", "held", "control"}]
        /\ scanCursor \in Nat
    BY <2>1 DEF ScanInv
  <2>4. \/ /\ scanOutcome' = [kind |-> "run", selection |-> v] /\ scanCursor' = scanCursor
        \/ /\ scanOutcome' = [kind |-> "held", selection |-> v] /\ scanCursor' = scanCursor
        \/ /\ v.members = <<>> /\ v.stop # "held" /\ NextCursor # 0
           /\ scanCursor' = NextCursor /\ scanOutcome' = scanOutcome
        \/ /\ v.members = <<>> /\ v.stop # "held" /\ NextCursor = 0
           /\ scanOutcome' = [kind |-> "empty", selection |-> v] /\ scanCursor' = 0
    BY <1>2, Zenon DEF ScanNext, ScanPage
  <2> HIDE DEF v
  <2>5. CASE scanOutcome' = [kind |-> "run", selection |-> v] /\ scanCursor' = scanCursor
    <3>1. scanOutcome'.kind = "run" /\ scanOutcome'.selection = v BY <2>5
    <3>2. Run' = Keys(v) BY <3>1, Zenon DEF Run, Keys
    <3>3. \A m \in Known, r \in Keys(v) :
            (m < r /\ scanDisposition[m] # "skip") => m \in Keys(v)
      BY <2>1, SelectionRespects DEF v
    <3>4. /\ Cardinality(Keys(v)) <= ScanCap
          /\ Cardinality(Keys(v)) > 1 =>
               \A m \in Keys(v) : scanDisposition[m] = "runnable" /\ m \notin scanHidden
      BY SelectionFits DEF v
    <3>5. NothingOvertaken'
      BY <2>1, <2>2, <3>2, <3>3, <3>4 DEF NothingOvertaken
    <3> QED BY <2>3, <2>5, <3>1, <3>5 DEF ScanInv, EmptyMeansSettled
  <2>6. CASE scanOutcome' = [kind |-> "held", selection |-> v] /\ scanCursor' = scanCursor
    <3>1. scanOutcome'.kind = "held" BY <2>6
    <3> QED BY <2>3, <2>6, <3>1 DEF ScanInv, NothingOvertaken, EmptyMeansSettled
  <2>7. CASE /\ v.members = <<>> /\ v.stop # "held" /\ NextCursor # 0
             /\ scanCursor' = NextCursor /\ scanOutcome' = scanOutcome
    <3>1. scanCursor' \in Nat BY <2>7, CursorFollows
    <3>2. \A m \in Known : m <= NextCursor => scanDisposition[m] = "skip"
      BY <2>1, <2>7, NothingSelected DEF v
    <3>3. \A m \in Known' : m <= scanCursor' => scanDisposition'[m] = "skip"
      BY <2>1, <2>2, <2>7, <3>2
    <3>4. scanOutcome'.kind = "scanning" BY <2>1, <2>7
    <3> QED BY <2>3, <3>1, <3>3, <3>4 DEF ScanInv, NothingOvertaken, EmptyMeansSettled
  <2>8. CASE /\ v.members = <<>> /\ v.stop # "held" /\ NextCursor = 0
             /\ scanOutcome' = [kind |-> "empty", selection |-> v] /\ scanCursor' = 0
    <3>1. scanOutcome'.kind = "empty" BY <2>8
    <3>2. \A m \in Known : scanDisposition[m] = "skip"
      BY <2>1, <2>8, NothingSelected DEF v
    <3>3. \A m \in Known' : scanDisposition'[m] = "skip" BY <2>1, <2>2, <3>2
    <3> QED BY <2>3, <2>8, <3>1, <3>3 DEF ScanInv, NothingOvertaken, EmptyMeansSettled
  <2> QED BY <2>4, <2>5, <2>6, <2>7, <2>8
<1> QED BY <1>1, <1>2

LEMMA ScanKeeps == ScanSpec => []ScanInv
<1>1. ScanInit => ScanInv BY ScanInitial
<1>2. ScanInv /\ [ScanNext]_scanVars => ScanInv' BY ScanStep
<1> QED BY <1>1, <1>2, PTL DEF ScanSpec

\* A scan overtakes nothing, for every number of messages, page size and cap, and for
\* every split of the messages between the list, which omits some, and what the
\* WebSocket delivered: a known message before a selected one is selected with it or
\* settled, although select_prefix sees one page at a time.
THEOREM ScanOvertakesNothing == ScanSpec => []NothingOvertaken
<1>1. ScanInv => NothingOvertaken BY DEF ScanInv
<1> QED BY <1>1, ScanKeeps, PTL

\* A scan that ends with nothing to run has left nothing: every message the list shows
\* or the room retained is settled.
THEOREM EmptyScanSettled == ScanSpec => []EmptyMeansSettled
<1>1. ScanInv => EmptyMeansSettled BY DEF ScanInv
<1> QED BY <1>1, ScanKeeps, PTL

=============================================================================
