---------------------------- MODULE QueryLemmas ----------------------------
(***************************************************************************)
(* Facts about least and greatest elements, about ORDER BY ... LIMIT and   *)
(* about the extraction of a range, on which the proofs about the tasks    *)
(* that use these queries rest.                                            *)
(***************************************************************************)
EXTENDS ViaDb, PublishCriteria, FiniteSetTheorems, WellFoundedInduction, TLAPS

\* A non-empty set of naturals has a least element, and Min returns it.
LEMMA MinOfNats ==
    ASSUME NEW S \in SUBSET Nat, S # {}
    PROVE  Min(S) \in S /\ \A y \in S : Min(S) <= y
<1>1. PICK x \in S : \A y \in S : ~(<<y, x>> \in OpToRel(<, Nat))
  BY NatLessThanWellFounded, WFMin
<1>2. \A y \in S : ~(y < x)
  <2>1. \A y \in S : (y < x) => <<y, x>> \in OpToRel(<, Nat)
    BY Zenon DEF OpToRel
  <2>. QED
    BY <1>1, <2>1, Zenon
<1>3. \A y \in S : x <= y
  BY <1>2
<1>. QED
  BY <1>3 DEF Min

\* A non-empty set of naturals below a bound has a greatest element, and Max
\* returns it.
LEMMA MaxOfNats ==
    ASSUME NEW n \in Nat, NEW S \in SUBSET (0 .. n), S # {}
    PROVE  Max(S) \in S /\ \A y \in S : y <= Max(S)
<1> DEFINE T == {n - x : x \in S}
<1>1. T \in SUBSET Nat /\ T # {}
  <2>1. \A x \in S : n - x \in Nat
    OBVIOUS
  <2>2. PICK x \in S : TRUE
    OBVIOUS
  <2>3. n - x \in T
    OBVIOUS
  <2>. QED
    BY <2>1, <2>3
<1>2. PICK m \in T : \A y \in T : m <= y
  BY <1>1, MinOfNats
<1>3. PICK x \in S : m = n - x
  OBVIOUS
<1>4. \A y \in S : y <= x
  <2>. SUFFICES ASSUME NEW y \in S PROVE y <= x
    OBVIOUS
  <2>1. n - x <= n - y
    BY <1>2, <1>3
  <2>. QED
    BY <2>1
<1>. QED
  BY <1>4 DEF Max

\* A set of batches without a hole passes validate_l1_batch_sequence.
LEMMA ConvexIsSequential ==
    ASSUME NEW n \in Nat, NEW S \in SUBSET (0 .. n),
           \A a, b \in S : \A c \in Nat : a <= c /\ c <= b => c \in S
    PROVE  Sequential(S)
<1>0. S \subseteq Nat
  OBVIOUS
<1>1. CASE S = {}
  BY <1>1 DEF Sequential
<1>2. CASE S # {}
  <2>1. /\ Min(S) \in S /\ Max(S) \in S
        /\ \A y \in S : Min(S) <= y /\ y <= Max(S)
    BY <1>2, MinOfNats, MaxOfNats
  <2>2. S = Min(S) .. Max(S)
    <3>1. ASSUME NEW y \in S PROVE y \in Min(S) .. Max(S)
      BY <2>1
    <3>2. ASSUME NEW y \in Min(S) .. Max(S) PROVE y \in S
      <4>1. Min(S) \in Nat /\ Max(S) \in Nat
        BY <1>0, <2>1, Zenon
      <4>2. y \in Nat /\ Min(S) <= y /\ y <= Max(S)
        BY <4>1
      <4>. QED
        BY <2>1, <4>2
    <3>. QED
      BY <3>1, <3>2
  <2>. QED
    BY <2>2 DEF Sequential
<1>. QED
  BY <1>1, <1>2

\* LIMIT keeps the least rows.
LEMMA LimitIsPrefix ==
    ASSUME NEW m \in Nat, NEW S \in SUBSET (0 .. m), NEW n \in Nat
    PROVE  /\ Limit(S, n) \subseteq S
           /\ \A b \in Limit(S, n), c \in S : c <= b => c \in Limit(S, n)
<1>0. S \subseteq Int
  OBVIOUS
<1>1. Limit(S, n) \subseteq S
  BY DEF Limit
<1>2. ASSUME NEW b \in Limit(S, n), NEW c \in S, c <= b
      PROVE  c \in Limit(S, n)
  <2> DEFINE B == {x \in S : x < b}
             C == {x \in S : x < c}
  <2>1. IsFiniteSet(S)
    <3>1. IsFiniteSet(0 .. m)
      BY FS_Interval
    <3>. QED
      BY <3>1, FS_Subset
  <2>2. IsFiniteSet(B) /\ C \subseteq B
    <3>1. b \in Int /\ c \in Int /\ \A x \in S : x \in Int
      BY <1>0, <1>1, Zenon
    <3>2. \A x \in S : x < c => x < b
      BY <1>2, <3>1
    <3>3. B \subseteq S /\ C \subseteq B
      BY <3>2
    <3>. QED
      BY <3>3, <2>1, FS_Subset
  <2>3. Cardinality(C) <= Cardinality(B) /\ Cardinality(C) \in Nat /\ Cardinality(B) \in Nat
    <3>1. IsFiniteSet(C)
      BY <2>2, FS_Subset
    <3>2. Cardinality(C) <= Cardinality(B)
      BY <2>2, FS_Subset
    <3>. QED
      BY <2>2, <3>1, <3>2, FS_CardinalityType
  <2>4. Cardinality(B) < n
    BY DEF Limit
  <2>5. Cardinality(C) < n
    BY <2>3, <2>4
  <2>. QED
    BY <2>5 DEF Limit
<1>. QED
  BY <1>1, <1>2

\* LIMIT n keeps at most n rows.
LEMMA LimitBounds ==
    ASSUME NEW m \in Nat, NEW S \in SUBSET (0 .. m), NEW n \in Nat
    PROVE  IsFiniteSet(Limit(S, n)) /\ Cardinality(Limit(S, n)) <= n
<1> DEFINE L == Limit(S, n)
<1>0. L \subseteq 0 .. m /\ S \subseteq Int
  <2>1. L \subseteq S
    BY LimitIsPrefix
  <2>2. S \subseteq Int
    OBVIOUS
  <2>. QED
    BY <2>1, <2>2, Zenon
<1>1. IsFiniteSet(S) /\ IsFiniteSet(L)
  <2>1. IsFiniteSet(0 .. m)
    BY FS_Interval
  <2>. QED
    BY <1>0, <2>1, FS_Subset
<1>2. CASE L = {}
  BY <1>1, <1>2, FS_EmptySet
<1>3. CASE L # {}
  <2> DEFINE top == Max(L)
             B == {x \in S : x < top}
  <2>1. top \in L /\ \A y \in L : y <= top
    <3>. HIDE DEF L
    <3>. QED
      BY <1>0, <1>3, MaxOfNats
  <2>2. Cardinality(B) < n
    BY <2>1 DEF Limit
  <2>3. IsFiniteSet(B) /\ Cardinality(B) \in Nat
    <3>1. B \subseteq S
      OBVIOUS
    <3>. QED
      BY <1>1, <3>1, FS_Subset, FS_CardinalityType
  <2>4. L \subseteq B \union {top}
    <3>. SUFFICES ASSUME NEW y \in L, y # top PROVE y \in B
      OBVIOUS
    <3>1. y \in S /\ y \in Int /\ top \in Int
      BY <1>0, <2>1, LimitIsPrefix, Zenon
    <3>2. y < top
      BY <2>1, <3>1
    <3>. QED
      BY <3>1, <3>2
  <2>5. /\ IsFiniteSet(B \union {top})
        /\ Cardinality(B \union {top}) \in Nat
        /\ Cardinality(B \union {top}) <= Cardinality(B) + 1
    <3>. HIDE DEF B, top
    <3>1. /\ IsFiniteSet(B \union {top})
          /\ Cardinality(B \union {top}) = IF top \in B THEN Cardinality(B)
                                                       ELSE Cardinality(B) + 1
      BY <2>3, FS_AddElement
    <3>. QED
      BY <2>3, <3>1, FS_CardinalityType
  <2>6. Cardinality(L) <= Cardinality(B \union {top}) /\ Cardinality(L) \in Nat
    BY <1>1, <2>4, <2>5, FS_Subset, FS_CardinalityType
  <2>. QED
    BY <1>1, <2>2, <2>3, <2>5, <2>6
<1>. QED
  BY <1>2, <1>3

\* extract_ready_subrange takes a prefix of the list.
LEMMA ExtractIsPrefix ==
    ASSUME NEW m \in Nat, NEW L \in SUBSET (0 .. m), NEW limit \in Nat, NEW expired
    PROVE  /\ ExtractReadySubrange(L, limit, expired) \subseteq L
           /\ \A b \in ExtractReadySubrange(L, limit, expired), c \in L :
                 c <= b => c \in ExtractReadySubrange(L, limit, expired)
<1> DEFINE prefix == {b \in L : \A c \in L : c <= b => c \in expired}
           answers == {ViaNumberCriterion(L, limit),
                       TimestampDeadlineCriterion(L, expired)} \ {None}
<1>0. L \subseteq Int
  OBVIOUS
<1>1. ViaNumberCriterion(L, limit) \in Nat \union {None}
  <2>1. CASE L # {}
    <3>1. Min(L) \in Nat
      <4>1. L \subseteq Nat
        OBVIOUS
      <4>2. Min(L) \in L
        BY <2>1, <4>1, MinOfNats
      <4>. QED
        BY <4>1, <4>2
    <3>. QED
      BY <3>1 DEF ViaNumberCriterion, None
  <2>2. CASE L = {}
    BY <2>2 DEF ViaNumberCriterion
  <2>. QED
    BY <2>1, <2>2
<1>2. TimestampDeadlineCriterion(L, expired) \in Nat \union {None}
  <2>1. CASE prefix # {}
    <3>1. prefix \in SUBSET (0 .. m)
      OBVIOUS
    <3>2. Max(prefix) \in prefix
      <4>. HIDE DEF prefix
      <4>. QED
        BY <2>1, <3>1, MaxOfNats
    <3>3. Max(prefix) \in Nat
      BY <3>1, <3>2
    <3>. QED
      BY <2>1, <3>3 DEF TimestampDeadlineCriterion
  <2>2. CASE prefix = {}
    BY <2>2 DEF TimestampDeadlineCriterion
  <2>. QED
    BY <2>1, <2>2
<1>3. LastL1Batch(L, limit, expired) \in Int
  <2>1. CASE answers = {}
    BY <2>1 DEF LastL1Batch, None
  <2>2. CASE answers # {}
    <3>1. answers \in SUBSET Nat
      BY <1>1, <1>2
    <3>2. Min(answers) \in answers
      <4>. HIDE DEF answers
      <4>. QED
        BY <2>2, <3>1, MinOfNats
    <3>3. LastL1Batch(L, limit, expired) = Min(answers)
      BY <2>2 DEF LastL1Batch
    <3>. QED
      BY <3>1, <3>2, <3>3
  <2>. QED
    BY <2>1, <2>2
<1>. QED
  BY <1>0, <1>3 DEF ExtractReadySubrange

=============================================================================
