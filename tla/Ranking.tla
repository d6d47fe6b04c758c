------------------------------ MODULE Ranking ------------------------------
(***************************************************************************)
(* Sorting a finite set and cutting the result to its first n members, as  *)
(* kube.go:281 does with events and runbook.go:91 with runbooks: what is   *)
(* kept, without induction over the sorted list.  B[x] are the members of  *)
(* S that come before x.                                                   *)
(***************************************************************************)
EXTENDS Integers, FiniteSets, FiniteSetTheorems, WellFoundedInduction, TLAPS

StrictOrder(S, B) ==
    /\ B \in [S -> SUBSET S]
    /\ \A x \in S : x \notin B[x]
    /\ \A x, y \in S : y \in B[x] => B[y] \subseteq B[x]
    /\ \A x, y \in S : x # y => x \in B[y] \/ y \in B[x]

FirstOf(S, B, n) == {x \in S : Cardinality(B[x]) < n}

\* The number of members before one is its rank: what comes earlier has a lower one.
LEMMA RanksGrow ==
    ASSUME NEW S, IsFiniteSet(S), NEW B, StrictOrder(S, B)
    PROVE  /\ \A x \in S : Cardinality(B[x]) \in Nat
           /\ \A x, y \in S : y \in B[x] => Cardinality(B[y]) < Cardinality(B[x])
<1>1. \A x \in S : B[x] \in SUBSET S BY DEF StrictOrder
<1>2. \A x \in S : IsFiniteSet(B[x]) /\ Cardinality(B[x]) \in Nat
  BY <1>1, FS_Subset, FS_CardinalityType
<1>3. ASSUME NEW x \in S, NEW y \in S, y \in B[x] PROVE Cardinality(B[y]) < Cardinality(B[x])
  <2>1. B[y] \in SUBSET B[x] /\ B[y] # B[x] BY <1>3 DEF StrictOrder
  <2>2. /\ Cardinality(B[y]) <= Cardinality(B[x])
        /\ Cardinality(B[x]) = Cardinality(B[y]) => B[x] = B[y]
    BY <1>2, <2>1, FS_Subset
  <2> QED BY <1>2, <2>1, <2>2
<1> QED BY <1>2, <1>3

\* No two members have the same rank, so that n are kept at most.
LEMMA FirstAreFew ==
    ASSUME NEW S, IsFiniteSet(S), NEW B, StrictOrder(S, B), NEW n \in Nat
    PROVE  IsFiniteSet(FirstOf(S, B, n)) /\ Cardinality(FirstOf(S, B, n)) \in 0..n
<1> DEFINE T == FirstOf(S, B, n)
           rank == [x \in T |-> Cardinality(B[x])]
<1>1. T \subseteq S BY DEF FirstOf
<1>2. \A x \in T : Cardinality(B[x]) \in 0..(n - 1) BY RanksGrow DEF FirstOf
<1>3. ASSUME NEW x \in T, NEW y \in T, rank[x] = rank[y] PROVE x = y
  <2>1. Cardinality(B[x]) = Cardinality(B[y]) BY <1>3
  <2>2. x \in S /\ y \in S BY <1>1
  <2>3. Cardinality(B[x]) \in Nat BY <2>2, RanksGrow
  <2>4. y \notin B[x] /\ x \notin B[y] BY <2>1, <2>2, <2>3, RanksGrow
  <2> QED BY <2>2, <2>4 DEF StrictOrder
<1>4. rank \in Injection(T, 0..(n - 1)) BY <1>2, <1>3 DEF Injection, IsInjective
<1>5. IsFiniteSet(0..(n - 1)) /\ Cardinality(0..(n - 1)) = n BY FS_Interval
<1> HIDE DEF rank, T
<1>6. IsFiniteSet(T) /\ Cardinality(T) <= Cardinality(0..(n - 1)) BY <1>4, <1>5, FS_Injection
<1>7. Cardinality(T) \in Nat BY <1>6, FS_CardinalityType
<1> QED BY <1>5, <1>6, <1>7 DEF T

\* One that is left out comes after all that are kept, and n are kept then: those
\* before the first one that is left out.
LEMMA LeftOutIsLast ==
    ASSUME NEW S, IsFiniteSet(S), NEW B, StrictOrder(S, B), NEW n \in Nat,
           NEW x \in S \ FirstOf(S, B, n)
    PROVE  FirstOf(S, B, n) \subseteq B[x] /\ Cardinality(FirstOf(S, B, n)) = n
<1> DEFINE T == FirstOf(S, B, n)
           earlier == {B[z] : z \in S \ T}
<1>1. \A z \in S : B[z] \in SUBSET S /\ Cardinality(B[z]) \in Nat BY RanksGrow DEF StrictOrder
<1>2. ASSUME NEW z \in S \ T, NEW y \in T PROVE y \in B[z]
  <2>1. Cardinality(B[y]) < n /\ ~(Cardinality(B[z]) < n) /\ y \in S BY DEF FirstOf
  <2>2. ~(Cardinality(B[z]) < Cardinality(B[y])) BY <1>1, <2>1
  <2>3. z \notin B[y] BY <2>1, <2>2, RanksGrow
  <2> QED BY <2>1, <2>3 DEF StrictOrder
<1>3. PICK z \in S \ T : \A v \in S \ T : ~(B[v] \subseteq B[z] /\ B[v] # B[z])
  <2>1. earlier \subseteq SUBSET S /\ earlier # {} BY <1>1
  <2>2. IsWellFoundedOn(StrictSubsetOrdering(S), SUBSET S)
    BY FS_StrictSubsetOrderingWellFounded, FS_FiniteSubsetsOfFinite
  <2> HIDE DEF earlier
  <2>3. PICK least \in earlier : \A U \in earlier : <<U, least>> \notin StrictSubsetOrdering(S)
    BY <2>1, <2>2, WFMin
  <2>4. \A U \in earlier : ~(U \subseteq least /\ U # least) BY <2>1, <2>3 DEF StrictSubsetOrdering
  <2> QED BY <2>4 DEF earlier
<1>4. B[z] = T
  <2>1. ASSUME NEW y \in B[z], y \notin T PROVE FALSE
    <3>1. y \in S \ T BY <1>1, <2>1
    <3>2. B[y] \subseteq B[z] /\ B[y] # B[z] BY <2>1, <3>1 DEF StrictOrder
    <3> QED BY <1>3, <3>1, <3>2
  <2> QED BY <1>2, <2>1
<1>5. ~(Cardinality(B[z]) < n) BY DEF FirstOf
<1>6. Cardinality(T) \in 0..n BY FirstAreFew
<1> QED BY <1>2, <1>4, <1>5, <1>6
=============================================================================
