------------------------- MODULE AnalysisGateProofs -------------------------
(***************************************************************************)
(* What the gate guarantees for every set of clients and every value of    *)
(* ai.max_concurrent.  The capacity bound alone is not inductive: that a   *)
(* release may hand its place to a waiter without exceeding the bound      *)
(* needs the waiter to be outside running (WaitsOnce).                     *)
(***************************************************************************)
EXTENDS AnalysisGate, FiniteSetTheorems, TLAPS

GateInv ==
    /\ GateTypeOK
    /\ IsFiniteSet(running)
    /\ CapacityRespected
    /\ TokensAccounted

LEMMA CapacityPositive == Capacity \in Nat /\ Capacity >= 1
BY GateAssumption DEF Capacity

(* Adding an outsider to a finite set of holders counts one more.          *)
LEMMA CardinalityAdd ==
    ASSUME NEW S, IsFiniteSet(S), NEW x, x \notin S
    PROVE  /\ IsFiniteSet(S \cup {x})
           /\ Cardinality(S \cup {x}) = Cardinality(S) + 1
           /\ Cardinality(S) \in Nat
BY FS_AddElement, FS_CardinalityType

(* Removing a holder counts one less.                                      *)
LEMMA CardinalityRemove ==
    ASSUME NEW S, IsFiniteSet(S), NEW x \in S
    PROVE  /\ IsFiniteSet(S \ {x})
           /\ Cardinality(S \ {x}) = Cardinality(S) - 1
           /\ Cardinality(S) \in Nat
BY FS_RemoveElement, FS_CardinalityType

(* The queue without its oldest waiter: the same clients, one place ahead. *)
LEMMA TailOfQueue ==
    ASSUME NEW q \in Seq(Clients), q # <<>>
    PROVE  /\ Len(q) >= 1
           /\ Head(q) = q[1]
           /\ Head(q) \in Clients
           /\ Tail(q) \in Seq(Clients)
           /\ Len(Tail(q)) = Len(q) - 1
           /\ \A k \in 1..Len(Tail(q)) : k + 1 \in 1..Len(q) /\ Tail(q)[k] = q[k + 1]
OBVIOUS

LEMMA GateInitInv == GateInit => GateInv
<1> SUFFICES ASSUME GateInit PROVE GateInv
    OBVIOUS
<1>1. IsFiniteSet(running) /\ Cardinality(running) = 0
    BY FS_EmptySet DEF GateInit
<1>2. QED
    BY <1>1, CapacityPositive
    DEF GateInit, GateInv, GateTypeOK, CapacityRespected, TokensAccounted, NoIdleSlot,
        WaitsOnce, Waiters

LEMMA EnterInv ==
    ASSUME GateInv, NEW c \in Clients, Enter(c)
    PROVE  GateInv'
<1> USE DEF GateInv, GateTypeOK, Enter, Outside
<1>1. waiting = <<>>
    BY CapacityPositive, FS_CardinalityType DEF TokensAccounted, NoIdleSlot
<1>2. c \notin running /\ running' = running \cup {c}
    OBVIOUS
<1>3. IsFiniteSet(running') /\ Cardinality(running') <= Capacity
    <2>1. IsFiniteSet(running \cup {c})
        BY <1>2, CardinalityAdd
    <2>2. /\ Cardinality(running \cup {c}) = Cardinality(running) + 1
          /\ Cardinality(running) \in Nat
        BY <1>2, CardinalityAdd
    <2>3. QED
        BY <1>2, <2>1, <2>2, CapacityPositive
<1>4. Len(waiting') = 0 /\ waiting' = <<>>
    BY <1>1
<1>5. TokensAccounted'
    BY <1>4 DEF TokensAccounted, NoIdleSlot, WaitsOnce, Waiters
<1>6. CapacityRespected'
    BY <1>3 DEF CapacityRespected, Capacity
<1>7. QED
    BY <1>2, <1>3, <1>5, <1>6

LEMMA BlockInv ==
    ASSUME GateInv, NEW c \in Clients, Block(c)
    PROVE  GateInv'
<1> USE DEF GateInv, GateTypeOK, Block, Outside
<1>1. Cardinality(running) = Capacity
    BY CapacityPositive, FS_CardinalityType DEF CapacityRespected
<1>2. /\ c \notin running
      /\ \A k \in 1..Len(waiting) : waiting[k] # c
    BY DEF Waiters
<1>3. /\ waiting' \in Seq(Clients)
      /\ Len(waiting') = Len(waiting) + 1
      /\ \A k \in 1..Len(waiting) : waiting'[k] = waiting[k]
      /\ waiting'[Len(waiting) + 1] = c
    OBVIOUS
<1>4. running' \cap Waiters' = {}
    BY <1>2, <1>3 DEF Waiters, TokensAccounted, WaitsOnce
<1>5. \A j, k \in 1..Len(waiting') : waiting'[j] = waiting'[k] => j = k
    BY <1>2, <1>3 DEF TokensAccounted, WaitsOnce
<1>6. TokensAccounted' /\ CapacityRespected'
    BY <1>1, <1>4, <1>5 DEF TokensAccounted, NoIdleSlot, WaitsOnce, CapacityRespected, Capacity
<1>7. QED
    BY <1>3, <1>6

LEMMA ReleaseInv ==
    ASSUME GateInv, NEW c \in Clients, Release(c)
    PROVE  GateInv'
<1> USE DEF GateInv, GateTypeOK, Release
<1>1. /\ IsFiniteSet(running \ {c})
      /\ Cardinality(running \ {c}) = Cardinality(running) - 1
      /\ Cardinality(running) \in Nat
    BY CardinalityRemove
<1>2. CASE waiting = <<>>
    <2>1. running' = running \ {c} /\ waiting' = <<>>
        BY <1>2
    <2>2. CapacityRespected'
        <3>1. Cardinality(running) <= Capacity
            BY DEF CapacityRespected
        <3>2. Cardinality(running') = Cardinality(running) - 1
            BY <1>1, <2>1
        <3>3. Cardinality(running') <= Capacity
            BY <1>1, <3>1, <3>2, CapacityPositive
        <3>4. QED
            BY <3>3 DEF CapacityRespected, Capacity
    <2>3. TokensAccounted'
        BY <2>1 DEF TokensAccounted, NoIdleSlot, WaitsOnce, Waiters
    <2>4. IsFiniteSet(running')
        BY <1>1, <2>1, Zenon
    <2>5. QED
        BY <2>1, <2>2, <2>3, <2>4
<1>3. CASE waiting # <<>>
    <2> DEFINE h == Head(waiting)
    <2>1. running' = (running \ {c}) \cup {h} /\ waiting' = Tail(waiting)
        BY <1>3
    <2>2. /\ Len(waiting) >= 1 /\ h = waiting[1] /\ h \in Clients
          /\ Tail(waiting) \in Seq(Clients)
          /\ Len(Tail(waiting)) = Len(waiting) - 1
          /\ \A k \in 1..Len(Tail(waiting)) :
                k + 1 \in 1..Len(waiting) /\ Tail(waiting)[k] = waiting[k + 1]
        BY <1>3, TailOfQueue
    <2>3. h \notin running \ {c}
        BY <2>2 DEF TokensAccounted, WaitsOnce, Waiters
    <2>4. /\ IsFiniteSet(running')
          /\ Cardinality(running') = Cardinality(running)
        <3>1. /\ IsFiniteSet((running \ {c}) \cup {h})
              /\ Cardinality((running \ {c}) \cup {h}) = Cardinality(running \ {c}) + 1
            BY <1>1, <2>3, CardinalityAdd
        <3>2. /\ IsFiniteSet(running')
              /\ Cardinality(running') = Cardinality(running \ {c}) + 1
            BY <2>1, <3>1, Zenon
        <3>3. QED
            BY <1>1, <3>2
    <2>5. \A k \in 1..Len(Tail(waiting)) : Tail(waiting)[k] \notin running'
        <3>1. TAKE k \in 1..Len(Tail(waiting))
        <3>2. /\ k + 1 \in 1..Len(waiting) /\ k + 1 # 1
              /\ 1 \in 1..Len(waiting)
              /\ Tail(waiting)[k] = waiting[k + 1]
            BY <2>2
        <3>3. waiting[k + 1] # waiting[1]
            BY <3>2 DEF TokensAccounted, WaitsOnce
        <3>4. waiting[k + 1] \notin running
            BY <3>2 DEF TokensAccounted, WaitsOnce, Waiters
        <3>5. QED
            BY <2>1, <2>2, <3>2, <3>3, <3>4
    <2>6. \A j, k \in 1..Len(Tail(waiting)) : Tail(waiting)[j] = Tail(waiting)[k] => j = k
        BY <2>2 DEF TokensAccounted, WaitsOnce
    <2>7. WaitsOnce'
        BY <2>1, <2>5, <2>6 DEF WaitsOnce, Waiters
    <2>8. CapacityRespected' /\ NoIdleSlot'
        BY <1>3, <2>4 DEF CapacityRespected, TokensAccounted, NoIdleSlot, Capacity
    <2>9. QED
        BY <2>1, <2>2, <2>4, <2>7, <2>8 DEF TokensAccounted
<1>4. QED
    BY <1>2, <1>3

LEMMA ResetInv == ASSUME GateInv, Reset PROVE GateInv'
<1>1. IsFiniteSet(running') /\ Cardinality(running') = 0
    BY FS_EmptySet DEF Reset
<1>2. QED
    BY <1>1, CapacityPositive
    DEF Reset, GateInv, GateTypeOK, CapacityRespected, TokensAccounted, NoIdleSlot,
        WaitsOnce, Waiters, Capacity

(* Every step of the gate keeps its invariant.                             *)
LEMMA GateStepInv == GateInv /\ [GateNext]_gateVars => GateInv'
<1> SUFFICES ASSUME GateInv, [GateNext]_gateVars PROVE GateInv'
    OBVIOUS
<1>1. ASSUME NEW c \in Clients, Acquire(c) PROVE GateInv'
    BY <1>1, EnterInv, BlockInv DEF Acquire
<1>2. ASSUME NEW c \in Clients, Release(c) PROVE GateInv'
    BY <1>2, ReleaseInv
<1>3. CASE Reset
    BY <1>3, ResetInv
<1>4. CASE UNCHANGED gateVars
    BY <1>4 DEF gateVars, GateInv, GateTypeOK, CapacityRespected, TokensAccounted,
        NoIdleSlot, WaitsOnce, Waiters, Capacity
<1>5. QED
    BY <1>1, <1>2, <1>3, <1>4 DEF GateNext

(***************************************************************************)
(* The gate's inductive invariant holds in every behaviour.                *)
(***************************************************************************)
THEOREM GateInvariant == GateSpec => []GateInv
<1>1. QED
    BY GateInitInv, GateStepInv, PTL DEF GateSpec

(***************************************************************************)
(* For every set of clients and every setting of ai.max_concurrent, no     *)
(* more analyses run at once than the setting allows, and tokens neither   *)
(* leak nor are handed out twice (analysis_gate.go:23-34).                 *)
(***************************************************************************)
THEOREM GatePlaces == GateSpec => []PlacesAccounted
<1>1. GateInv => PlacesAccounted
    BY DEF GateInv, PlacesAccounted
<1>2. QED
    BY <1>1, GateInvariant, PTL

(***************************************************************************)
(* Whoever waits waits for somebody: the queue is never left without a     *)
(* holder that will serve it, also when the setting is zero or negative    *)
(* (analysis_gate.go:24-26).                                               *)
(***************************************************************************)
THEOREM WaitersHaveHolders == GateSpec => [](waiting # <<>> => running # {})
<1>1. GateInv => (waiting # <<>> => running # {})
    BY CapacityPositive, FS_EmptySet DEF GateInv, TokensAccounted, NoIdleSlot
<1>2. QED
    BY <1>1, GateInvariant, PTL

(***************************************************************************)
(* Analyses start in the order in which they asked for a place             *)
(* (analysis_gate.go:17).                                                  *)
(***************************************************************************)
THEOREM GateOrder == GateSpec => NoOvertaking
<1>1. GateInv /\ [GateNext]_gateVars => [StartsInOrder]_gateVars
    <2> SUFFICES ASSUME GateInv, GateNext PROVE StartsInOrder
        BY DEF gateVars
    <2>1. ASSUME NEW c \in Clients, Enter(c) PROVE StartsInOrder
        BY <2>1, CapacityPositive, FS_CardinalityType
        DEF StartsInOrder, Enter, GateInv, TokensAccounted, NoIdleSlot
    <2>2. ASSUME NEW c \in Clients, Block(c) PROVE StartsInOrder
        BY <2>2 DEF Block, StartsInOrder
    <2>3. ASSUME NEW c \in Clients, Release(c) PROVE StartsInOrder
        BY <2>3 DEF Release, StartsInOrder
    <2>4. CASE Reset
        BY <2>4 DEF Reset, StartsInOrder
    <2>5. QED
        BY <2>1, <2>2, <2>3, <2>4 DEF GateNext, Acquire
<1>2. QED
    BY <1>1, GateInvariant, PTL DEF GateSpec, NoOvertaking
=============================================================================
