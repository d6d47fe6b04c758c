---------------------------- MODULE AnalysisGate ----------------------------
(***************************************************************************)
(* The gate that bounds how many AI analyses run at once                   *)
(* (internal/collector/analysis_gate.go).  Go implements it as a buffered  *)
(* channel: a goroutine sends a token before it calls the engine and       *)
(* receives one in a deferred call afterwards.  A send on a full channel   *)
(* blocks; blocked senders are resumed first come, first served.           *)
(*                                                                         *)
(* The module is used twice: on its own, with clients that come and go,    *)
(* and as the component that IncidentPipeline composes with the goroutines *)
(* that really use the gate.                                               *)
(***************************************************************************)
EXTENDS Integers, Sequences, FiniteSets

CONSTANTS
    Clients,        \* the goroutines that may ask for an analysis
    MaxConcurrent   \* ai.max_concurrent, as configured: any integer

ASSUME GateAssumption == MaxConcurrent \in Int

VARIABLES
    running,   \* the clients that hold a token: their analysis is under way
    waiting    \* the clients blocked in the send, oldest first

gateVars == <<running, waiting>>

\* newAnalysisGate: a zero or negative setting means one at a time.
Capacity == IF MaxConcurrent <= 0 THEN 1 ELSE MaxConcurrent

Waiters == {waiting[k] : k \in 1..Len(waiting)}

Outside == Clients \ (running \cup Waiters)

GateInit ==
    /\ running = {}
    /\ waiting = <<>>

-----------------------------------------------------------------------------
\* (mutant) The buffer is one place too large.
EnterOverfull(c) ==
    /\ c \in Outside
    /\ Cardinality(running) <= Capacity
    /\ running' = running \cup {c}
    /\ UNCHANGED waiting

\* The send finds a free place in the channel's buffer.
Enter(c) ==
    /\ c \in Outside
    /\ Cardinality(running) < Capacity
    /\ running' = running \cup {c}
    /\ UNCHANGED waiting

\* The send finds the buffer full: the goroutine blocks behind the others.
Block(c) ==
    /\ c \in Outside
    /\ Cardinality(running) >= Capacity
    /\ waiting' = Append(waiting, c)
    /\ UNCHANGED running

Acquire(c) == Enter(c) \/ Block(c)

\* (mutant) The receive frees the place and wakes nobody.
ReleaseQuietly(c) ==
    /\ c \in running
    /\ running' = running \ {c}
    /\ UNCHANGED waiting

\* (mutant) The place goes to the newest blocked sender.
ReleaseToNewest(c) ==
    /\ c \in running
    /\ running' = (running \ {c}) \cup (IF waiting = <<>> THEN {} ELSE {waiting[Len(waiting)]})
    /\ waiting' = IF waiting = <<>> THEN waiting ELSE SubSeq(waiting, 1, Len(waiting) - 1)

\* The deferred receive, whether the analysis succeeded or not.  The place
\* it frees goes to the oldest blocked sender in the same step.
Release(c) ==
    /\ c \in running
    /\ running' = (running \ {c}) \cup (IF waiting = <<>> THEN {} ELSE {Head(waiting)})
    /\ waiting' = IF waiting = <<>> THEN waiting ELSE Tail(waiting)

\* The process dies: the channel and everybody blocked on it are gone.
Reset ==
    /\ running' = {}
    /\ waiting' = <<>>

GateNext ==
    \/ \E c \in Clients : Acquire(c)
    \/ \E c \in Clients : Release(c)
    \/ Reset

GateSpec == GateInit /\ [][GateNext]_gateVars

\* An analysis ends: every LLM call has a five-minute client timeout.
GateFairness == \A c \in Clients : WF_gateVars(Release(c))

FairGateSpec == GateSpec /\ GateFairness

-----------------------------------------------------------------------------
GateTypeOK ==
    /\ running \in SUBSET Clients
    /\ waiting \in Seq(Clients)

(***************************************************************************)
(* No more analyses run at once than ai.max_concurrent allows, whatever    *)
(* the setting (analysis_gate.go:11: the local model cannot serve more).   *)
(***************************************************************************)
CapacityRespected == Cardinality(running) <= Capacity

NoIdleSlot == waiting # <<>> => Cardinality(running) = Capacity

WaitsOnce ==
    /\ running \cap Waiters = {}
    /\ \A j, k \in 1..Len(waiting) : waiting[j] = waiting[k] => j = k

(***************************************************************************)
(* A token never leaks and is never handed out twice                       *)
(* (analysis_gate.go:33-34): nobody is blocked while a place is free,      *)
(* nobody both waits and runs, and nobody waits in two places.             *)
(***************************************************************************)
TokensAccounted == NoIdleSlot /\ WaitsOnce

(***************************************************************************)
(* The places are used by no more than may use them, and none is lost.     *)
(***************************************************************************)
PlacesAccounted == CapacityRespected /\ TokensAccounted

(***************************************************************************)
(* "Excess requests wait their turn" (analysis_gate.go:17): a client gets  *)
(* a place only from the head of the queue, or when the queue is empty.    *)
(***************************************************************************)
StartsInOrder ==
    \A c \in running' \ running : waiting = <<>> \/ c = Head(waiting)

NoOvertaking == [][StartsInOrder]_gateVars

(***************************************************************************)
(* Excess requests are not refused (analysis_gate.go:17): a blocked client *)
(* eventually runs, unless the process dies first.                         *)
(***************************************************************************)
Served ==
    \A c \in Clients : (c \in Waiters) ~> (c \in running \/ gateVars = <<{}, <<>>>>)
=============================================================================
