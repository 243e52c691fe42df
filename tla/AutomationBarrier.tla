-------------------------- MODULE AutomationBarrier --------------------------
(***************************************************************************)
(* automation.Barrier (internal/automation/barrier.go) and the one caller   *)
(* of its exclusive side, Engine.UpdateFreezeState (reconcile/engine.go).   *)
(*                                                                         *)
(* Every access to the counters happens under the mutex b.mu, so one        *)
(* critical section is one action.  What is not atomic is the wait: a       *)
(* caller whose condition is false captures the current channel `changed`   *)
(* under the mutex, unlocks, and only then selects on it.  signalLocked     *)
(* closes the channel every present waiter captured and installs a fresh    *)
(* one, so the closed channels are modelled by the set `signalled` of the   *)
(* callers holding one: those callers, and only those, may look again.      *)
(* When the channel is closed and the context has ended the select may      *)
(* take either branch.                                                      *)
(***************************************************************************)
EXTENDS Naturals, FiniteSets

CONSTANTS
    Mutators,       \* callers of EnterMutation
    Freezers        \* callers of EnterFreeze (UpdateFreezeState)

ASSUME BarrierAssumption ==
    /\ IsFiniteSet(Mutators)
    /\ IsFiniteSet(Freezers)
    /\ Mutators \cap Freezers = {}

VARIABLES
    activeMutations,    \* b.activeMutations
    freezeActive,       \* b.freezeActive
    freezeWaiters,      \* b.freezeWaiters
    signalled,          \* waiters whose captured channel has been closed
    pc,                 \* where each caller stands
    mode                \* the freeze mode persisted by SetAgentFreezeState

vars == <<activeMutations, freezeActive, freezeWaiters, signalled, pc, mode>>

Callers == Mutators \cup Freezers
Modes == {"active", "agent_paused", "read_only", "writes_frozen"}

At(P, l) == {p \in P : pc[p] = l}
Goto(p, l) == pc' = [pc EXCEPT ![p] = l]

Init ==
    /\ activeMutations = 0
    /\ freezeActive = FALSE
    /\ freezeWaiters = 0
    /\ signalled = {}
    /\ pc = [p \in Callers |-> "idle"]
    /\ mode = "active"

\* signalLocked: close the channel that everyone waiting now has captured.
signalLocked == signalled' = signalled \cup At(Callers, "wait")

-----------------------------------------------------------------------------
(* EnterMutation *)

\* Slip: queued freezes are not given priority.
MutationAdmitted_NoPriority == ~freezeActive

MutationAdmitted == ~freezeActive /\ freezeWaiters = 0

CallEnterMutation(p) ==
    /\ pc[p] = "idle"
    /\ Goto(p, "check")
    /\ UNCHANGED <<activeMutations, freezeActive, freezeWaiters, signalled, mode>>

EnterMutation(p) ==
    /\ pc[p] = "check"
    /\ MutationAdmitted
    /\ activeMutations' = activeMutations + 1
    /\ Goto(p, "in")
    /\ UNCHANGED <<freezeActive, freezeWaiters, signalled, mode>>

MutationMustWait(p) ==
    /\ pc[p] = "check"
    /\ ~MutationAdmitted
    /\ Goto(p, "wait")
    /\ UNCHANGED <<activeMutations, freezeActive, freezeWaiters, signalled, mode>>

\* Slip: a cancelled wait gives back a lease it never held.
MutationCancelled_Releases(p) ==
    /\ pc[p] = "wait"
    /\ Goto(p, "idle")
    /\ signalled' = signalled \ {p}
    /\ activeMutations' = activeMutations - 1
    /\ UNCHANGED <<freezeActive, freezeWaiters, mode>>

MutationCancelled(p) ==
    /\ pc[p] = "wait"
    /\ Goto(p, "idle")
    /\ signalled' = signalled \ {p}
    /\ UNCHANGED <<activeMutations, freezeActive, freezeWaiters, mode>>

\* Slip: the release forgets to signal.
ReleaseMutation_Silent(p) ==
    /\ pc[p] = "in"
    /\ activeMutations' = activeMutations - 1
    /\ Goto(p, "idle")
    /\ UNCHANGED <<freezeActive, freezeWaiters, signalled, mode>>

ReleaseMutation(p) ==
    /\ pc[p] = "in"
    /\ activeMutations' = activeMutations - 1
    /\ signalLocked
    /\ Goto(p, "idle")
    /\ UNCHANGED <<freezeActive, freezeWaiters, mode>>

-----------------------------------------------------------------------------
(* EnterFreeze *)

\* Slip: publication does not wait for the mutations in flight.
FreezeAdmitted_Eager == ~freezeActive

FreezeAdmitted == ~freezeActive /\ activeMutations = 0

CallEnterFreeze(p) ==
    /\ pc[p] = "idle"
    /\ freezeWaiters' = freezeWaiters + 1
    /\ signalLocked
    /\ Goto(p, "check")
    /\ UNCHANGED <<activeMutations, freezeActive, mode>>

EnterFreeze(p) ==
    /\ pc[p] = "check"
    /\ FreezeAdmitted
    /\ freezeWaiters' = freezeWaiters - 1
    /\ freezeActive' = TRUE
    /\ Goto(p, "in")
    /\ UNCHANGED <<activeMutations, signalled, mode>>

FreezeMustWait(p) ==
    /\ pc[p] = "check"
    /\ ~FreezeAdmitted
    /\ Goto(p, "wait")
    /\ UNCHANGED <<activeMutations, freezeActive, freezeWaiters, signalled, mode>>

\* The select returns ctx.Done; the mutex is taken again to leave the queue.
FreezeCancelled(p) ==
    /\ pc[p] = "wait"
    /\ Goto(p, "cancelled")
    /\ signalled' = signalled \ {p}
    /\ UNCHANGED <<activeMutations, freezeActive, freezeWaiters, mode>>

LeaveFreezeQueue(p) ==
    /\ pc[p] = "cancelled"
    /\ freezeWaiters' = freezeWaiters - 1
    /\ signalLocked
    /\ Goto(p, "idle")
    /\ UNCHANGED <<activeMutations, freezeActive, mode>>

ReleaseFreeze(p) ==
    /\ pc[p] \in {"in", "published"}
    /\ freezeActive' = FALSE
    /\ signalLocked
    /\ Goto(p, "idle")
    /\ UNCHANGED <<activeMutations, freezeWaiters, mode>>

\* UpdateFreezeState writes the mode while it holds the exclusive side; when
\* the input or the store refuses it, the lease is released with nothing
\* written (ReleaseFreeze from "in").
PublishFreeze(p) ==
    /\ pc[p] = "in"
    /\ mode' \in Modes
    /\ Goto(p, "published")
    /\ UNCHANGED <<activeMutations, freezeActive, freezeWaiters, signalled>>

-----------------------------------------------------------------------------
\* The select of either side returns because its channel was closed.
Wake(p) ==
    /\ pc[p] = "wait"
    /\ p \in signalled
    /\ signalled' = signalled \ {p}
    /\ Goto(p, "check")
    /\ UNCHANGED <<activeMutations, freezeActive, freezeWaiters, mode>>

MutatorStep(p) ==
    \/ CallEnterMutation(p) \/ EnterMutation(p) \/ MutationMustWait(p)
    \/ MutationCancelled(p) \/ ReleaseMutation(p) \/ Wake(p)

FreezerStep(p) ==
    \/ CallEnterFreeze(p) \/ EnterFreeze(p) \/ FreezeMustWait(p)
    \/ FreezeCancelled(p) \/ LeaveFreezeQueue(p) \/ PublishFreeze(p)
    \/ ReleaseFreeze(p) \/ Wake(p)

Next ==
    \/ \E p \in Mutators : MutatorStep(p)
    \/ \E p \in Freezers : FreezerStep(p)

Spec == Init /\ [][Next]_vars

(***************************************************************************)
(* Fairness.  A goroutine that can run runs: a caller that has been woken   *)
(* or is looking at the counters goes on, a holder returns its lease (every *)
(* holder is a request with a deadline, and every release is deferred).     *)
(* Nothing forces a caller to call again, or a context to end.              *)
(***************************************************************************)
Fairness ==
    /\ \A p \in Mutators :
        /\ WF_vars(EnterMutation(p) \/ MutationMustWait(p) \/ Wake(p))
        /\ WF_vars(ReleaseMutation(p))
    /\ \A p \in Freezers :
        /\ WF_vars(EnterFreeze(p) \/ FreezeMustWait(p) \/ Wake(p))
        /\ WF_vars(ReleaseFreeze(p))
        /\ WF_vars(LeaveFreezeQueue(p))

FairSpec == Spec /\ Fairness

-----------------------------------------------------------------------------
TypeOK ==
    /\ activeMutations \in Nat
    /\ freezeActive \in BOOLEAN
    /\ freezeWaiters \in Nat
    /\ signalled \subseteq Callers
    /\ pc \in [Callers -> {"idle", "check", "wait", "in", "cancelled", "published"}]
    /\ mode \in Modes

Holding(p) == pc[p] \in {"in", "published"}

\* The freeze mode is published by at most one caller at a time, and never
\* while an automated mutation is between its freeze check and its write.
Exclusion ==
    \A p \in Freezers : Holding(p) =>
        /\ \A q \in Mutators : ~Holding(q)
        /\ \A q \in Freezers \ {p} : ~Holding(q)

\* No lost wake-up: a caller that sleeps on a channel nobody has closed yet
\* still has a reason to sleep.  EnterFreeze lowers freezeWaiters without a
\* signal, which is safe only because freezeActive takes over as the reason.
NoLostWakeup ==
    \A p \in At(Callers, "wait") \ signalled :
        IF p \in Mutators THEN ~MutationAdmitted ELSE ~FreezeAdmitted

\* Freeze waiters have priority: while one is queued no new mutation gets in
\* (the comment on type Barrier, "Freeze waiters have priority over new
\* mutations so publication cannot starve under a steady write load").
FreezeHasPriority ==
    [][(\E p \in Freezers : pc[p] \in {"check", "wait"}) =>
            activeMutations' <= activeMutations]_vars

\* Publication cannot starve: once a freeze is queued, the mutations in
\* flight drain and a queued caller is admitted (or all of them give up),
\* although mutators may call again without end.
PublicationNotStarved ==
    (freezeWaiters > 0) ~> (freezeActive \/ freezeWaiters = 0)

\* The barrier is the gate the account executor relies on.
Gate == INSTANCE FreezeGate WITH
            Holders <- Mutators,
            leases <- {p \in Mutators : Holding(p)}

ImplementsGate == Gate!GateSpec
=============================================================================
