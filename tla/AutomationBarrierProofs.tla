----------------------- MODULE AutomationBarrierProofs -----------------------
(***************************************************************************)
(* Proofs about the automation barrier, for any finite sets of mutators and *)
(* freezers.  Exclusion is not inductive: a freezer is admitted because a   *)
(* counter is zero, so the invariant has to say what the counters count.    *)
(***************************************************************************)
EXTENDS AutomationBarrier, FiniteSetTheorems, TLAPS

Inside == At(Mutators, "in")
Queued == {p \in Freezers : pc[p] \in {"check", "wait", "cancelled"}}
Publishing == {p \in Freezers : Holding(p)}

\* The counters of the Barrier struct count the callers they are meant to.
CountersExact ==
    /\ activeMutations = Cardinality(Inside)
    /\ freezeWaiters = Cardinality(Queued)
    /\ freezeActive <=> Publishing # {}

\* Mutators never reach the states of EnterFreeze's caller alone.
MutatorLabels == \A p \in Mutators : pc[p] \notin {"cancelled", "published"}

IInv == TypeOK /\ MutatorLabels /\ CountersExact /\ Exclusion

-----------------------------------------------------------------------------
\* The populations the counters count are finite, and a counter that is zero
\* means that nobody is there.
LEMMA FinitePopulations ==
    /\ IsFiniteSet(Inside) /\ IsFiniteSet(Queued)
    /\ Cardinality(Inside) \in Nat /\ Cardinality(Queued) \in Nat
    /\ Cardinality(Inside) = 0 <=> Inside = {}
    /\ Cardinality(Queued) = 0 <=> Queued = {}
<1>1. Inside \in SUBSET Mutators /\ Queued \in SUBSET Freezers
    BY DEF Inside, Queued, At
<1>2. IsFiniteSet(Inside) /\ IsFiniteSet(Queued)
    BY <1>1, FS_Subset, BarrierAssumption
<1>3. QED
    BY <1>2, FS_CardinalityType, FS_EmptySet

\* Entering a counted population raises its count by one, leaving it lowers
\* the count by one: the arithmetic behind every counter update.
LEMMA CountOne ==
    ASSUME NEW S, IsFiniteSet(S), NEW x
    PROVE  /\ x \notin S => Cardinality(S \cup {x}) = Cardinality(S) + 1
           /\ x \in S => Cardinality(S \ {x}) = Cardinality(S) - 1
BY FS_AddElement, FS_RemoveElement

\* The barrier starts empty, and the counters say so.
LEMMA InitIInv == Init => IInv
<1> SUFFICES ASSUME Init PROVE IInv
    OBVIOUS
<1>1. TypeOK /\ MutatorLabels /\ Exclusion
    BY DEF Init, TypeOK, MutatorLabels, Exclusion, Holding, Callers, Modes
<1>2. Inside = {} /\ Queued = {} /\ Publishing = {}
    BY DEF Init, Inside, Queued, Publishing, At, Holding, Callers
<1>3. CountersExact
    BY <1>2, FS_EmptySet DEF Init, CountersExact
<1> QED
    BY <1>1, <1>3 DEF IInv

-----------------------------------------------------------------------------
\* Every step of a mutator keeps the counters exact and the sides exclusive.
LEMMA MutatorStepIInv ==
    ASSUME IInv, NEW p \in Mutators, MutatorStep(p)
    PROVE  IInv'
<1> USE DEF IInv
<1>0. p \notin Freezers /\ p \in Callers /\ pc \in [Callers -> {"idle", "check", "wait", "in", "cancelled", "published"}]
    BY BarrierAssumption DEF Callers, TypeOK
<1>1. ASSUME NEW l \in {"idle", "check", "wait", "in"}, Goto(p, l)
      PROVE  /\ MutatorLabels'
             /\ Queued' = Queued /\ Publishing' = Publishing
             /\ pc' \in [Callers -> {"idle", "check", "wait", "in", "cancelled", "published"}]
             /\ l # "in" => Inside' = Inside \ {p}
             /\ l = "in" => Inside' = Inside \cup {p}
    BY <1>0, <1>1 DEF Goto, MutatorLabels, Queued, Publishing, Inside, Holding, At, Callers
<1>2. ASSUME NEW l \in {"idle", "check", "wait"}, Goto(p, l), pc[p] # "in",
             UNCHANGED <<activeMutations, freezeActive, freezeWaiters, mode>>,
             signalled' \subseteq Callers
      PROVE  IInv'
    <2>1. Inside' = Inside
        BY <1>1, <1>2 DEF Inside, At
    <2>2. CountersExact'
        BY <1>1, <1>2, <2>1 DEF CountersExact
    <2>3. Exclusion'
        BY <1>0, <1>2 DEF Exclusion, Holding, Goto, Callers
    <2>4. TypeOK'
        BY <1>1, <1>2 DEF TypeOK
    <2> QED
        BY <1>1, <1>2, <2>2, <2>3, <2>4
<1>3. CASE CallEnterMutation(p) \/ MutationMustWait(p) \/ MutationCancelled(p) \/ Wake(p)
    BY <1>2, <1>3 DEF CallEnterMutation, MutationMustWait, MutationCancelled, Wake, TypeOK
<1>4. CASE EnterMutation(p)
    <2>1. Inside' = Inside \cup {p} /\ p \notin Inside
        BY <1>1, <1>4 DEF EnterMutation, Inside, At
    <2>2. activeMutations' = Cardinality(Inside')
        BY <1>4, <2>1, FinitePopulations, CountOne DEF EnterMutation, CountersExact
    <2>3. CountersExact'
        BY <1>1, <1>4, <2>2 DEF EnterMutation, CountersExact
    <2>4. Exclusion'
        BY <1>0, <1>4 DEF EnterMutation, MutationAdmitted, Exclusion, CountersExact, Publishing, Holding, Goto, Callers
    <2>5. TypeOK'
        BY <1>1, <1>4 DEF EnterMutation, TypeOK
    <2> QED
        BY <1>1, <1>4, <2>3, <2>4, <2>5 DEF EnterMutation
<1>5. CASE ReleaseMutation(p)
    <2>1. Inside' = Inside \ {p} /\ p \in Inside
        BY <1>1, <1>5 DEF ReleaseMutation, Inside, At
    <2>2. activeMutations' = Cardinality(Inside') /\ activeMutations \in Nat \ {0}
        BY <1>5, <2>1, FinitePopulations, CountOne DEF ReleaseMutation, CountersExact
    <2>3. CountersExact'
        BY <1>1, <1>5, <2>2 DEF ReleaseMutation, CountersExact
    <2>4. Exclusion'
        BY <1>0, <1>5 DEF ReleaseMutation, Exclusion, Holding, Goto, Callers
    <2>5. TypeOK'
        BY <1>1, <1>5, <2>2 DEF ReleaseMutation, signalLocked, At, TypeOK
    <2> QED
        BY <1>1, <1>5, <2>3, <2>4, <2>5 DEF ReleaseMutation
<1> QED
    BY <1>3, <1>4, <1>5 DEF MutatorStep

\* Every step of a freezer does too: it is admitted when both counters that
\* stand for other holders are clear.
LEMMA FreezerStepIInv ==
    ASSUME IInv, NEW p \in Freezers, FreezerStep(p)
    PROVE  IInv'
<1> USE DEF IInv
<1>0. p \notin Mutators /\ p \in Callers /\ pc \in [Callers -> {"idle", "check", "wait", "in", "cancelled", "published"}]
    BY BarrierAssumption DEF Callers, TypeOK
<1>1. ASSUME NEW l \in {"idle", "check", "wait", "in", "cancelled", "published"}, Goto(p, l)
      PROVE  /\ MutatorLabels' /\ Inside' = Inside
             /\ pc' \in [Callers -> {"idle", "check", "wait", "in", "cancelled", "published"}]
             /\ Queued' = IF l \in {"check", "wait", "cancelled"} THEN Queued \cup {p} ELSE Queued \ {p}
             /\ Publishing' = IF l \in {"in", "published"} THEN Publishing \cup {p} ELSE Publishing \ {p}
    <2>1. pc' = [pc EXCEPT ![p] = l]
        BY <1>1 DEF Goto
    <2>2. MutatorLabels' /\ Inside' = Inside
        BY <1>0, <2>1 DEF MutatorLabels, Inside, At, Callers
    <2>3. Queued' = IF l \in {"check", "wait", "cancelled"} THEN Queued \cup {p} ELSE Queued \ {p}
        BY <1>0, <2>1 DEF Queued, Callers
    <2>4. Publishing' = IF l \in {"in", "published"} THEN Publishing \cup {p} ELSE Publishing \ {p}
        BY <1>0, <2>1 DEF Publishing, Holding, Callers
    <2> QED
        BY <1>0, <2>1, <2>2, <2>3, <2>4
<1>2. ASSUME NEW l \in {"check", "wait", "cancelled"}, Goto(p, l), p \in Queued,
             UNCHANGED <<activeMutations, freezeActive, freezeWaiters, mode>>,
             signalled' \subseteq Callers
      PROVE  IInv'
    <2>1. Queued' = Queued /\ Publishing' = Publishing /\ Inside' = Inside
        BY <1>1, <1>2 DEF Queued, Publishing, Holding
    <2>2. CountersExact'
        BY <1>2, <2>1 DEF CountersExact
    <2>3. Exclusion'
        BY <1>0, <1>2 DEF Exclusion, Holding, Goto, Callers
    <2>4. TypeOK'
        BY <1>1, <1>2 DEF TypeOK
    <2> QED
        BY <1>1, <1>2, <2>2, <2>3, <2>4
<1>3. CASE FreezeMustWait(p) \/ FreezeCancelled(p) \/ Wake(p)
    BY <1>0, <1>2, <1>3 DEF FreezeMustWait, FreezeCancelled, Wake, TypeOK, Queued
<1>4. CASE CallEnterFreeze(p)
    <2>1. Queued' = Queued \cup {p} /\ p \notin Queued /\ Publishing' = Publishing /\ Inside' = Inside
        BY <1>1, <1>4 DEF CallEnterFreeze, Queued, Publishing, Holding
    <2>2. freezeWaiters' = Cardinality(Queued')
        BY <1>4, <2>1, FinitePopulations, CountOne DEF CallEnterFreeze, CountersExact
    <2>3. CountersExact'
        BY <1>4, <2>1, <2>2 DEF CallEnterFreeze, CountersExact
    <2>4. Exclusion'
        BY <1>0, <1>4 DEF CallEnterFreeze, Exclusion, Holding, Goto, Callers
    <2>5. TypeOK'
        BY <1>1, <1>4 DEF CallEnterFreeze, signalLocked, At, TypeOK
    <2> QED
        BY <1>1, <1>4, <2>3, <2>4, <2>5 DEF CallEnterFreeze
<1>5. CASE EnterFreeze(p)
    <2>1. Queued' = Queued \ {p} /\ p \in Queued /\ Publishing' = Publishing \cup {p} /\ Inside' = Inside
        BY <1>1, <1>5 DEF EnterFreeze, Queued
    <2>2. freezeWaiters' = Cardinality(Queued') /\ freezeWaiters \in Nat \ {0}
        BY <1>5, <2>1, FinitePopulations, CountOne DEF EnterFreeze, CountersExact
    <2>3. CountersExact'
        BY <1>5, <2>1, <2>2 DEF EnterFreeze, CountersExact
    <2>4. Inside = {} /\ Publishing = {}
        BY <1>5, FinitePopulations DEF EnterFreeze, FreezeAdmitted, CountersExact
    <2>5. Exclusion'
        <3>1. \A q \in Mutators : pc[q] \notin {"in", "published"}
            BY <2>4 DEF Inside, At, MutatorLabels
        <3>2. \A q \in Freezers : pc[q] \notin {"in", "published"}
            BY <2>4 DEF Publishing, Holding
        <3>3. \A q \in Callers \ {p} : pc'[q] = pc[q]
            BY <1>0, <1>5 DEF EnterFreeze, Goto
        <3> QED
            BY <1>0, <3>1, <3>2, <3>3 DEF Exclusion, Holding, Callers
    <2>6. TypeOK'
        BY <1>1, <1>5, <2>2 DEF EnterFreeze, TypeOK
    <2> QED
        BY <1>1, <1>5, <2>3, <2>5, <2>6 DEF EnterFreeze
<1>6. CASE LeaveFreezeQueue(p)
    <2>1. Queued' = Queued \ {p} /\ p \in Queued /\ Publishing' = Publishing /\ Inside' = Inside
        BY <1>1, <1>6 DEF LeaveFreezeQueue, Queued, Publishing, Holding
    <2>2. freezeWaiters' = Cardinality(Queued') /\ freezeWaiters \in Nat \ {0}
        BY <1>6, <2>1, FinitePopulations, CountOne DEF LeaveFreezeQueue, CountersExact
    <2>3. CountersExact'
        BY <1>6, <2>1, <2>2 DEF LeaveFreezeQueue, CountersExact
    <2>4. Exclusion'
        BY <1>0, <1>6 DEF LeaveFreezeQueue, Exclusion, Holding, Goto, Callers
    <2>5. TypeOK'
        BY <1>1, <1>6, <2>2 DEF LeaveFreezeQueue, signalLocked, At, TypeOK
    <2> QED
        BY <1>1, <1>6, <2>3, <2>4, <2>5 DEF LeaveFreezeQueue
<1>7. CASE PublishFreeze(p)
    <2>1. Queued' = Queued /\ Publishing' = Publishing /\ Inside' = Inside
        BY <1>1, <1>7 DEF PublishFreeze, Queued, Publishing, Holding
    <2>2. CountersExact'
        BY <1>7, <2>1 DEF PublishFreeze, CountersExact
    <2>3. Exclusion'
        BY <1>0, <1>7 DEF PublishFreeze, Exclusion, Holding, Goto, Callers
    <2>4. TypeOK'
        BY <1>1, <1>7 DEF PublishFreeze, TypeOK
    <2> QED
        BY <1>1, <1>7, <2>2, <2>3, <2>4 DEF PublishFreeze
<1>8. CASE ReleaseFreeze(p)
    <2>1. Queued' = Queued /\ Publishing' = Publishing \ {p} /\ Inside' = Inside
        BY <1>1, <1>8 DEF ReleaseFreeze, Queued
    <2>2. Publishing' = {}
        BY <1>8, <2>1 DEF ReleaseFreeze, Publishing, Holding, Exclusion
    <2>3. CountersExact'
        BY <1>8, <2>1, <2>2 DEF ReleaseFreeze, CountersExact
    <2>4. Exclusion'
        BY <1>0, <1>8 DEF ReleaseFreeze, Exclusion, Holding, Goto, Callers
    <2>5. TypeOK'
        BY <1>1, <1>8 DEF ReleaseFreeze, signalLocked, At, TypeOK
    <2> QED
        BY <1>1, <1>8, <2>3, <2>4, <2>5 DEF ReleaseFreeze
<1> QED
    BY <1>3, <1>4, <1>5, <1>6, <1>7, <1>8 DEF FreezerStep

\* The strengthened invariant is inductive.
LEMMA NextIInv == IInv /\ [Next]_vars => IInv'
<1> SUFFICES ASSUME IInv, [Next]_vars PROVE IInv'
    OBVIOUS
<1>1. CASE Next
    BY <1>1, MutatorStepIInv, FreezerStepIInv DEF Next
<1>2. CASE UNCHANGED vars
    BY <1>2 DEF vars, IInv, TypeOK, MutatorLabels, CountersExact, Exclusion,
                Inside, Queued, Publishing, At, Holding, Callers
<1> QED
    BY <1>1, <1>2

\* The counters of barrier.go are exact in every reachable state.
THEOREM BarrierInductive == Spec => []IInv
BY InitIInv, NextIInv, PTL DEF Spec

\* The counters never go below zero (no release without its lease), and every
\* caller is at a step of its method.
THEOREM BarrierTypeOK == Spec => []TypeOK
<1>1. IInv => TypeOK
    BY DEF IInv
<1> QED
    BY <1>1, BarrierInductive, PTL

\* Whatever the number of callers, a freeze is published by one caller alone
\* and never while an automated mutation holds its lease.
THEOREM BarrierExclusion == Spec => []Exclusion
<1>1. IInv => Exclusion
    BY DEF IInv
<1> QED
    BY <1>1, BarrierInductive, PTL

-----------------------------------------------------------------------------
\* A step that signals leaves no sleeper without a closed channel; a step
\* that does not signal leaves every sleeper its reason.
LEMMA NextNoLostWakeup == IInv /\ NoLostWakeup /\ [Next]_vars => NoLostWakeup'
<1> SUFFICES ASSUME IInv, NoLostWakeup, [Next]_vars PROVE NoLostWakeup'
    OBVIOUS
<1> USE DEF NoLostWakeup, MutationAdmitted, FreezeAdmitted, At
<1>0. /\ pc \in [Callers -> {"idle", "check", "wait", "in", "cancelled", "published"}]
      /\ freezeActive \in BOOLEAN /\ activeMutations \in Nat
    BY DEF IInv, TypeOK
<1>1. ASSUME NEW p \in Callers, NEW l \in {"idle", "check", "in", "cancelled", "published"},
             Goto(p, l), signalLocked
      PROVE  NoLostWakeup'
    BY <1>0, <1>1 DEF Goto, signalLocked
<1>2. ASSUME NEW p \in Callers, NEW l \in {"idle", "check", "in", "cancelled", "published"},
             Goto(p, l), signalled' \in {signalled, signalled \ {p}},
             UNCHANGED <<activeMutations, freezeActive, freezeWaiters>>
      PROVE  NoLostWakeup'
    BY <1>0, <1>2 DEF Goto
<1>3. ASSUME NEW p \in Mutators, MutatorStep(p)
      PROVE  NoLostWakeup'
    <2>0. p \in Callers /\ p \notin Freezers
        BY <1>3, BarrierAssumption DEF Callers
    <2>1. CASE CallEnterMutation(p) \/ MutationCancelled(p) \/ Wake(p)
        BY <1>2, <2>0, <2>1 DEF CallEnterMutation, MutationCancelled, Wake
    <2>2. CASE ReleaseMutation(p)
        BY <1>1, <2>0, <2>2 DEF ReleaseMutation
    <2>3. CASE EnterMutation(p)
        BY <1>0, <2>0, <2>3 DEF EnterMutation, Goto
    <2>4. CASE MutationMustWait(p)
        BY <1>0, <2>0, <2>4 DEF MutationMustWait, Goto
    <2> QED
        BY <1>3, <2>1, <2>2, <2>3, <2>4 DEF MutatorStep
<1>4. ASSUME NEW p \in Freezers, FreezerStep(p)
      PROVE  NoLostWakeup'
    <2>0. p \in Callers /\ p \notin Mutators
        BY <1>4, BarrierAssumption DEF Callers
    <2>1. CASE FreezeCancelled(p) \/ PublishFreeze(p) \/ Wake(p)
        BY <1>2, <2>0, <2>1 DEF FreezeCancelled, PublishFreeze, Wake
    <2>2. CASE CallEnterFreeze(p) \/ LeaveFreezeQueue(p) \/ ReleaseFreeze(p)
        BY <1>1, <2>0, <2>2 DEF CallEnterFreeze, LeaveFreezeQueue, ReleaseFreeze
    <2>3. CASE EnterFreeze(p)
        BY <1>0, <2>0, <2>3 DEF EnterFreeze, Goto
    <2>4. CASE FreezeMustWait(p)
        BY <1>0, <2>0, <2>4 DEF FreezeMustWait, Goto
    <2> QED
        BY <1>4, <2>1, <2>2, <2>3, <2>4 DEF FreezerStep
<1>5. CASE UNCHANGED vars
    BY <1>5 DEF vars, Callers
<1> QED
    BY <1>3, <1>4, <1>5 DEF Next

\* No caller of the barrier ever sleeps on a channel that nobody will close.
THEOREM BarrierNoLostWakeup == Spec => []NoLostWakeup
<1>1. Init => NoLostWakeup
    BY DEF Init, NoLostWakeup, At, Callers
<1> QED
    BY <1>1, BarrierInductive, NextNoLostWakeup, PTL DEF Spec

\* While a freeze is queued no step admits a mutation.
THEOREM BarrierFreezeHasPriority == Spec => FreezeHasPriority
<1>1. IInv /\ [Next]_vars =>
        [(\E p \in Freezers : pc[p] \in {"check", "wait"}) => activeMutations' <= activeMutations]_vars
    <2> SUFFICES ASSUME IInv, Next, NEW f \in Freezers, pc[f] \in {"check", "wait"}
                 PROVE  activeMutations' <= activeMutations
        OBVIOUS
    <2>1. activeMutations \in Nat
        BY DEF IInv, TypeOK
    <2>2. freezeWaiters # 0
        BY FinitePopulations DEF IInv, CountersExact, Queued
    <2>3. ASSUME NEW p \in Mutators, MutatorStep(p)
          PROVE  activeMutations' <= activeMutations
        BY <2>1, <2>2, <2>3 DEF MutatorStep, CallEnterMutation, EnterMutation, MutationAdmitted,
            MutationMustWait, MutationCancelled, ReleaseMutation, Wake
    <2>4. ASSUME NEW p \in Freezers, FreezerStep(p)
          PROVE  activeMutations' <= activeMutations
        BY <2>1, <2>4 DEF FreezerStep, CallEnterFreeze, EnterFreeze, FreezeMustWait, FreezeCancelled,
            LeaveFreezeQueue, PublishFreeze, ReleaseFreeze, Wake
    <2> QED
        BY <2>3, <2>4 DEF Next
<1> QED
    BY <1>1, BarrierInductive, PTL DEF Spec, FreezeHasPriority

-----------------------------------------------------------------------------
\* Every step of the barrier is a step of the gate or leaves it as it was.
LEMMA StepImplementsGate == IInv /\ [Next]_vars => [Gate!GateNext]_(Gate!gateVars)
<1> SUFFICES ASSUME IInv, [Next]_vars PROVE [Gate!GateNext]_(Gate!gateVars)
    OBVIOUS
<1> DEFINE leases == {p \in Mutators : Holding(p)}
<1>0. pc \in [Callers -> {"idle", "check", "wait", "in", "cancelled", "published"}] /\ mode \in Modes
    BY DEF IInv, TypeOK
<1>1. ASSUME NEW p \in Mutators, MutatorStep(p)
      PROVE  [Gate!GateNext]_(Gate!gateVars)
    <2>0. p \in Callers
        BY DEF Callers
    <2>1. CASE CallEnterMutation(p) \/ MutationMustWait(p) \/ MutationCancelled(p) \/ Wake(p)
        <3>1. leases' = leases /\ mode' = mode
            BY <1>0, <2>0, <2>1 DEF CallEnterMutation, MutationMustWait, MutationCancelled, Wake, Goto, Holding, Callers
        <3> QED
            BY <3>1 DEF Gate!gateVars
    <2>2. CASE EnterMutation(p)
        <3>1. p \notin leases /\ leases' = leases \cup {p} /\ mode' = mode
            BY <1>0, <2>0, <2>2 DEF EnterMutation, Goto, Holding, Callers
        <3> QED
            BY <3>1 DEF Gate!GateNext, Gate!Admit
    <2>3. CASE ReleaseMutation(p)
        <3>1. leases' = leases \ {p} /\ mode' = mode
            BY <1>0, <2>0, <2>3 DEF ReleaseMutation, Goto, Holding, Callers
        <3>2. {p} \in SUBSET Mutators
            OBVIOUS
        <3> QED
            BY <3>1, <3>2 DEF Gate!GateNext, Gate!Return
    <2> QED
        BY <1>1, <2>1, <2>2, <2>3 DEF MutatorStep
<1>2. ASSUME NEW p \in Freezers, FreezerStep(p)
      PROVE  [Gate!GateNext]_(Gate!gateVars)
    <2>0. p \in Callers /\ p \notin Mutators
        BY BarrierAssumption DEF Callers
    <2>1. leases' = leases
        BY <1>0, <1>2, <2>0 DEF FreezerStep, CallEnterFreeze, EnterFreeze, FreezeMustWait, FreezeCancelled,
            LeaveFreezeQueue, PublishFreeze, ReleaseFreeze, Wake, Goto, Holding, Callers
    <2>2. CASE PublishFreeze(p)
        <3>1. leases = {}
            BY <2>2 DEF PublishFreeze, IInv, Exclusion, Holding
        <3>2. mode' \in Gate!Modes
            BY <2>2 DEF PublishFreeze, Modes, Gate!Modes
        <3> QED
            BY <2>1, <3>1, <3>2 DEF Gate!GateNext, Gate!Publish
    <2>3. CASE ~PublishFreeze(p)
        <3>1. mode' = mode
            BY <1>2, <2>3 DEF FreezerStep, CallEnterFreeze, EnterFreeze, FreezeMustWait, FreezeCancelled,
                LeaveFreezeQueue, ReleaseFreeze, Wake
        <3> QED
            BY <2>1, <3>1 DEF Gate!gateVars
    <2> QED
        BY <2>2, <2>3
<1>3. CASE UNCHANGED vars
    BY <1>3 DEF vars, Gate!gateVars, Holding
<1> QED
    BY <1>1, <1>2, <1>3 DEF Next

\* The barrier implements the gate through which AccountControl uses it, for
\* any number of callers on either side.
THEOREM BarrierImplementsGate == Spec => ImplementsGate
<1>1. Init => Gate!GateInit
    BY DEF Init, Gate!GateInit, Holding, Callers
<1> QED
    BY <1>1, BarrierInductive, StepImplementsGate, PTL DEF Spec, ImplementsGate, Gate!GateSpec
=============================================================================
