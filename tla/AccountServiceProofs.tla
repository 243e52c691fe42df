------------------------- MODULE AccountServiceProofs -------------------------
(***************************************************************************)
(* Cost routing (internal/balance/manager.go) never closes a pool: for any *)
(* number of sources, any rates, settings, checks and faults.              *)
(***************************************************************************)
EXTENDS AccountService, WellFoundedInduction, TLAPS

\* The engine and its surroundings read the lock tables and never write them.
LEMMA EngineKeepsLocks == ASSUME EngineNext PROVE UNCHANGED locks
<1>1. CASE PassStep
    <2>1. CASE Observe
        BY <2>1 DEF Observe
    <2>2. CASE Save
        BY <2>2 DEF Save
    <2>3. CASE reconcileAdaptiveLoad
        BY <2>3 DEF reconcileAdaptiveLoad
    <2>4. CASE Gate
        BY <2>4 DEF Gate
    <2> QED
        BY <1>1, <2>1, <2>2, <2>3, <2>4 DEF PassStep
<1>2. ASSUME NEW item, NEW late, Check(item, late) PROVE UNCHANGED locks
    BY <1>2 DEF Check
<1>3. CASE InsertMonitorHistory \/ MonitorStalls \/ Tick \/ CountAutomaticPauses
    BY <1>3 DEF InsertMonitorHistory, MonitorStalls, Tick, CountAutomaticPauses
<1>4. ASSUME NEW w, InsertTraffic(w) PROVE UNCHANGED locks
    BY <1>4 DEF InsertTraffic
<1>5. ASSUME NEW op, CommandStart(op) \/ EndOverride(op) PROVE UNCHANGED locks
    BY <1>5 DEF CommandStart, EndOverride
<1>6. CASE CommandEnd \/ ClearFlapProtection \/ UpdateSettings \/ UpdatePolicy
    BY <1>6 DEF CommandEnd, ClearFlapProtection, UpdateSettings, UpdatePolicy
<1>7. CASE Freeze \/ Unfreeze \/ OutsideChange
    BY <1>7 DEF Freeze, Unfreeze, OutsideChange
<1> QED
    BY <1>1, <1>2, <1>3, <1>4, <1>5, <1>6, <1>7 DEF EngineNext

\* Among some sources one has the lowest rate.
LEMMA CheapestExists ==
    ASSUME NEW S, S \subseteq Sources, S # {}
    PROVE  \E s \in S : \A u \in S : Rates[s] <= Rates[u]
<1> DEFINE R == {Rates[s] : s \in S}
<1>1. R \subseteq Nat /\ R # {}
    BY RoutingAssumption
<1> HIDE DEF R
<1>2. PICK r \in R : \A q \in R : r <= q
    <2> DEFINE Below == {ss \in Nat \X Nat : ss[1] < ss[2]}
    <2>1. IsWellFoundedOn(Below, Nat)
        BY NatLessThanWellFounded, Zenon DEF OpToRel
    <2>2. PICK r \in R : \A q \in R : ~(<<q, r>> \in Below)
        <3> HIDE DEF Below
        <3> QED
            BY <1>1, <2>1, WFMin
    <2>3. ASSUME NEW q \in R PROVE r <= q
        <3>1. q \in Nat /\ r \in Nat /\ ~(<<q, r>> \in Below)
            BY <1>1, <2>2
        <3>2. q < r => <<q, r>> \in Below
            BY <3>1
        <3> QED
            BY <3>1, <3>2
    <2> QED
        BY <2>2, <2>3
<1> QED
    BY <1>2 DEF R

\* If a usable source is funded, some usable source has a target rate.
LEMMA TargetExists ==
    ASSUME NEW S, NEW f \in Sources, S[f].enabled, available(S, f), S[f].balance # "low"
    PROVE  \E s \in Sources : S[s].enabled /\ available(S, s) /\ Rates[s] \in TargetRates(S)
<1> DEFINE usable  == {s \in Sources : S[s].enabled /\ available(S, s)}
           current == {s \in usable : serving(s)}
           chosen  == IF current # {} THEN current \cup {s \in usable : activationReady(S, s)}
                                      ELSE {s \in usable : S[s].balance # "low"}
<1>1. chosen # {} /\ chosen \subseteq usable
    OBVIOUS
<1>2. TargetRates(S) = {Rates[s] : s \in {t \in chosen : \A u \in chosen : Rates[t] <= Rates[u]}}
    BY DEF TargetRates
<1>3. usable \subseteq Sources
    OBVIOUS
<1> HIDE DEF chosen, current
<1>4. PICK s \in chosen : \A u \in chosen : Rates[s] <= Rates[u]
    BY <1>1, <1>3, CheapestExists
<1>5. Rates[s] \in TargetRates(S)
    BY <1>2, <1>4
<1> QED
    BY <1>1, <1>4, <1>5

\* Routing leaves open every enabled source with a target rate, and adds locks
\* only while one of them serves.
LEMMA CostLocksLeaveTarget ==
    ASSUME NEW S
    PROVE  /\ \A s \in Sources : Rates[s] \in TargetRates(S) => s \notin CostLocks(S)
           /\ CostLocks(S) \ locks.cost # {} =>
                  \E s \in Sources : s \notin CostLocks(S) /\ serving(s)
<1> DEFINE pool   == {s \in Sources : S[s].enabled}
           target == TargetRates(S)
<1>1. CostLocks(S) = IF target = {} THEN locks.cost \cap pool
                     ELSE IF \A s \in pool : Rates[s] \in target => ~serving(s)
                     THEN {s \in locks.cost \cap pool : Rates[s] \notin target}
                     ELSE {s \in pool : Rates[s] \notin target}
    BY DEF CostLocks
<1> HIDE DEF target
<1>2. \A s \in Sources : Rates[s] \in target => s \notin CostLocks(S)
    BY <1>1
<1>3. ASSUME CostLocks(S) \ locks.cost # {}
      PROVE  \E s \in Sources : s \notin CostLocks(S) /\ serving(s)
    BY <1>1, <1>3
<1> QED
    BY <1>2, <1>3 DEF target

\* A step that changes the cost locks replaces them by what routing computes.
LEMMA OnlyRoutingLocks ==
    ASSUME Next, locks'.cost # locks.cost
    PROVE  locks'.cost = CostLocks(src')
<1>1. CASE EngineNext
    BY <1>1, EngineKeepsLocks
<1>2. ASSUME NEW s \in Sources, NEW b, refreshLocked(s, b) \/ Create(s, b)
      PROVE  locks'.cost = CostLocks(src')
    <2>1. PICK B : locks' = [balance |-> B, cost |-> CostLocks(src')]
        BY <1>2, Zenon DEF refreshLocked, Create, reconcileCostRouting, SyncCostLocks
    <2> QED
        BY <2>1
<1>3. ASSUME NEW s \in Sources, RefreshFails(s) \/ Delete(s)
      PROVE  locks'.cost = CostLocks(src')
    <2>1. UNCHANGED locks \/ \E B : locks' = [balance |-> B, cost |-> CostLocks(src')]
        BY <1>3, Zenon DEF RefreshFails, Delete, reconcileCostRouting, SyncCostLocks
    <2> QED
        BY <2>1
<1>4. ASSUME NEW s \in Peers, PeerPass(s) \/ PeerHealth(s)
      PROVE  locks'.cost = CostLocks(src')
    BY <1>4 DEF PeerPass, PeerHealth, engineVars
<1> QED
    BY <1>1, <1>2, <1>3, <1>4 DEF Next, RoutingNext

\* For any sources, rates and histories: routing puts a source on standby only
\* while another serves, and leaves a usable, funded source open if there is one.
THEOREM RoutingKeepsPoolOpen == Spec => PoolStaysOpen
<1>1. [Next]_vars =>
        [locks'.cost # locks.cost =>
            /\ locks'.cost \ locks.cost # {} => \E s \in Sources \ locks'.cost : serving(s)
            /\ (\E s \in Sources : src'[s].enabled /\ available(src', s) /\ src'[s].balance # "low") =>
                   \E s \in Sources \ locks'.cost : src'[s].enabled /\ available(src', s)]_vars
    <2> SUFFICES ASSUME Next, locks'.cost # locks.cost
                 PROVE  /\ locks'.cost \ locks.cost # {} => \E s \in Sources \ locks'.cost : serving(s)
                        /\ (\E s \in Sources : src'[s].enabled /\ available(src', s) /\ src'[s].balance # "low") =>
                               \E s \in Sources \ locks'.cost : src'[s].enabled /\ available(src', s)
        OBVIOUS
    <2>1. locks'.cost = CostLocks(src')
        BY OnlyRoutingLocks
    <2>2. locks'.cost \ locks.cost # {} => \E s \in Sources \ locks'.cost : serving(s)
        BY <2>1, CostLocksLeaveTarget
    <2>3. ASSUME NEW f \in Sources, src'[f].enabled, available(src', f), src'[f].balance # "low"
          PROVE  \E s \in Sources \ locks'.cost : src'[s].enabled /\ available(src', s)
        <3>1. PICK s \in Sources : src'[s].enabled /\ available(src', s) /\ Rates[s] \in TargetRates(src')
            BY <2>3, TargetExists
        <3>2. s \notin locks'.cost
            BY <2>1, <3>1, CostLocksLeaveTarget
        <3> QED
            BY <3>1, <3>2
    <2> QED
        BY <2>2, <2>3
<1> QED
    BY <1>1, PTL DEF Spec, PoolStaysOpen
=============================================================================
