--------------------------- MODULE ReconcileProofs ---------------------------
(***************************************************************************)
(* Proofs about the reconcile loop, its requests and the override expiry    *)
(* worker, for any set of accounts and requesters and any bounds.           *)
(***************************************************************************)
EXTENDS OverrideExpiry, WellFoundedInduction, TLAPS

\* Deadlines are instants up to None, and the worker is at one of its steps.
DeadlinesOK ==
    /\ deadline \in [Accounts -> 0..None]
    /\ now \in 0..MaxClock /\ alarm \in 0..None
    /\ wpc \in {"query", "park", "backoff", "waitWake", "sleep", "expire", "request"}

\* The strengthening: the three safety properties, and what they need of types.
ReconcileInv == NoRequestLost /\ NoLostWake /\ NeverOversleeps /\ DeadlinesOK

-----------------------------------------------------------------------------
\* Every non-empty set of naturals has a least element.
LEMMA LeastDeadline ==
    ASSUME NEW T, T \subseteq Nat, T # {}
    PROVE  \E d \in T : \A e \in T : d <= e
<1> DEFINE Less == {pair \in Nat \X Nat : pair[1] < pair[2]}
<1>1. IsWellFoundedOn(Less, Nat)
    BY NatLessThanWellFounded, Zenon DEF OpToRel
<1>2. PICK d \in T : \A e \in T : <<e, d>> \notin Less
    <2> HIDE DEF Less
    <2> QED
        BY <1>1, WFMin
<1>3. ASSUME NEW e \in T PROVE d <= e
    <2>1. d \in Nat /\ e \in Nat /\ <<e, d>> \notin Less
        BY <1>2
    <2> QED
        BY <2>1
<1> QED
    BY <1>3

\* Earliest is the earliest deadline, None when there is none: the CHOOSE in the
\* query of the store always has something to choose.
LEMMA EarliestIsLeast ==
    ASSUME deadline \in [Accounts -> 0..None]
    PROVE  /\ Earliest \in 0..None
           /\ \A a \in Accounts : Earliest <= deadline[a]
           /\ Earliest = None \/ \E a \in Accounts : Earliest = deadline[a]
<1> DEFINE T == {None} \cup {deadline[a] : a \in Accounts}
<1>1. None \in Nat
    BY ExpiryAssumption DEF None
<1>2. T \subseteq 0..None /\ T \subseteq Nat /\ T # {}
    BY <1>1
<1>3. \E d \in T : \A e \in T : d <= e
    BY <1>2, LeastDeadline
<1>4. \E d \in T : \A a \in Accounts : d <= deadline[a]
    BY <1>3
<1>5. Earliest \in T /\ \A a \in Accounts : Earliest <= deadline[a]
    BY <1>4 DEF Earliest
<1> QED
    BY <1>2, <1>5

\* Deadlines that only move back move the earliest one back.
LEMMA EarliestRises ==
    ASSUME deadline \in [Accounts -> 0..None], deadline' \in [Accounts -> 0..None],
           \A a \in Accounts : deadline[a] <= deadline'[a]
    PROVE  Earliest <= Earliest' /\ Earliest' \in 0..None
<1>0. None \in Nat
    BY ExpiryAssumption DEF None
<1>1. /\ Earliest \in 0..None /\ \A a \in Accounts : Earliest <= deadline[a]
    BY EarliestIsLeast
<1>2. /\ Earliest' \in 0..None
      /\ Earliest' = None \/ \E a \in Accounts : Earliest' = deadline'[a]
    <2> DEFINE T == {None} \cup {deadline'[a] : a \in Accounts}
    <2>1. T \subseteq 0..None /\ T \subseteq Nat /\ T # {}
        BY <1>0
    <2>2. \E d \in T : \A e \in T : d <= e
        BY <2>1, LeastDeadline
    <2>3. \E d \in T : \A a \in Accounts : d <= deadline'[a]
        BY <2>2
    <2>4. Earliest' \in T
        BY <2>3 DEF Earliest
    <2> QED
        BY <2>1, <2>4
<1>3. \A a \in Accounts : Earliest <= deadline'[a]
    BY <1>0, <1>1
<1> QED
    BY <1>0, <1>1, <1>2, <1>3

-----------------------------------------------------------------------------
\* Nothing is pending at first, and the worker has yet to ask for a deadline.
LEMMA InitReconcile == Init => ReconcileInv
<1> SUFFICES ASSUME Init PROVE ReconcileInv
    OBVIOUS
<1> QED
    BY ExpiryAssumption
       DEF Init, CoordInit, ReconcileInv, NoRequestLost, NoLostWake, NeverOversleeps, DeadlinesOK, None

\* The requests and the loop: what is owed is pending or covered by a full pass,
\* and whoever adds to it has yet to send.
LEMMA CoordinatorStep ==
    ASSUME ReconcileInv, CoordNext \/ Signal(Worker) \/ RequestAccounts(Worker, expired)
    PROVE  NoRequestLost' /\ NoLostWake'
<1> USE DEF ReconcileInv, NoRequestLost, NoLostWake
<1>1. ASSUME NEW r, NEW ids, RequestAccounts(r, ids)
      PROVE  NoRequestLost' /\ NoLostWake'
    BY <1>1 DEF RequestAccounts
<1>2. ASSUME NEW r, RequestFull(r) PROVE NoRequestLost' /\ NoLostWake'
    BY <1>2 DEF RequestFull
<1>3. ASSUME NEW r, Signal(r) PROVE NoRequestLost' /\ NoLostWake'
    BY <1>3 DEF Signal
<1>4. ASSUME NEW r, SourceRequests(r) PROVE NoRequestLost' /\ NoLostWake'
    BY <1>1, <1>2, <1>4 DEF SourceRequests
<1>5. CASE Woken \/ DebounceAgain \/ DebounceDone \/ Parked \/ PassDone \/ NothingPending
    BY <1>5 DEF Woken, DebounceAgain, DebounceDone, Parked, PassDone, NothingPending, LoopVarsKept
<1>6. CASE TakePending
    BY <1>6 DEF TakePending
<1>7. CASE Periodic
    BY <1>7 DEF Periodic
<1> QED
    BY <1>1, <1>3, <1>4, <1>5, <1>6, <1>7 DEF CoordNext, LoopStep

\* The overrides, the worker and time: a deadline that comes nearer is announced
\* before the worker can sleep past it, and all other changes move it back.
LEMMA ExpiryStep ==
    ASSUME ReconcileInv,
           WorkerStep \/ Tick \/ \E a \in Accounts : CommitOverride(a) \/ Wake(a) \/ LazyExpire(a)
    PROVE  NeverOversleeps' /\ DeadlinesOK'
<1> USE DEF ReconcileInv, DeadlinesOK
<1>0. None \in Nat /\ MaxClock \in Nat /\ None = MaxClock + 1
    BY ExpiryAssumption DEF None
<1>1. Earliest \in 0..None /\ \A a \in Accounts : Earliest <= deadline[a]
    BY EarliestIsLeast
<1>2. ASSUME deadline' = deadline PROVE Earliest' = Earliest
    BY <1>2 DEF Earliest
<1>3. ASSUME NEW a \in Accounts, CommitOverride(a) PROVE NeverOversleeps' /\ DeadlinesOK'
    BY <1>0, <1>3 DEF CommitOverride, NeverOversleeps
<1>4. ASSUME NEW a \in Accounts, Wake(a) PROVE NeverOversleeps' /\ DeadlinesOK'
    BY <1>0, <1>4 DEF Wake, NeverOversleeps
<1>5. ASSUME NEW a \in Accounts, LazyExpire(a) PROVE NeverOversleeps' /\ DeadlinesOK'
    <2>1. DeadlinesOK' /\ \A b \in Accounts : deadline[b] <= deadline'[b]
        BY <1>0, <1>5 DEF LazyExpire
    <2>2. Earliest <= Earliest' /\ Earliest' \in 0..None
        BY <2>1, EarliestRises
    <2> QED
        BY <1>0, <1>1, <1>5, <2>1, <2>2 DEF LazyExpire, NeverOversleeps
<1>6. CASE Query
    BY <1>0, <1>1, <1>2, <1>6 DEF Query, NeverOversleeps
<1>7. CASE Park
    BY <1>0, <1>2, <1>7 DEF Park, NeverOversleeps
<1>8. CASE WorkerWoken \/ TimerFires \/ RequestExpired
    BY <1>0, <1>8 DEF WorkerWoken, TimerFires, RequestExpired, NeverOversleeps
<1>9. CASE ExpireActive
    BY <1>0, <1>9 DEF ExpireActive, NeverOversleeps
<1>10. CASE Tick
    BY <1>0, <1>2, <1>10 DEF Tick, NeverOversleeps
<1> QED
    BY <1>3, <1>4, <1>5, <1>6, <1>7, <1>8, <1>9, <1>10 DEF WorkerStep

\* Neither half disturbs the other.
LEMMA NextReconcile == ReconcileInv /\ [Next]_vars => ReconcileInv'
<1> SUFFICES ASSUME ReconcileInv, [Next]_vars PROVE ReconcileInv'
    OBVIOUS
<1> USE DEF ReconcileInv
<1>1. ASSUME UNCHANGED coordVars PROVE NoRequestLost' /\ NoLostWake'
    BY <1>1 DEF coordVars, NoRequestLost, NoLostWake
<1>2. ASSUME UNCHANGED expiryVars PROVE NeverOversleeps' /\ DeadlinesOK'
    BY <1>2 DEF expiryVars, NeverOversleeps, DeadlinesOK, Earliest
<1>3. CASE (CoordNext \/ Signal(Worker)) /\ UNCHANGED expiryVars
    BY <1>2, <1>3, CoordinatorStep
<1>4. CASE \E a \in Accounts : CommitOverride(a) \/ Wake(a) \/ LazyExpire(a)
    BY <1>1, <1>4, ExpiryStep DEF CommitOverride, Wake, LazyExpire
<1>5. CASE Query \/ Park \/ WorkerWoken \/ TimerFires \/ ExpireActive \/ Tick
    BY <1>1, <1>5, ExpiryStep DEF WorkerStep, Query, Park, WorkerWoken, TimerFires, ExpireActive, Tick
<1>6. CASE RequestExpired
    <2>1. RequestAccounts(Worker, expired)
        BY <1>6 DEF RequestExpired
    <2> QED
        BY <1>6, <2>1, CoordinatorStep, ExpiryStep DEF WorkerStep
<1>7. CASE UNCHANGED vars
    BY <1>1, <1>2, <1>7 DEF vars, coordVars, expiryVars
<1> QED
    BY <1>3, <1>4, <1>5, <1>6, <1>7 DEF Next, WorkerStep

\* The invariant of the loop and the worker together.
THEOREM ReconcileInductive == Spec => []ReconcileInv
<1> QED
    BY InitReconcile, NextReconcile, PTL DEF Spec

\* RequestAccounts and RequestFull: whatever the interleaving of requests, passes
\* and the ticker, a request stays recorded until a pass that covers it begins.
THEOREM RequestsKept == Spec => []NoRequestLost
<1>1. ReconcileInv => NoRequestLost
    BY DEF ReconcileInv
<1> QED
    BY <1>1, ReconcileInductive, PTL

\* Run: the loop never blocks on its channel while there is work that nobody is
\* about to announce, although sends after the unlock may be dropped.
THEOREM LoopNeverSleepsOnWork == Spec => []NoLostWake
<1>1. ReconcileInv => NoLostWake
    BY DEF ReconcileInv
<1> QED
    BY <1>1, ReconcileInductive, PTL

\* OverrideExpiryWorker.Run: the worker never sleeps past the earliest deadline
\* unless a wake is on its way, although deadlines move while it reads and sleeps.
THEOREM WorkerNeverOversleeps == Spec => []NeverOversleeps
<1>1. ReconcileInv => NeverOversleeps
    BY DEF ReconcileInv
<1> QED
    BY <1>1, ReconcileInductive, PTL
=============================================================================
