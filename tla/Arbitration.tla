---------------------------- MODULE Arbitration ----------------------------
(***************************************************************************)
(* The arbiter as its callers see it: a pool of candidate intents that      *)
(* changes as commands arrive, overrides are revoked and time passes, and   *)
(* the winner Arbitrate would name in each state.                           *)
(***************************************************************************)
EXTENDS Arbiter, FiniteSets

CONSTANTS
    Intents,        \* the intents that may be submitted
    MaxPool,        \* bound: candidates in the pool at once
    MaxClock        \* bound: the last instant modelled

ASSUME IntentsAssumption ==
    /\ \A i \in Intents :
        /\ {"id", "key", "target", "auth", "created", "expires"} \subseteq DOMAIN i
        /\ i.auth \in Authorities
        /\ i.created \in Nat
        /\ i.expires \in Nat \cup {NoExpiry}
        /\ i.id \in Nat
    /\ \A i, j \in Intents : i.id = j.id => i = j

VARIABLES now, pool

arbitrationVars == <<now, pool>>

Targets == {i.target : i \in Intents}
Win(target) == Winner(now, pool, target)

Init == now = 0 /\ pool = {}

Arrive(i) ==
    /\ Cardinality(pool) < MaxPool
    /\ i \notin pool
    /\ pool' = pool \cup {i}
    /\ UNCHANGED now

Withdraw(i) ==
    /\ i \in pool
    /\ pool' = pool \ {i}
    /\ UNCHANGED now

Tick ==
    /\ now < MaxClock
    /\ now' = now + 1
    /\ UNCHANGED pool

Next ==
    \/ \E i \in Intents : Arrive(i) \/ Withdraw(i)
    \/ Tick

Spec == Init /\ [][Next]_arbitrationVars

-----------------------------------------------------------------------------
\* Arbitration is decisive: every bucket with a candidate left has exactly
\* one winner, whatever the candidates are (sort.Slice by candidateWins and
\* bucket.candidates[0]).
OneWinner ==
    \A t \in Targets :
        Cardinality(Win(t)) = IF Candidates(now, pool, t) = {} THEN 0 ELSE 1

\* A ManualHold that is valid, unexpired and not in an idempotency conflict
\* is never outvoted by another authority, however new (the first rule of
\* candidateWins).
HoldStands ==
    \A i \in pool :
        /\ i.auth = "manual_hold"
        /\ Validate(i)
        /\ i.expires = NoExpiry \/ now < i.expires
        /\ ~IdempotencyConflict(now, pool, i)
        => \A w \in Win(i.target) : w.auth = "manual_hold"

\* The mere passage of time unseats a winner only when the winner itself
\* expires, or when the expiry of one member ends an idempotency conflict and
\* brings the other members of its group back.
TimeUnseatsOnlyExpired ==
    [][now' # now =>
        \A t \in Targets : \A w \in Win(t) :
            \/ w \in Win(t)'
            \/ w.expires # NoExpiry /\ w.expires <= now'
            \/ \E i \in pool : IdempotencyConflict(now, pool, i)
                               /\ ~IdempotencyConflict(now', pool, i)]_arbitrationVars

\* A newcomer changes a decision only by winning it, or by sharing the
\* idempotency key of an intent for the same target: unrelated candidates and
\* other targets are independent, although key groups span the targets (the
\* buckets and groups of Arbitrate).
NewcomerChangesOnlyItsOwn ==
    [][\A x \in pool' \ pool : \A t \in Targets :
            \/ Win(t)' = Win(t)
            \/ Win(t)' = {x}
            \/ \E i \in pool : i.key = x.key /\ i.target = t]_arbitrationVars
=============================================================================
