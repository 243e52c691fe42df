--------------------------- MODULE OverrideExpiry ---------------------------
(***************************************************************************)
(* reconcile.OverrideExpiryWorker (internal/reconcile/override_expiry.go)   *)
(* composed with the coordinator it sends its requests to.                  *)
(*                                                                         *)
(* An account has at most one temporary override here, active until its     *)
(* deadline.  A command that creates, replaces or revokes one commits       *)
(* first and wakes the worker afterwards (the deferred                      *)
(* notifyOverrideChanged).  Arbitration expires due rows on its own too     *)
(* (expireAccountOverrides), without a request.                             *)
(***************************************************************************)
EXTENDS ReconcileCoordinator

CONSTANTS
    Worker,             \* the expiry worker as a requester
    MaxClock,           \* bound on time
    MaxChanges          \* bound on override changes and store failures

ASSUME ExpiryAssumption ==
    /\ Worker \notin Requesters
    /\ MaxClock \in Nat /\ MaxChanges \in Nat

VARIABLES
    deadline,           \* deadline of each account's active override, or None
    notifying,          \* accounts whose command has committed but not yet woken the worker
    now, changes,
    token,              \* a token is in w.wake
    wpc,                \* where Run is
    alarm,              \* the deadline it read, or None
    expired             \* account ids returned by the expiry transaction

expiryVars == <<deadline, notifying, now, changes, token, wpc, alarm, expired>>
vars == <<pendingFull, pending, wake, signalling, loop, requests, owed,
          deadline, notifying, now, changes, token, wpc, alarm, expired>>

None == MaxClock + 1        \* no deadline: later than every other
Due(a) == deadline[a] <= now
Earliest == CHOOSE d \in {None} \cup {deadline[a] : a \in Accounts} :
                \A a \in Accounts : d <= deadline[a]

Init ==
    /\ CoordInit
    /\ deadline = [a \in Accounts |-> None]
    /\ notifying = {}
    /\ now = 0 /\ changes = 0
    /\ token = FALSE
    /\ wpc = "query"
    /\ alarm = None
    /\ expired = {}

-----------------------------------------------------------------------------
(* Commands *)

Change == changes < MaxChanges /\ changes' = changes + 1

\* FinalizeAccountMutation commits a new, replaced or revoked override.
CommitOverride(a) ==
    /\ a \notin notifying
    /\ Change
    /\ \E d \in {None} \cup (now + 1)..MaxClock :
        /\ d # deadline[a]
        /\ deadline' = [deadline EXCEPT ![a] = d]
    /\ notifying' = notifying \cup {a}
    /\ UNCHANGED <<coordVars, now, token, wpc, alarm, expired>>

\* Slip: an unbuffered channel, where the send finds no receiver.
Wake_Unbuffered(a) ==
    /\ a \in notifying
    /\ notifying' = notifying \ {a}
    /\ token' = (token \/ wpc \in {"waitWake", "sleep"})
    /\ UNCHANGED <<coordVars, deadline, now, changes, wpc, alarm, expired>>

\* OverrideExpiryWorker.Wake
Wake(a) ==
    /\ a \in notifying
    /\ notifying' = notifying \ {a}
    /\ token' = TRUE
    /\ UNCHANGED <<coordVars, deadline, now, changes, wpc, alarm, expired>>

\* expireAccountOverrides during arbitration or a revision read.
LazyExpire(a) ==
    /\ deadline[a] # None /\ Due(a)
    /\ deadline' = [deadline EXCEPT ![a] = None]
    /\ UNCHANGED <<coordVars, notifying, now, changes, token, wpc, alarm, expired>>

-----------------------------------------------------------------------------
(* OverrideExpiryWorker.Run *)

\* NextActiveAccountOverrideExpiry; a failed read waits a minute instead.
Query ==
    /\ wpc = "query"
    /\ \/ alarm' = Earliest /\ wpc' = "park" /\ UNCHANGED changes
       \/ Change /\ wpc' = "backoff" /\ UNCHANGED alarm
    /\ UNCHANGED <<coordVars, deadline, notifying, now, token, expired>>

\* The worker chooses between waiting for a wake, sleeping and expiring.
Park ==
    /\ wpc = "park"
    /\ wpc' = IF alarm = None THEN "waitWake" ELSE IF alarm > now THEN "sleep" ELSE "expire"
    /\ UNCHANGED <<coordVars, deadline, notifying, now, changes, token, alarm, expired>>

\* A token ends every wait and sends the worker back to the query.
WorkerWoken ==
    /\ wpc \in {"waitWake", "sleep", "backoff"}
    /\ token
    /\ token' = FALSE
    /\ wpc' = "query"
    /\ UNCHANGED <<coordVars, deadline, notifying, now, changes, alarm, expired>>

TimerFires ==
    /\ wpc \in {"sleep", "backoff"}
    /\ wpc = "sleep" => alarm <= now
    /\ wpc' = IF wpc = "sleep" THEN "expire" ELSE "query"
    /\ UNCHANGED <<coordVars, deadline, notifying, now, changes, token, alarm, expired>>

\* ExpireActiveAccountOverrides: one transaction for every due row.
ExpireActive ==
    /\ wpc = "expire"
    /\ \/ /\ expired' = {a \in Accounts : Due(a)}
          /\ deadline' = [a \in Accounts |-> IF Due(a) THEN None ELSE deadline[a]]
          /\ wpc' = IF expired' = {} THEN "query" ELSE "request"
          /\ UNCHANGED changes
       \/ Change /\ wpc' = "query" /\ UNCHANGED <<deadline, expired>>
    /\ UNCHANGED <<coordVars, notifying, now, token, alarm>>

\* The accounts are requested only after the commit.
RequestExpired ==
    /\ wpc = "request"
    /\ RequestAccounts(Worker, expired)
    /\ expired' = {}
    /\ wpc' = "query"
    /\ UNCHANGED <<requests, deadline, notifying, now, changes, token, alarm>>

Tick ==
    /\ now < MaxClock
    /\ now' = now + 1
    /\ UNCHANGED <<coordVars, deadline, notifying, changes, token, wpc, alarm, expired>>

WorkerStep == Query \/ Park \/ WorkerWoken \/ TimerFires \/ ExpireActive \/ RequestExpired

Next ==
    \/ CoordNext /\ UNCHANGED expiryVars
    \/ Signal(Worker) /\ UNCHANGED expiryVars
    \/ \E a \in Accounts : CommitOverride(a) \/ Wake(a) \/ LazyExpire(a)
    \/ WorkerStep
    \/ Tick

Spec == Init /\ [][Next]_vars

(***************************************************************************)
(* Fairness.  Goroutines that can go on do: the loop, a requester about to  *)
(* send, the worker, a committed command that has yet to run its deferred   *)
(* wake; and time passes.  The ticker and arbitration are given none, so    *)
(* that the periodic full pass cannot hide a lost request, and a due        *)
(* override does not need somebody else to touch the account.  The debounce *)
(* ends because the sources fall silent (MaxRequests): under a source that  *)
(* never pauses for a whole debounce interval the code keeps resetting the  *)
(* timer, and no pass starts.                                               *)
(***************************************************************************)
Fairness ==
    /\ WF_vars(LoopStep /\ UNCHANGED expiryVars)
    /\ \A r \in Requesters \cup {Worker} : WF_vars(Signal(r) /\ UNCHANGED expiryVars)
    /\ \A a \in Accounts : WF_vars(Wake(a))
    /\ WF_vars(WorkerStep)
    /\ WF_vars(Tick)

FairSpec == Spec /\ Fairness

-----------------------------------------------------------------------------
\* The worker never oversleeps: while it waits past the earliest deadline, or
\* for a wake alone, somebody is about to wake it.
NeverOversleeps ==
    wpc \in {"park", "waitWake", "sleep"} => alarm <= Earliest \/ token \/ notifying # {}

\* A due override does not stay active, although commands keep replacing the
\* deadlines the worker sleeps on and its transactions may fail.
DueOverrideExpires ==
    \A a \in Accounts : (deadline[a] # None /\ Due(a)) ~> (deadline[a] = None \/ ~Due(a))

\* What the worker expires is reconciled without waiting for the ticker.
ExpiredIsReconciled ==
    \A a \in Accounts : (a \in expired) ~> (loop = "pass" /\ a \notin owed)
=============================================================================
