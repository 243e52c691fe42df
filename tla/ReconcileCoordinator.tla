------------------------ MODULE ReconcileCoordinator ------------------------
(***************************************************************************)
(* reconcile.Coordinator (internal/reconcile/coordinator.go): requests are  *)
(* coalesced in memory under a mutex, a channel of capacity one wakes the   *)
(* loop, and the loop runs one pass at a time.                              *)
(*                                                                         *)
(* A request is two steps: the critical section, and the non-blocking send  *)
(* after the unlock.  The loop is between two receives when it is           *)
(* "parking": it has found nothing to do and is about to select.  The log   *)
(* counters and source names are left out.                                  *)
(***************************************************************************)
EXTENDS Naturals

CONSTANTS
    Accounts,
    Requesters,         \* goroutines that call RequestAccounts and RequestFull
    MaxRequests         \* bound: after so many requests the sources fall silent

ASSUME CoordinatorAssumption == MaxRequests \in Nat

VARIABLES
    pendingFull, pending,   \* c.pendingFull, c.pending
    wake,                   \* a token is in c.wake
    signalling,             \* requesters between their unlock and their send
    loop,                   \* where Run is
    requests,               \* requests made so far
    owed                    \* history: accounts requested since the last pass that covers them began

coordVars == <<pendingFull, pending, wake, signalling, loop, requests, owed>>

CoordInit ==
    /\ pendingFull = FALSE /\ pending = {}
    /\ wake = FALSE /\ signalling = {}
    /\ loop = "idle"
    /\ requests = 0 /\ owed = {}

-----------------------------------------------------------------------------
(* Requests *)

\* Slip: requests are only remembered, nobody is told.
RequestAccounts_Silent(r, ids) ==
    /\ r \notin signalling
    /\ owed' = owed \cup ids
    /\ pending' = IF pendingFull THEN pending ELSE pending \cup ids
    /\ UNCHANGED <<pendingFull, wake, signalling, loop>>

\* A pending full pass already covers the accounts: no entry and no signal.
RequestAccounts(r, ids) ==
    /\ r \notin signalling
    /\ owed' = owed \cup ids
    /\ IF pendingFull THEN UNCHANGED <<pending, signalling>>
       ELSE /\ pending' = pending \cup ids
            /\ signalling' = signalling \cup {r}
    /\ UNCHANGED <<pendingFull, wake, loop>>

RequestFull(r) ==
    /\ r \notin signalling
    /\ owed' = Accounts
    /\ pendingFull' = TRUE
    /\ pending' = {}
    /\ signalling' = signalling \cup {r}
    /\ UNCHANGED <<wake, loop>>

\* Slip: an unbuffered channel, where the send finds no receiver.
Signal_Unbuffered(r) ==
    /\ r \in signalling
    /\ signalling' = signalling \ {r}
    /\ wake' = (wake \/ loop \in {"idle", "debounce"})
    /\ UNCHANGED <<pendingFull, pending, loop, requests, owed>>

\* signal: the send is dropped when the token is already there.
Signal(r) ==
    /\ r \in signalling
    /\ signalling' = signalling \ {r}
    /\ wake' = TRUE
    /\ UNCHANGED <<pendingFull, pending, loop, requests, owed>>

\* A telemetry, policy, lock or settings change (RequestAccountsFrom,
\* RequestFullFrom).
SourceRequests(r) ==
    /\ requests < MaxRequests
    /\ requests' = requests + 1
    /\ \/ \E a \in Accounts : RequestAccounts(r, {a})
       \/ RequestFull(r)

-----------------------------------------------------------------------------
(* Run *)

LoopVarsKept == UNCHANGED <<pendingFull, pending, signalling, requests, owed>>

\* The loop receives the token.
Woken ==
    /\ loop = "idle" /\ wake
    /\ wake' = FALSE
    /\ loop' = "debounce"
    /\ LoopVarsKept

\* waitDebounce: every further token starts the timer again.
DebounceAgain ==
    /\ loop = "debounce" /\ wake
    /\ wake' = FALSE
    /\ UNCHANGED loop
    /\ LoopVarsKept

DebounceDone ==
    /\ loop = "debounce"
    /\ loop' = "take"
    /\ UNCHANGED wake
    /\ LoopVarsKept

\* The ticker requests a full pass and goes straight to runPending.
Periodic ==
    /\ loop = "idle"
    /\ pendingFull' = TRUE
    /\ pending' = {}
    /\ wake' = TRUE
    /\ owed' = Accounts
    /\ loop' = "take"
    /\ UNCHANGED <<signalling, requests>>

\* takePending with something to do: the pass covers what is taken here, and
\* what is requested from now on belongs to the next.
TakePending ==
    /\ loop = "take"
    /\ pendingFull \/ pending # {}
    /\ owed' = IF pendingFull THEN {} ELSE owed \ pending
    /\ pendingFull' = FALSE
    /\ pending' = {}
    /\ loop' = "pass"
    /\ UNCHANGED <<wake, signalling, requests>>

NothingPending ==
    /\ loop = "take"
    /\ ~pendingFull /\ pending = {}
    /\ loop' = "parking"
    /\ UNCHANGED wake
    /\ LoopVarsKept

Parked ==
    /\ loop = "parking"
    /\ loop' = "idle"
    /\ UNCHANGED wake
    /\ LoopVarsKept

\* Slip: the pending set is cleared when the pass ends.
PassDone_Clears ==
    /\ loop = "pass"
    /\ loop' = "take"
    /\ pending' = {}
    /\ UNCHANGED <<pendingFull, wake, signalling, requests, owed>>

\* A pass ends, with or without an error; the loop looks again.
PassDone ==
    /\ loop = "pass"
    /\ loop' = "take"
    /\ UNCHANGED wake
    /\ LoopVarsKept

LoopStep ==
    \/ Woken \/ DebounceAgain \/ DebounceDone \/ TakePending \/ NothingPending \/ Parked \/ PassDone

CoordNext ==
    \/ \E r \in Requesters : SourceRequests(r) \/ Signal(r)
    \/ LoopStep
    \/ Periodic

-----------------------------------------------------------------------------
\* A request made before or during a pass is never lost: until a pass that
\* covers the account begins, the account is pending or a full pass is.
NoRequestLost == pendingFull \/ owed \subseteq pending

\* The loop never sleeps on work: what is pending has a token in the channel
\* or a requester about to send one, or the loop has yet to look.
NoLostWake ==
    (pendingFull \/ pending # {}) =>
        wake \/ signalling # {} \/ loop \in {"debounce", "take", "pass"}

\* Every requested account is covered by a pass that begins after the request.
EveryRequestServed == \A a \in Accounts : (a \in owed) ~> (a \notin owed)
=============================================================================
