----------------------------- MODULE CostRouting -----------------------------
(***************************************************************************)
(* The balance centre's locks (internal/balance/manager.go): the balance   *)
(* of each source locks its account after two low readings and unlocks it  *)
(* after two good ones, and among the sources of one pool all but the      *)
(* cheapest usable rate are put on standby by cost locks.                  *)
(*                                                                         *)
(* Every source has one account.  The one of Self is the account of        *)
(* HealthControl; of the others only what routing reads is kept, and their *)
(* engine passes are one step.                                             *)
(***************************************************************************)
EXTENDS HealthControl

CONSTANTS
    Peers,    \* the other sources of the pool
    Rates     \* the rate multiplier of each source's selected key (0: none usable)

VARIABLES
    src,      \* [enabled, balance, low, rec, locked, fresh] of each source
    peer      \* [sched, owns, lock, ok] of each other source's account

vars == <<engineVars, src, peer>>

Sources == {Self} \cup Peers

ASSUME RoutingAssumption == Self \notin Peers /\ Rates \in [Sources -> Nat]

Streak == 2   \* readings in a row that lock or unlock

NoReading == [enabled |-> TRUE, balance |-> "high", low |-> 0, rec |-> 0, locked |-> FALSE, fresh |-> TRUE]

------------------------------------------------------------------------------
\* The source after a reading of its balance; a disabled one is not read.
applySuccess(s, b) ==
    LET more(n) == IF n < Streak THEN n + 1 ELSE n
        r == [s EXCEPT !.balance = b, !.fresh = TRUE]
    IN  CASE b = "low"  -> [r EXCEPT !.low = more(s.low), !.rec = 0, !.locked = s.locked \/ s.low + 1 >= Streak]
          [] b = "high" -> [r EXCEPT !.rec = more(s.rec), !.low = 0, !.locked = s.locked /\ s.rec + 1 < Streak]
          [] OTHER      -> [r EXCEPT !.low = 0, !.rec = 0]

\* The lock table with the rows of one source brought up to date.
SyncBalanceLocks(s, active) == IF active THEN locks.balance \cup {s} ELSE locks.balance \ {s}

------------------------------------------------------------------------------
\* What routing sees of a source's account.
account(s) ==
    IF s = Self THEN [sched |-> up.sched, owns |-> row.owns, free |-> up.ok /\ ~row.lock /\ ~row.manual]
    ELSE [sched |-> peer[s].sched, owns |-> peer[s].owns, free |-> peer[s].ok /\ ~peer[s].lock]

serving(s) == account(s).free /\ account(s).sched /\ s \notin locks.cost

\* Fresh, funded, priced, and its account in service or on standby for cost.
available(S, s) ==
    /\ Rates[s] > 0 /\ S[s].fresh /\ ~S[s].locked
    /\ account(s).free
    /\ account(s).sched \/ (account(s).owns /\ s \in locks.cost)

activationReady(S, s) == S[s].balance = "high" /\ S[s].rec >= Streak

\* The rates the pool should run at: the cheapest of those that serve and those
\* ready to undercut them; when none serves well, of all that are funded.
TargetRates(S) ==
    LET usable  == {s \in Sources : S[s].enabled /\ available(S, s)}
        current == {s \in usable : serving(s)}
        chosen  == IF current # {} THEN current \cup {s \in usable : activationReady(S, s)}
                                   ELSE {s \in usable : S[s].balance # "low"}
    IN  {Rates[s] : s \in {t \in chosen : \A u \in chosen : Rates[t] <= Rates[u]}}

\* Slip: the others are locked although the target does not serve yet.
CostLocks_Slip(S) ==
    LET pool == {s \in Sources : S[s].enabled}
    IN  IF TargetRates(S) = {} THEN locks.cost \cap pool
        ELSE {s \in pool : Rates[s] \notin TargetRates(S)}

\* The cost locks the pool should have: no target, none changes; a target that
\* does not serve yet is only released; one that serves puts the rest on standby.
CostLocks(S) ==
    LET pool   == {s \in Sources : S[s].enabled}
        target == TargetRates(S)
    IN  IF target = {} THEN locks.cost \cap pool
        ELSE IF \A s \in pool : Rates[s] \in target => ~serving(s)
        THEN {s \in locks.cost \cap pool : Rates[s] \notin target}
        ELSE {s \in pool : Rates[s] \notin target}

------------------------------------------------------------------------------
\* The whole table of cost locks is replaced.
SyncCostLocks(balanceLocks, costLocks) == locks' = [balance |-> balanceLocks, cost |-> costLocks]

reconcileCostRouting(S, balanceLocks) == SyncCostLocks(balanceLocks, CostLocks(S))

\* A refresh succeeds: streaks, source lock, account locks, and a routing run,
\* which by itself may find that an account came or went.
refreshLocked(s, b) ==
    /\ src[s].enabled
    /\ IF b = "high" THEN UNCHANGED events ELSE Disturbance
    /\ src' = [src EXCEPT ![s] = applySuccess(src[s], b)]
    /\ reconcileCostRouting(src', SyncBalanceLocks(s, src'[s].locked))
    /\ <<src', locks'>> # <<src, locks>>
    /\ UNCHANGED <<hist, queue, monitor, traffic, wiring, mode, frozen, up, row, pauses, holds, pc, pass, cmd, base, calm, torn, peer>>

\* Three intervals without a successful refresh; or the reading is saved, then
\* the accounts cannot be listed and the locks stay as they are.
RefreshFails(s) ==
    /\ src[s].enabled /\ Disturbance
    /\ \/ src[s].fresh /\ src' = [src EXCEPT ![s].fresh = FALSE]
       \/ \E b \in {"low", "high"} : src' = [src EXCEPT ![s] = applySuccess(src[s], b)]
    /\ src' # src
    /\ UNCHANGED <<hist, queue, monitor, traffic, wiring, mode, frozen, up, row, pauses, holds, locks, pc, pass, cmd, base, calm, torn, peer>>

\* A source is deleted or disabled: its locks go with it, and routing runs.
Delete(s) ==
    /\ src[s].enabled /\ Disturbance
    /\ src' = [src EXCEPT ![s] = [NoReading EXCEPT !.enabled = FALSE, !.fresh = FALSE]]
    /\ reconcileCostRouting(src', SyncBalanceLocks(s, FALSE))
    /\ UNCHANGED <<hist, queue, monitor, traffic, wiring, mode, frozen, up, row, pauses, holds, pc, pass, cmd, base, calm, torn, peer>>

\* A source is created or enabled: its first reading counts, and routing runs.
Create(s, b) ==
    /\ ~src[s].enabled /\ Disturbance
    /\ src' = [src EXCEPT ![s] = applySuccess(NoReading, b)]
    /\ reconcileCostRouting(src', SyncBalanceLocks(s, FALSE))
    /\ UNCHANGED <<hist, queue, monitor, traffic, wiring, mode, frozen, up, row, pauses, holds, pc, pass, cmd, base, calm, torn, peer>>

------------------------------------------------------------------------------
\* The engine's pass over another source's account.
PeerPass(s) ==
    /\ peer' = [peer EXCEPT ![s] =
                  IF @.lock \/ s \in locks.balance \cup locks.cost THEN [@ EXCEPT !.sched = FALSE, !.owns = TRUE]
                  ELSE IF @.owns THEN [@ EXCEPT !.sched = TRUE, !.owns = FALSE] ELSE @]
    /\ peer' # peer /\ pc = "idle"
    /\ UNCHANGED <<engineVars, src>>

\* Another source's account fails, or recovers.
PeerHealth(s) ==
    /\ IF peer[s].lock THEN UNCHANGED events ELSE Disturbance
    /\ peer' = [peer EXCEPT ![s].lock = ~@]
    /\ UNCHANGED <<hist, queue, monitor, traffic, wiring, mode, frozen, up, row, pauses, holds, locks, pc, pass, cmd, base, calm, torn, src>>

RoutingInit ==
    /\ src = [s \in Sources |-> [NoReading EXCEPT !.rec = Streak]]
    /\ peer = [s \in Peers |-> [sched |-> TRUE, owns |-> FALSE, lock |-> FALSE, ok |-> TRUE]]
=============================================================================
