---------------------------- MODULE AccountService ----------------------------
(***************************************************************************)
(* An account from the checks of its monitor to its load upstream: health  *)
(* evaluation, the engine's passes, the account's commands, and the locks  *)
(* of the balance centre, together.                                        *)
(***************************************************************************)
EXTENDS CostRouting

Init == EngineInit /\ RoutingInit

EngineNext ==
    \/ PassStep
    \/ \E item \in Checks \cup {GoodCheck}, late \in BOOLEAN : Check(item, late)
    \/ InsertMonitorHistory
    \/ MonitorStalls
    \/ \E w \in Windows \cup {GoodWindow} : InsertTraffic(w)
    \/ Tick
    \/ CountAutomaticPauses
    \/ \E op \in {"pause", "resume", "load"} : CommandStart(op)
    \/ CommandEnd
    \/ \E op \in {"sched", "load"} : EndOverride(op)
    \/ ClearFlapProtection
    \/ UpdateSettings
    \/ UpdatePolicy
    \/ Freeze
    \/ Unfreeze
    \/ OutsideChange

Balances == {"low", "mid", "high"}

RoutingNext ==
    \/ \E s \in Sources, b \in Balances : refreshLocked(s, b)
    \/ \E s \in Sources : RefreshFails(s)
    \/ \E s \in Sources : Delete(s)
    \/ \E s \in Sources, b \in Balances : Create(s, b)
    \/ \E s \in Peers : PeerPass(s)
    \/ \E s \in Peers : PeerHealth(s)

Next ==
    \/ EngineNext /\ UNCHANGED <<src, peer>>
    \/ RoutingNext

\* What goes on without anybody's doing: time, checks and their storage,
\* traffic that heals, commands and overrides that end, freezes that lapse.
Background ==
    /\ \/ Check(GoodCheck, FALSE)
       \/ InsertMonitorHistory
       \/ InsertTraffic(GoodWindow)
       \/ Tick
       \/ CommandEnd
       \/ \E op \in {"sched", "load"} : EndOverride(op)
       \/ Unfreeze
       \/ OutsideChange /\ UNCHANGED events
    /\ UNCHANGED <<src, peer>>

\* The engine's pass goes on.  Only a pass changes pc, and what it decides need
\* not be evaluated to know that it can: at most it waits for a command.
PassGoesOn ==
    /\ pc \in {"load", "gate"} => cmd = NoCommand
    /\ pc' \in {"idle", "save", "load", "gate"} \ {pc}

Spec == /\ Init /\ [][Next]_vars
        /\ WF_pc(PassGoesOn)
        /\ SF_vars(Background)

------------------------------------------------------------------------------
TrialLoad == LET full == IF base = 0 THEN Concurrency ELSE base
             IN  (full * ResolveSettings.trialPercent + 99) \div 100

\* The engine raises the account's exposure: it resumes it, or raises its load
\* while it serves.
Exposed ==
    /\ pc \in {"load", "gate"} /\ pc' # pc /\ pass.mode = "adaptive"
    /\ up'.sched
    /\ ~up.sched \/ up'.load # up.load

\* An account whose health lock was lifted comes back in stages: until a base
\* hold has gone by a pass exposes it with no more than the trial load, and
\* for as long as the shortest way through the stages takes with less than its
\* full load.  Left out are passes whose load write was blocked or superseded,
\* or replaced an override, and accounts whose row lost a change.
StagedReturn ==
    [][Exposed /\ pass.clean /\ ~torn /\ ~row.over /\ up'.load # 0 =>
         /\ calm = 0 => up'.load <= TrialLoad
         /\ calm < CalmBound => up'.load < (IF base = 0 THEN Concurrency ELSE base)]_vars

\* Nothing keeps the account out of service: no lock, no override, no operator
\* and no flap protection left behind by a pause that was not the engine's.
Unhindered ==
    /\ ResolveBinding = "bound" /\ mode = "adaptive" /\ ~torn
    /\ holds = {} /\ ~BalanceLocked /\ ~CostLocked
    /\ up.sched \/ row.owns
    /\ ~(row.flap /\ ~row.owns)

\* Once the upstream is well and nobody interferes, an account nothing holds
\* back ends up schedulable, with the load factor it was configured with.
BackInService == <>[](Unhindered => up.sched /\ (base # 0 => up.load = base))

\* Routing puts a source on standby only while another serves, and whenever it
\* changes the locks it leaves a usable, funded source open if there is one.
PoolStaysOpen ==
    [][locks'.cost # locks.cost =>
         /\ locks'.cost \ locks.cost # {} => \E s \in Sources \ locks'.cost : serving(s)
         /\ (\E s \in Sources : src'[s].enabled /\ available(src', s) /\ src'[s].balance # "low") =>
                \E s \in Sources \ locks'.cost : src'[s].enabled /\ available(src', s)]_vars
=============================================================================
