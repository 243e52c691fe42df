---------------------------- MODULE HealthControl ----------------------------
(***************************************************************************)
(* One account under the reconcile engine (internal/reconcile/engine.go):  *)
(* the monitor's checks and their detailed history arrive, a pass reads    *)
(* the account and its control row, decides, saves the row back whole,     *)
(* sets the load, then pauses or resumes; administrators' commands and the *)
(* other components write the same account and the same row meanwhile.     *)
(*                                                                         *)
(* The account control service is here what its own modules show it to be: *)
(* one submission per account at a time, refused, blocked, superseded by a *)
(* standing override, or written and recorded.                             *)
(***************************************************************************)
EXTENDS HealthSignals

CONSTANTS
    Checks,         \* the results a check can have besides the good one
    GoodCheck,      \* a check of a healthy upstream
    Windows,        \* the traffic windows the account can show
    GoodWindow,     \* the window of a healthy account
    Wiring, Wirings, \* the rules a binding can have: [excluded, pin, matches, flap]
    Baselines,      \* the load factors the account may start with (0: none set)
    Concurrency,    \* the account's concurrency, its load when none is set
    OverrideLoad,   \* the load factor an administrator sets
    QueueBound,     \* checks telemetry has not stored yet, at most
    EventBound      \* disturbances in a run, at most

VARIABLES
    hist,     \* stored checks of the monitor, the newest last
    queue,    \* checks done and not yet stored by telemetry
    monitor,  \* [alive, status, fresh] upstream, [healthy, unhealthy, phase] as stored
    traffic,  \* the account's traffic window
    wiring,   \* the binding rules
    mode,     \* settings.HealthMode
    frozen,   \* writes are frozen
    up,       \* the account upstream: [sched, load, ok]
    row,      \* its control row
    pauses,   \* automatic pauses recorded inside the flap window
    holds,    \* operations an override stands for: "pause", "load"
    locks,    \* [balance, cost]: the sources whose accounts the lock tables name
    pc,       \* where the engine's pass is: "idle", "save", "load", "gate"
    pass,     \* what the pass knows
    cmd,      \* the command in the account control service
    base,     \* the load factor the operator configured
    calm,     \* base holds since the health lock was lifted (0 while locked)
    torn,     \* the row lost a change: it no longer tells the account's story
    events    \* disturbances so far

engineVars == <<hist, queue, monitor, traffic, wiring, mode, frozen, up, row, pauses,
                holds, locks, pc, pass, cmd, base, calm, torn, events>>

Self      == "self"   \* the source whose account this is
NoPass    == <<>>
NoCommand == [op |-> "none"]
CalmBound == 4
StreakBound == larger(ResolveSettings.failureThreshold,   \* longer streaks decide nothing more
                      larger(ResolveSettings.recoveryThreshold,
                             larger(ResolveSettings.recoverySuccesses, ResolveSettings.flapRecovery)))
Recovery  == {"recovering25", "recovering50", "recovering80"}

------------------------------------------------------------------------------
(* What a pass reads.                                                        *)

\* The binding state of the account.
ResolveBinding ==
    IF wiring.excluded THEN "excluded"
    ELSE IF wiring.pin = "missing" THEN "frozen"
    ELSE IF wiring.pin = "other_platform" THEN "conflict"
    ELSE IF wiring.pin = "monitor" THEN "bound"
    ELSE IF wiring.matches = 0 THEN "unmatched"
    ELSE IF wiring.matches > 1 THEN "conflict"
    ELSE "bound"

\* The streaks the pass stores for the monitor.  A check is counted once, and
\* a pass counts only the newest.
advanceMonitorState ==
    LET grow(n) == IF n < StreakBound THEN n + 1 ELSE n
        stored(h, u, p) == [monitor EXCEPT !.healthy = h, !.unhealthy = u, !.phase = p,
                                           !.fresh = monitor.fresh /\ ~monitor.alive]
    IN  IF ~monitor.alive THEN stored(0, 0, "frozen")
        ELSE IF ~monitor.fresh THEN monitor
        ELSE IF monitor.status = "operational" THEN stored(grow(monitor.healthy), 0, "healthy")
        ELSE IF monitor.status \in {"failed", "error"} THEN stored(0, grow(monitor.unhealthy), "unhealthy")
        ELSE IF monitor.status = "degraded" THEN stored(0, 0, "degraded")
        ELSE stored(0, 0, "unknown")

Usable(m) == m.phase \notin {"frozen", "unknown"}

BaseRecoveryThreshold ==
    IF mode = "adaptive"
    THEN larger(ResolveSettings.recoveryThreshold, ResolveSettings.recoverySuccesses)
    ELSE ResolveSettings.recoveryThreshold

FlapRecovery == larger(BaseRecoveryThreshold, ResolveSettings.flapRecovery)

effectiveRecoveryThreshold(r) == IF r.flap THEN FlapRecovery ELSE BaseRecoveryThreshold

clearFlapState(r) == [r EXCEPT !.flap = FALSE]

\* With n automatic pauses in its window the account earns the protection.
flapEarned(n) == wiring.flap /\ n >= ResolveSettings.flapPauses

\* A pass first lifts a flap protection the rules switched off, or adds the one
\* a locked account has earned.
FlapChecked(r) ==
    CASE r.flap /\ ~wiring.flap -> clearFlapState(r)
      [] ~r.flap /\ r.lock /\ flapEarned(pauses) -> [r EXCEPT !.flap = TRUE]
      [] OTHER -> r

accountCanBeManaged(account) == account.ok

\* A decision older than the newest check may help a recovery that both the
\* summary and the details agree on, when it is only a little behind.
canUseLaggingV3Recovery(m, decision, r) ==
    /\ Len(queue) = 1
    /\ m.status = "operational" /\ m.phase = "healthy"
    /\ decision.successes >= larger(1, effectiveRecoveryThreshold(r))
    /\ m.healthy >= larger(1, effectiveRecoveryThreshold(r))

\* A recovery stage: the load it keeps, the stage it grows to, from which
\* decision and after how many base holds, and the stage it falls back to.
RecoveryStage(stage) ==
    CASE stage = "recovering25" -> [keep |-> 25, next |-> "recovering50", at |-> 50, hold |-> 1]
      [] stage = "recovering50" -> [keep |-> 50, next |-> "recovering80", at |-> 80, hold |-> 2]
      [] stage = "recovering80" -> [keep |-> 80, next |-> "healthy", at |-> 100, hold |-> 3]

\* Slip: the stage grows without having been held.
advanceV3RecoveryStage_Slip(r, load, regress) ==
    IF load >= RecoveryStage(r.stage).at THEN [r EXCEPT !.stage = RecoveryStage(r.stage).next, !.age = 0] ELSE r

\* A stage keeps its load, falls back when the decision asks for less, and
\* grows when it has been held long enough.
advanceV3RecoveryStage(r, load, regress) ==
    LET stage == RecoveryStage(r.stage)
        back  == IF r.stage = "recovering80" THEN loadStageForPercent(load) ELSE "limited25"
    IN  IF load < stage.keep /\ regress THEN [r EXCEPT !.stage = back, !.age = 0]
        ELSE IF load >= stage.at /\ r.age >= stage.hold THEN [r EXCEPT !.stage = stage.next, !.age = 0]
        ELSE r

\* The row after the decision: quarantine, start of a recovery, a recovery
\* stage, or the load stage the decision asks for.
advanceV3HealthControl(r, m, decision) ==
    LET behind == queue # <<>>
        target == loadStageForPercent(decision.load)
        trial  == [limited25 |-> "recovering25", limited50 |-> "recovering50", limited80 |-> "recovering80"]
        usable == ~behind \/ (~decision.pause /\ canUseLaggingV3Recovery(m, decision, r))
        ready  == decision.successes >= effectiveRecoveryThreshold(r) /\ accountCanBeManaged(up)
    IN  IF ~usable THEN r
        ELSE IF decision.pause THEN [r EXCEPT !.lock = TRUE, !.stage = "quarantined", !.age = 0]
        ELSE IF r.lock /\ ~ready THEN r
        ELSE IF r.lock THEN [r EXCEPT !.lock = FALSE, !.stage = "recovering25", !.age = 0]
        ELSE IF behind /\ ~(r.ownsLoad /\ r.stage \in Recovery) THEN r
        ELSE IF r.stage \in Recovery THEN advanceV3RecoveryStage(r, decision.load, ~behind)
        ELSE IF target = "healthy" /\ r.ownsLoad
        THEN [r EXCEPT !.stage = IF r.stage \in DOMAIN trial THEN trial[r.stage] ELSE "healthy", !.age = 0]
        ELSE [r EXCEPT !.stage = target, !.age = 0]

\* The decision for every history and window there can be.
Decisions ==
    [h \in UNION {[1..n -> Checks \cup {GoodCheck}] : n \in 1..Kept}, w \in Windows \cup {GoodWindow}
       |-> healthDecisionFromResult(h, w)]

\* Adaptive mode leaves an account somebody else paused alone, and without
\* usable evidence does no more than mark a row that has no stage.
advanceAdaptiveHealthControl(r, m) ==
    IF ResolveBinding # "bound" \/ (~up.sched /\ ~r.owns) THEN r
    ELSE IF Usable(m) /\ hist # <<>> THEN advanceV3HealthControl(r, m, Decisions[hist, traffic])
    ELSE IF ~r.lock /\ r.stage = "" THEN [r EXCEPT !.stage = "frozen"] ELSE r

\* Legacy mode locks and unlocks by the streaks of the summary.
advanceLegacyHealthControl(r, m) ==
    IF ResolveBinding # "bound" \/ ~Usable(m) \/ ~accountCanBeManaged(up) THEN r
    ELSE CASE m.phase = "unhealthy" /\ m.unhealthy >= ResolveSettings.failureThreshold -> [r EXCEPT !.lock = TRUE]
           [] m.phase = "healthy" /\ m.healthy >= effectiveRecoveryThreshold(r) -> [r EXCEPT !.lock = FALSE]
           [] OTHER -> r

BalanceLocked == Self \in locks.balance
CostLocked    == Self \in locks.cost

------------------------------------------------------------------------------
(* A pass: read and decide, save the row, set the load, pause or resume.     *)

\* The row goes through the flap check, which is committed at once, and the
\* rest of the decision, which waits for the save.
Observe ==
    /\ pc = "idle"
    /\ LET r == FlapChecked(row)
           m == advanceMonitorState
       IN  /\ row' = r
           /\ monitor' = m
           /\ pc' = "save"
           /\ pass' = [ mode |-> mode, read |-> r, up |-> up, clean |-> TRUE,
                        bound |-> ResolveBinding = "bound", locked |-> BalanceLocked \/ CostLocked,
                        row |-> CASE mode = "adaptive" -> advanceAdaptiveHealthControl(r, m)
                                  [] mode = "legacy"   -> advanceLegacyHealthControl(r, m)
                                  [] OTHER             -> r ]
    /\ calm' = IF pass'.row.lock THEN 0 ELSE IF mode = "legacy" THEN CalmBound ELSE calm
    /\ UNCHANGED <<hist, queue, traffic, wiring, mode, frozen, up, pauses, holds, locks, cmd, base, torn, events>>

\* UpsertControl stores every column, whatever happened to the row since.
UpsertControl(r, read) == row' = r /\ torn' = (torn \/ row # read)

Save ==
    /\ pc = "save"
    /\ UpsertControl(pass.row, pass.read)
    /\ pc' = "load" /\ pass' = [pass EXCEPT !.read = pass.row]
    /\ UNCHANGED <<hist, queue, monitor, traffic, wiring, mode, frozen, up, pauses, holds, locks, cmd, base, calm, events>>

\* A share of the load the policy found, of the account's own, or of its concurrency.
desiredLoadFactor(r, account, percent) ==
    LET own  == IF r.ownsLoad THEN r.orig ELSE account.load
        full == larger(1, IF own > 0 THEN own ELSE Concurrency)
    IN  larger(1, (full * larger(1, percent) + 99) \div 100)

loadControlExpired(r) == r.over /\ "load" \notin holds

\* The load a pass wants: the share of the stage, or the restored baseline; the
\* other modes only undo an override that has lapsed.
LoadTarget ==
    LET r == pass.row
        s == ResolveSettings
        percent == CASE r.stage \in {"limited80", "recovering80"} -> 80
                     [] r.stage = "limited50"                     -> s.degradedPercent
                     [] r.stage \in {"limited25", "recovering25"} -> s.trialPercent
                     [] r.stage = "recovering50"                  -> s.midPercent
                     [] OTHER                                     -> 0
        restored == [to |-> r.orig, restore |-> TRUE]
        lapsed == IF pass.mode = "adaptive" THEN r.stage = "healthy" /\ (r.ownsLoad \/ loadControlExpired(r))
                  ELSE pass.mode = "legacy" /\ loadControlExpired(r)
    IN  IF pass.mode = "adaptive" /\ ~pass.bound THEN {}
        ELSE IF pass.mode = "adaptive" /\ percent > 0
        THEN {[to |-> desiredLoadFactor(r, pass.up, percent), restore |-> FALSE]}
        ELSE IF lapsed THEN {restored} ELSE {}

\* What restoring the baseline does to a row.
Restored(r) == [r EXCEPT !.ownsLoad = FALSE, !.orig = 0, !.over = FALSE, !.stage = "healthy", !.age = 0]

\* The upstream already has the load, and the row knows it is the policy's.
automaticLoadNoop(t) ==
    /\ pass.mode = "adaptive"
    /\ pass.up.load = t.to
    /\ "load" \notin holds
    /\ t.restore \/ pass.row.ownsLoad

\* What the account control service makes of a policy's submission.
Verdict(op, increase, cooldown) ==
    IF op \in holds THEN "superseded"
    ELSE IF frozen THEN "blocked"
    ELSE IF increase /\ (~up.ok \/ row.lock \/ BalanceLocked \/ CostLocked) THEN "refused"
    ELSE IF (pass.bound /\ ~monitor.alive) \/ cooldown THEN "blocked"
    ELSE "write"

unsafeLoad(to) == IF to = 0 THEN up.load # 0 ELSE to > (IF up.load = 0 THEN 100 ELSE up.load)

\* Slip: every reduction records the load it found as the original one.
LoadRecorded_Slip(r, t) ==
    IF t.restore THEN Restored(r)
    ELSE [r EXCEPT !.orig = up.load, !.ownsLoad = TRUE, !.over = FALSE]

\* The row after the service set the load for the policy.
LoadRecorded(r, t) ==
    IF t.restore THEN Restored(r)
    ELSE [r EXCEPT !.orig = IF r.orig = 0 THEN up.load ELSE r.orig, !.ownsLoad = TRUE, !.over = FALSE]

SetLoad(t) ==
    /\ cmd = NoCommand
    /\ LET v == Verdict("load", unsafeLoad(t.to), pass.row.flap)
       IN  \/ /\ v \in {"superseded", "blocked"}
              /\ pc' = "gate" /\ pass' = [pass EXCEPT !.clean = FALSE]
              /\ UNCHANGED <<up, row, events>>
           \/ /\ v = "refused"
              /\ pc' = "idle" /\ pass' = NoPass
              /\ UNCHANGED <<up, row, events>>
           \/ /\ v = "write"
              /\ up' = [up EXCEPT !.load = t.to]
              /\ row' = LoadRecorded(row, t)
              /\ pc' = "gate" /\ pass' = [pass EXCEPT !.clean = ~pass.row.over]
              /\ UNCHANGED events
           \/ /\ v = "write" /\ events < EventBound   \* the write fails: the pass ends with its error
              /\ events' = events + 1
              /\ pc' = "idle" /\ pass' = NoPass
              /\ UNCHANGED <<up, row>>

\* The load already stands: a row that does not say so is repaired.
LoadStands(t) ==
    /\ cmd.op # "load"
    /\ LET r == IF t.restore THEN Restored(pass.row) ELSE pass.row
       IN  /\ IF r = pass.row THEN UNCHANGED <<row, torn>> ELSE UpsertControl(r, pass.read)
           /\ pc' = "gate" /\ pass' = [pass EXCEPT !.row = r, !.read = r]
    /\ UNCHANGED <<up, events>>

reconcileAdaptiveLoad ==
    /\ pc = "load"
    /\ \/ /\ LoadTarget = {}
          /\ pc' = "gate" /\ UNCHANGED pass
          /\ UNCHANGED <<up, row, torn, events>>
       \/ \E t \in LoadTarget : automaticLoadNoop(t) /\ LoadStands(t)
       \/ \E t \in LoadTarget : ~automaticLoadNoop(t) /\ SetLoad(t) /\ UNCHANGED torn
    /\ UNCHANGED <<hist, queue, monitor, traffic, wiring, mode, frozen, pauses, holds, locks, cmd, base, calm>>

\* A pause that is written counts toward the flap threshold when it is the
\* health lock's; one that finds the account paused only takes it over.
applyPause ==
    LET counted == up.sched /\ pass.row.lock
        n       == IF counted /\ pauses < ResolveSettings.flapPauses THEN pauses + 1 ELSE pauses
    IN  /\ Verdict("sched", FALSE, pass.row.flap) = "write"
        /\ up' = [up EXCEPT !.sched = FALSE]
        /\ pauses' = n
        /\ row' = [row EXCEPT !.owns = TRUE, !.manual = FALSE, !.flap = row.flap \/ (counted /\ flapEarned(n))]

\* The flap protection the pass found does not stop the resume that ends it.
applyResume ==
    /\ Verdict("sched", TRUE, FALSE) = "write"
    /\ up' = [up EXCEPT !.sched = TRUE]
    /\ row' = [row EXCEPT !.owns = FALSE, !.manual = FALSE, !.flap = FALSE]
    /\ UNCHANGED pauses

\* Pause when any lock the pass knows of stands, else resume what is owned.
\* Observe mode only records what it would do, with the whole row.
Gate ==
    LET locked == pass.row.lock \/ pass.locked
        verdict == Verdict("sched", ~locked, locked /\ pass.row.flap)
    IN  /\ pc = "gate"
        /\ pc' = "idle" /\ pass' = NoPass
        /\ \/ /\ ~locked /\ ~pass.row.owns
              /\ UNCHANGED <<up, row, pauses, torn, events>>
           \/ /\ locked \/ pass.row.owns
              /\ pass.mode = "observe"
              /\ UpsertControl(pass.row, pass.row)
              /\ UNCHANGED <<up, pauses, events>>
           \/ /\ locked \/ pass.row.owns
              /\ pass.mode # "observe" /\ cmd = NoCommand
              /\ \/ verdict # "write" /\ UNCHANGED <<up, row, pauses, events>>
                 \/ locked /\ applyPause /\ UNCHANGED events
                 \/ ~locked /\ applyResume /\ UNCHANGED events
                 \/ /\ verdict = "write" /\ events < EventBound   \* the write fails
                    /\ events' = events + 1
                    /\ UNCHANGED <<up, row, pauses>>
              /\ UNCHANGED torn
        /\ UNCHANGED <<hist, queue, monitor, traffic, wiring, mode, frozen, holds, locks, cmd, base, calm>>

PassStep == Observe \/ Save \/ reconcileAdaptiveLoad \/ Gate

------------------------------------------------------------------------------
(* The monitor, telemetry, time.                                             *)

AllGood == Len(hist) = Kept /\ \A i \in 1..Kept : hist[i] = GoodCheck

\* Further good checks would change nothing any more.
Settled == /\ queue = <<>> /\ AllGood
           /\ monitor.alive /\ monitor.phase = "healthy" /\ monitor.healthy = StreakBound

\* The checks an evaluation reads: no more than the long window.
ListMonitorHistory(s) == SubSeq(s, larger(1, Len(s) - Kept + 1), Len(s))

\* Telemetry stores checks that lie behind the newest it has.
InsertMonitorHistoryBatch(items) == hist' = ListMonitorHistory(hist \o items)

\* The upstream's monitor finishes a check.  Telemetry stores a good one at
\* once; one that disturbs, and a good one that is budgeted as late, waits.
Check(item, late) ==
    /\ Len(queue) < QueueBound
    /\ monitor' = [monitor EXCEPT !.alive = TRUE, !.fresh = TRUE, !.status = item.status]
    /\ IF late THEN /\ events < EventBound /\ events' = events + 1
                    /\ queue' = Append(queue, item) /\ UNCHANGED hist
               ELSE /\ item = GoodCheck /\ pc = "idle" /\ ~Settled
                    /\ InsertMonitorHistoryBatch(Append(queue, item))
                    /\ queue' = <<>> /\ UNCHANGED events
    /\ UNCHANGED <<traffic, wiring, mode, frozen, up, row, pauses, holds, locks, pc, pass, cmd, base, calm, torn>>

\* A telemetry run stores the checks it has not stored yet.
InsertMonitorHistory ==
    /\ pc = "idle" /\ queue # <<>>
    /\ InsertMonitorHistoryBatch(queue)
    /\ queue' = <<>>
    /\ UNCHANGED <<monitor, traffic, wiring, mode, frozen, up, row, pauses, holds, locks, pc, pass, cmd, base, calm, torn, events>>

\* The monitor stops, or is disabled.
MonitorStalls ==
    /\ monitor.alive /\ events < EventBound
    /\ monitor' = [monitor EXCEPT !.alive = FALSE]
    /\ events' = events + 1
    /\ UNCHANGED <<hist, queue, traffic, wiring, mode, frozen, up, row, pauses, holds, locks, pc, pass, cmd, base, calm, torn>>

\* Other requests enter the traffic window.
InsertTraffic(w) ==
    /\ pc = "idle" /\ w # traffic
    /\ IF w = GoodWindow THEN UNCHANGED events ELSE events < EventBound /\ events' = events + 1
    /\ traffic' = w
    /\ UNCHANGED <<hist, queue, monitor, wiring, mode, frozen, up, row, pauses, holds, locks, pc, pass, cmd, base, calm, torn>>

Aged(r) == IF r.stage \in Recovery /\ r.age < RecoveryStage(r.stage).hold THEN [r EXCEPT !.age = r.age + 1] ELSE r

\* One base hold goes by; start times are absolute, so every copy ages.
Tick ==
    /\ pc = "idle"
    /\ row' = Aged(row)
    /\ cmd' = IF cmd = NoCommand THEN cmd ELSE [cmd EXCEPT !.row = Aged(cmd.row)]
    /\ calm' = IF row.lock \/ calm = CalmBound THEN calm ELSE calm + 1
    /\ <<row', calm'>> # <<row, calm>>
    /\ UNCHANGED <<hist, queue, monitor, traffic, wiring, mode, frozen, up, pauses, holds, locks, pc, pass, base, torn, events>>

------------------------------------------------------------------------------
(* Commands, freezes, settings, and what happens upstream.                   *)

Disturbance == events < EventBound /\ events' = events + 1

\* A command passed the checks of the account control service and holds the
\* account; the row it loaded is the one it will store.
CommandStart(op) ==
    /\ cmd = NoCommand /\ Disturbance
    /\ ~frozen
    /\ op = "resume" \/ (op = "load" /\ unsafeLoad(OverrideLoad)) =>
           up.ok /\ ~row.lock /\ ~BalanceLocked /\ ~CostLocked
    /\ cmd' = [op |-> op, row |-> row]
    /\ UNCHANGED <<hist, queue, monitor, traffic, wiring, mode, frozen, up, row, pauses, holds, locks, pc, pass, base, calm, torn>>

\* updateControl for an administrator's command, on the row loaded before.
updateControl(r, op) ==
    CASE op = "pause"  -> [r EXCEPT !.owns = TRUE, !.manual = TRUE]
      [] op = "resume" -> [r EXCEPT !.owns = FALSE, !.manual = FALSE]
      [] op = "load"   -> [r EXCEPT !.orig = IF r.orig = 0 THEN up.load ELSE r.orig,
                                    !.ownsLoad = FALSE, !.over = TRUE]

CommandEnd ==
    /\ cmd # NoCommand
    /\ up' = CASE cmd.op = "pause"  -> [up EXCEPT !.sched = FALSE]
               [] cmd.op = "resume" -> [up EXCEPT !.sched = TRUE]
               [] cmd.op = "load"   -> [up EXCEPT !.load = OverrideLoad]
    /\ UpsertControl(updateControl(cmd.row, cmd.op), cmd.row)
    /\ holds' = holds \cup {IF cmd.op = "load" THEN "load" ELSE "sched"}
    /\ cmd' = NoCommand
    /\ UNCHANGED <<hist, queue, monitor, traffic, wiring, mode, frozen, pauses, locks, pc, pass, base, calm, events>>

\* An override lapses; the expiry worker asks for a pass.
EndOverride(op) ==
    /\ op \in holds
    /\ holds' = holds \ {op}
    /\ UNCHANGED <<hist, queue, monitor, traffic, wiring, mode, frozen, up, row, pauses, locks, pc, pass, cmd, base, calm, torn, events>>

\* A recorded pause leaves the flap window.
CountAutomaticPauses ==
    /\ pc = "idle" /\ pauses > 0 /\ Disturbance
    /\ pauses' = pauses - 1
    /\ UNCHANGED <<hist, queue, monitor, traffic, wiring, mode, frozen, up, row, holds, locks, pc, pass, cmd, base, calm, torn>>

\* An administrator ends the flap protection.
ClearFlapProtection ==
    /\ row.flap
    /\ row' = clearFlapState(row)
    /\ UNCHANGED <<hist, queue, monitor, traffic, wiring, mode, frozen, up, pauses, holds, locks, pc, pass, cmd, base, calm, torn, events>>

\* Settings and binding rules change between two passes: both wait for the
\* engine's lock.
UpdateSettings ==
    /\ pc = "idle" /\ Disturbance
    /\ mode' \in {"legacy", "observe", "adaptive"} \ {mode}
    /\ UNCHANGED <<hist, queue, monitor, traffic, wiring, frozen, up, row, pauses, holds, locks, pc, pass, cmd, base, calm, torn>>

UpdatePolicy ==
    /\ pc = "idle" /\ Disturbance
    /\ wiring' \in Wirings \ {wiring}
    /\ UNCHANGED <<hist, queue, monitor, traffic, mode, frozen, up, row, pauses, holds, locks, pc, pass, cmd, base, calm, torn>>

Freeze ==
    /\ ~frozen /\ Disturbance
    /\ frozen' = TRUE
    /\ UNCHANGED <<hist, queue, monitor, traffic, wiring, mode, up, row, pauses, holds, locks, pc, pass, cmd, base, calm, torn>>

Unfreeze ==
    /\ frozen
    /\ frozen' = FALSE
    /\ UNCHANGED <<hist, queue, monitor, traffic, wiring, mode, up, row, pauses, holds, locks, pc, pass, cmd, base, calm, torn, events>>

\* Somebody pauses the account in the upstream's own console, or the upstream
\* reports an error of it, which later goes away.
OutsideChange ==
    /\ \/ up.sched /\ Disturbance /\ up' = [up EXCEPT !.sched = FALSE]
       \/ up.ok /\ Disturbance /\ up' = [up EXCEPT !.ok = FALSE]
       \/ ~up.ok /\ up' = [up EXCEPT !.ok = TRUE] /\ UNCHANGED events
    /\ UNCHANGED <<hist, queue, monitor, traffic, wiring, mode, frozen, row, pauses, holds, locks, pc, pass, cmd, base, calm, torn>>

NewRow == [ lock |-> FALSE, stage |-> "", age |-> 0, owns |-> FALSE, manual |-> FALSE,
            ownsLoad |-> FALSE, orig |-> 0, flap |-> FALSE, over |-> FALSE ]

\* An account in service with a clean record.
EngineInit ==
    /\ hist = [i \in 1..Kept |-> GoodCheck] /\ queue = <<>>
    /\ monitor = [alive |-> TRUE, status |-> "operational", fresh |-> FALSE,
                  healthy |-> StreakBound, unhealthy |-> 0, phase |-> "healthy"]
    /\ traffic = GoodWindow /\ wiring = Wiring /\ mode = "adaptive"
    /\ frozen = FALSE /\ base \in Baselines
    /\ up = [sched |-> TRUE, load |-> base, ok |-> TRUE]
    /\ row = NewRow /\ pauses = 0 /\ holds = {}
    /\ locks = [balance |-> {}, cost |-> {}]
    /\ pc = "idle" /\ pass = NoPass /\ cmd = NoCommand
    /\ calm = CalmBound /\ torn = FALSE /\ events = 0
=============================================================================
