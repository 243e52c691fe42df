---------------------------- MODULE AgentRuntime ----------------------------
(***************************************************************************)
(* The agent runtime (internal/agent): a lane worker that runs a persistent *)
(* goal turn by turn, the scheduled command worker that also reconciles     *)
(* uncertain writes, the administrator and a process that may crash, over   *)
(* the rows of AgentWork.                                                   *)
(*                                                                         *)
(* The goal writes to the resource "now" (a tool call) and schedules a      *)
(* command that writes to "later".  `world` is the managed system, `snap`   *)
(* the engine's in-memory snapshot that readbacks use.  A write whose call  *)
(* has ended is decided: it took effect or it never will.                   *)
(***************************************************************************)
EXTENDS AgentWork

CONSTANTS
    Classes,        \* how the managed capability is read back: "readable", "unreadable", "group"
    MaxEvents,      \* faults and interventions: freeze, crash, edit, cancel, expiry, uncertain answer
    MaxSteps,       \* mutating tool calls of the goal
    MaxCommands

ASSUME AgentRuntimeAssumption ==
    /\ Classes \subseteq {"readable", "unreadable", "group"}
    /\ {MaxEvents, MaxSteps, MaxCommands} \subseteq Nat

VARIABLES
    env,        \* what the goal is: its origin, its intent's capabilities, the class
    goal, token, steps, failure, settled, cmds, consumed, frozen,     \* durable
    world,      \* the managed system
    snap, fresh,    \* the snapshot, and the writes it is newer than
    lane,       \* the lane worker: where it is, its copy of the goal
    cw,         \* the command worker: where it is, the commands it claimed
    events,
    unknown,    \* writes whose outcome the code has not established
    effect,     \* commands whose own effect stands in the managed system
    entered,    \* the grants under which a write was entered, with the step
    doubled     \* a command's write took effect while its earlier effect stood

durable == <<goal, token, steps, failure, settled, cmds, consumed>>
history == <<unknown, effect, entered, doubled>>
vars == <<env, durable, frozen, world, snap, fresh, lane, cw, events, history>>

Event == events < MaxEvents /\ events' = events + 1
LaneIdle == [pc |-> "idle"]
WorkerIdle == [pc |-> "idle", queue |-> {}]
NoFailure == [call |-> NoCall, count |-> 0]

\* The class "group" differs from "readable" for scheduled commands only; "daily" is
\* a goal without direct writes: a daily report, or an operator mode that forbids them.
Origins ==
    {o \in [from : {"confirm", "admin", "background", "daily"}, caps : {{"write"}, {"schedule", "cancel"}},
            class : Classes] :
        /\ IF "write" \in o.caps THEN o.class # "group" ELSE o.from \in {"admin", "background"}
        /\ o.from = "daily" => o.class = "readable"}
Chat == env.from \in {"confirm", "admin"}     \* it has a chat intent and grants

\* EnqueueChatGoal: an intent that must be confirmed waits, with its token
ChatGoal == NewGoal(IF env.from = "confirm" THEN "waiting" ELSE "planned")
\* ChatAsync, or enqueueAnalysisGoal
Init ==
    /\ env \in Origins
    /\ goal = IF Chat THEN ChatGoal ELSE NewGoal("planned")
    /\ token = IF env.from = "confirm" THEN "pending" ELSE "none"
    /\ steps = <<>> /\ failure = NoFailure /\ settled = FALSE /\ cmds = <<>> /\ consumed = {}
    /\ frozen = FALSE
    /\ world = [now |-> "base", later |-> "base"] /\ snap = world /\ fresh = {}
    /\ lane = LaneIdle /\ cw = WorkerIdle /\ events = 0
    /\ unknown = {} /\ effect = {} /\ entered = {} /\ doubled = FALSE

-----------------------------------------------------------------------------
(* The lane worker.  Its copy of the goal, `lane.mine`, is stored back whole. *)

Stop(status) ==
    /\ goal' = [lane.mine EXCEPT !.status = status]
    /\ lane' = LaneIdle
Continue(mine) == lane' = [lane EXCEPT !.pc = "turn", !.mine = mine] /\ goal' = mine
OutsideLane == <<env, token, cmds, frozen, world, snap, fresh, cw, unknown, effect, doubled>>

\* ClaimAgentGoal
GoalClaimable == goal.status = "planned"
\* runtimeMessages forgets the last failure when a step was settled after the checkpoint
Remembered == IF settled THEN NoFailure ELSE failure
\* processNextRuntimeGoalLane and runRuntimeGoalLease up to its loop.  A goal that
\* cannot start (waitGoal) is planned again: no change.
ClaimGoal ==
    /\ lane.pc = "idle" /\ ~frozen /\ GoalClaimable
    /\ goal' = [goal EXCEPT !.status = "running"]
    /\ lane' = [pc |-> "turn", mine |-> goal', step |-> 0]
    /\ failure' = Remembered
    /\ UNCHANGED <<OutsideLane, steps, settled, consumed, entered, events>>

\* checkpointRuntimeYield: the lease ended, or the agent is frozen; the model
\* attempt under way may have been counted
Yield ==
    /\ lane.pc = "turn"
    /\ \E n \in {0, 1}, over \in BOOLEAN :
         LET mine == [lane.mine EXCEPT !.turns = @ + n]
         IN  /\ (over \/ frozen) /\ mine.turns <= MaxModelAttempts
             /\ over => Event
             /\ ~over => UNCHANGED events
             /\ goal' = [mine EXCEPT !.status = IF over THEN "planned" ELSE "waiting"]
    /\ lane' = LaneIdle /\ settled' = FALSE
    /\ UNCHANGED <<OutsideLane, steps, failure, consumed, entered>>

\* the hard limit of model calls: failGoalClass with a dead letter
OutOfTurns ==
    /\ lane.pc = "turn" /\ ~frozen /\ lane.mine.turns >= MaxModelAttempts /\ Stop("failed")
    /\ UNCHANGED <<OutsideLane, steps, failure, settled, consumed, entered, events>>

Turn == lane.pc = "turn" /\ ~frozen /\ lane.mine.turns < MaxModelAttempts
\* the attempt is counted when the model answered
Counted == [lane.mine EXCEPT !.turns = @ + 1]

\* completeRuntimeTurn asks a second provider, or the same one without tools: the
\* attempt counts, in memory
Fallback ==
    /\ Turn /\ Event /\ Counted.turns < MaxModelAttempts /\ lane' = [lane EXCEPT !.mine = Counted]
    /\ UNCHANGED <<OutsideLane, goal, steps, failure, settled, consumed, entered>>

\* completeRuntimeGoal
Conclude ==
    /\ Turn /\ goal' = [Counted EXCEPT !.status = "completed"] /\ lane' = LaneIdle
    /\ UNCHANGED <<OutsideLane, steps, failure, settled, consumed, entered, events>>

\* repairRuntimeContract: one repair, then the goal fails
BadContract ==
    LET mine == [Counted EXCEPT !.contract = @ + 1]
    IN  /\ Turn /\ Event /\ settled' = FALSE
        /\ IF mine.contract > 1 THEN goal' = [mine EXCEPT !.status = "failed"] /\ lane' = LaneIdle
           ELSE Continue(mine)
        /\ UNCHANGED <<OutsideLane, steps, failure, consumed, entered>>

\* retryProviderGoal, and a provider error that is not retryable
ProviderError(retryable) ==
    LET mine == [Counted EXCEPT !.provider = IF retryable THEN @ + 1 ELSE @]
    IN  /\ Turn /\ Event /\ lane' = LaneIdle
        /\ goal' = [mine EXCEPT !.status = IF retryable /\ mine.provider < GoalMaxAttempts
                                           THEN "planned" ELSE "failed"]
        /\ UNCHANGED <<OutsideLane, steps, failure, settled, consumed, entered>>

\* a read-only tool call succeeds: its step is completed, the last failure forgotten
Read ==
    /\ Turn /\ Continue(Counted) /\ failure' = NoFailure /\ settled' = FALSE
    /\ UNCHANGED <<OutsideLane, steps, consumed, entered, events>>

\* recordRuntimeFailureFingerprint
Failed(c) == IF failure.call = c THEN [failure EXCEPT !.count = @ + 1] ELSE [call |-> c, count |-> 1]

\* Slip: a step under reconciliation does not stop the same call.
Quarantined_Slip(c) == FALSE
\* the same call, in the same words, is still being reconciled
Quarantined(c) == \E i \in DOMAIN steps : steps[i].call = c /\ steps[i].status = "reconciling"

\* enforceChatIntentCapability: an intent that needs a confirmation has it
Allowed(c) == ~Chat \/ (c.cap \in env.caps /\ (env.from = "confirm" => lane.mine.confirmed))

\* the daily report's rule and capabilityExecutionMode
Permitted == env.from # "daily"

\* The model asks for a mutating call: refused after two failures (the goal fails),
\* warned after one, refused outside the intent, while the same call is being
\* reconciled or by the mode, otherwise a running step.
CallTool(c) ==
    /\ Turn /\ Len(steps) < MaxSteps /\ (~Chat => c.cap \in env.caps)
    /\ IF failure.call = c /\ failure.count >= 2
       THEN /\ goal' = [Counted EXCEPT !.status = "failed"] /\ lane' = LaneIdle /\ settled' = FALSE
            /\ UNCHANGED <<steps, failure>>
       ELSE IF failure.call = c
       THEN Continue(Counted) /\ failure' = [failure EXCEPT !.count = 2] /\ settled' = FALSE /\ UNCHANGED steps
       ELSE IF ~Allowed(c) \/ Quarantined(c) \/ ~Permitted
       THEN /\ steps' = Append(steps, NewStep(c, IF Allowed(c) /\ Quarantined(c) THEN "skipped" ELSE "failed"))
            /\ Continue(Counted) /\ failure' = Failed(c) /\ settled' = FALSE
       ELSE /\ steps' = Append(steps, NewStep(c, "running")) /\ goal' = Counted
            /\ lane' = [lane EXCEPT !.pc = "step", !.mine = Counted, !.step = Len(steps) + 1]
            /\ UNCHANGED <<failure, settled>>
    /\ UNCHANGED <<OutsideLane, consumed, entered, events>>

\* executeMutationCapability, whatever the capability writes
Written(landed, r) == IF landed THEN [world EXCEPT ![r] = "target"] ELSE world

Settle(status) == steps' = [steps EXCEPT ![lane.step].status = status]
Current == steps[lane.step].call

Baseline(r) == snap[r]      \* capabilityState
MarkedStep(s, seen) == [s EXCEPT !.marked = TRUE, !.before = seen]  \* RecordAgentStepMutationAttempt
\* The baseline and the marker; when the lease is over the marker is refused and the
\* goal planned again, its step left running.
MarkStep(over) ==
    /\ lane.pc = "step"
    /\ IF over THEN Stop("planned") /\ Event /\ UNCHANGED steps
       ELSE /\ steps' = [steps EXCEPT ![lane.step] = MarkedStep(@, Baseline("now"))]
            /\ lane' = [lane EXCEPT !.pc = "gate"] /\ UNCHANGED <<goal, events>>
    /\ UNCHANGED <<OutsideLane, failure, settled, consumed, entered>>

\* administratorGrantForInvocation: derived from the exact arguments
Grant(c) == <<c.cap, c.words>>
Granted == Chat
FailStep == Settle("failed") /\ failure' = Failed(Current) /\ settled' = FALSE /\ Continue(lane.mine)

\* The freeze is checked after the gate was opened and again, under the barrier,
\* by ExecuteCapability, which then consumes the grant.
EnterCapability ==
    /\ lane.pc = "gate"
    /\ IF frozen
       THEN /\ \/ Settle("skipped") /\ Stop("waiting") /\ settled' = FALSE /\ UNCHANGED failure
               \/ FailStep
            /\ UNCHANGED <<consumed, entered>>
       ELSE IF Granted /\ ~Consumable(consumed, Grant(Current), lane.step)
       THEN FailStep /\ UNCHANGED <<consumed, entered>>
       ELSE /\ lane' = [lane EXCEPT !.pc = "call"]
            /\ consumed' = consumed \cup (IF Granted THEN {[grant |-> Grant(Current), step |-> lane.step]} ELSE {})
            /\ entered' = entered \cup (IF Granted THEN {[grant |-> Grant(Current), step |-> lane.step]} ELSE {})
            /\ UNCHANGED <<goal, steps, failure, settled>>
    /\ UNCHANGED <<OutsideLane, events>>

StepCompleted == Settle("completed") /\ failure' = NoFailure /\ settled' = FALSE /\ Continue(lane.mine)

\* executeMutationCapability on the managed system: done, refused, or uncertain.
\* An uncertain step is quarantined and its goal planned again.
WriteNow(outcome, landed) ==
    /\ lane.pc = "call" /\ Current.cap = "write"
    /\ outcome = "done" => landed
    /\ outcome = "refused" => ~landed
    /\ world' = Written(landed, "now")
    /\ CASE outcome = "done" -> StepCompleted /\ UNCHANGED <<unknown, fresh, events>>
         [] outcome = "refused" -> FailStep /\ Event /\ UNCHANGED <<unknown, fresh>>
         [] outcome = "uncertain" ->
              /\ Event /\ Settle("reconciling") /\ Stop("planned")
              /\ failure' = [call |-> Current, count |-> 2] /\ settled' = FALSE
              /\ unknown' = unknown \cup {<<"step", lane.step>>} /\ fresh' = fresh \ {<<"step", lane.step>>}
    /\ UNCHANGED <<env, token, cmds, consumed, frozen, snap, cw, effect, entered, doubled>>

\* schedule_command: a new occurrence of the same target call, keyed by the step
Schedule ==
    /\ lane.pc = "call" /\ Current.cap = "schedule" /\ StepCompleted
    /\ cmds' = IF Len(cmds) < MaxCommands THEN Append(cmds, NewCommand(lane.step)) ELSE cmds
    /\ UNCHANGED <<env, token, consumed, frozen, world, snap, fresh, cw, events, history>>

\* cancel_scheduled_command
Cancel ==
    /\ lane.pc = "call" /\ Current.cap = "cancel"
    /\ \/ \E i \in DOMAIN cmds : /\ Cancellable(cmds[i]) /\ StepCompleted
                                 /\ cmds' = [cmds EXCEPT ![i].status = "cancelled"]
       \/ (\A i \in DOMAIN cmds : ~Cancellable(cmds[i])) /\ FailStep /\ UNCHANGED cmds
    /\ UNCHANGED <<env, token, consumed, frozen, world, snap, fresh, cw, events, history>>

-----------------------------------------------------------------------------
(* The command worker: reconciliation first, then the due commands in turn.  *)

OutsideWorker == <<env, token, failure, frozen, snap, lane>>
Head1 == Min(cw.queue)        \* in the order of the rows
Next1 == cw' = [pc |-> IF cw.queue = {Head1} THEN "idle" ELSE "work", queue |-> cw.queue \ {Head1}]

\* scheduledCommandWorker with ClaimDueScheduledCommands
ClaimDue ==
    LET after == [i \in DOMAIN cmds |-> Claimed(cmds[i])]
        due == {i \in DOMAIN cmds : after[i].status = "leased"}
    IN  /\ cw.pc = "idle" /\ ~frozen /\ (after # cmds \/ due # {})
        /\ cmds' = after
        /\ cw' = IF due = {} THEN WorkerIdle ELSE [pc |-> "work", queue |-> due]
        /\ UNCHANGED <<OutsideWorker, goal, steps, settled, consumed, world, fresh, events, history>>

\* executeScheduledCommand up to the gate: deferred while frozen (a deferral that
\* fails leaves the row leased), otherwise the baseline and the marker
StartCommand(lost) ==
    /\ cw.pc = "work" /\ (lost => frozen)
    /\ IF frozen
       THEN /\ cmds' = IF lost THEN cmds ELSE [cmds EXCEPT ![Head1] = Deferred(@)]
            /\ Next1 /\ IF lost THEN Event ELSE UNCHANGED events
       ELSE /\ cmds' = [cmds EXCEPT ![Head1] = Marked(@, Baseline("later"))]
            /\ cw' = [cw EXCEPT !.pc = "gate"] /\ UNCHANGED events
    /\ UNCHANGED <<OutsideWorker, goal, steps, settled, consumed, world, fresh, history>>

Later == <<"later">>    \* the target call's grant: the same for every occurrence
\* ExecuteCapability for the command: a freeze defers it, a consumed grant fails it
EnterCommand ==
    LET use == IF Granted THEN {[grant |-> Later, step |-> cmds[Head1].step]} ELSE {}
    IN  /\ cw.pc = "gate"
        /\ IF frozen THEN cmds' = [cmds EXCEPT ![Head1] = Deferred(@)] /\ Next1 /\ UNCHANGED <<consumed, entered>>
           ELSE IF Granted /\ ~Consumable(consumed, Later, cmds[Head1].step)
           THEN cmds' = [cmds EXCEPT ![Head1] = FailedCommand(@)] /\ Next1 /\ UNCHANGED <<consumed, entered>>
           ELSE /\ cw' = [cw EXCEPT !.pc = "call"] /\ consumed' = consumed \cup use
                /\ entered' = entered \cup use /\ UNCHANGED cmds
        /\ UNCHANGED <<OutsideWorker, goal, steps, settled, world, fresh, events, unknown, effect, doubled>>

Landing(i, landed) ==
    /\ effect' = IF landed THEN effect \cup {i} ELSE effect
    /\ doubled' = (doubled \/ (landed /\ i \in effect))

\* executeScheduledCommand on the answer.  "unrecorded": the write was done and the
\* row's completion failed, which leaves the row leased until the lease lapses.
WriteLater(outcome, landed) ==
    /\ cw.pc = "call"
    /\ outcome \in {"done", "unrecorded"} => landed
    /\ outcome = "refused" => ~landed
    /\ world' = Written(landed, "later") /\ Landing(Head1, landed)
    /\ cmds' = [cmds EXCEPT ![Head1] = CASE outcome = "done" -> CompletedCommand(@)
                                           [] outcome = "refused" -> FailedCommand(@)
                                           [] outcome = "uncertain" -> MarkedReconciling(@)
                                           [] OTHER -> @]
    /\ IF outcome \in {"uncertain", "unrecorded"}
       THEN unknown' = unknown \cup {<<"cmd", Head1>>} /\ fresh' = fresh \ {<<"cmd", Head1>>}
       ELSE UNCHANGED <<unknown, fresh>>
    /\ IF outcome = "unrecorded" THEN Event ELSE UNCHANGED events
    /\ Next1
    /\ UNCHANGED <<OutsideWorker, goal, steps, settled, consumed, entered>>

\* resumeGoalAfterReconciliation: the goal is read here ...
Resume(after) ==
    IF (\E i \in DOMAIN after : after[i].status = "reconciling") \/ goal.status \in GoalDone
    THEN UNCHANGED cw ELSE cw' = [pc |-> "resume", queue |-> {}, seen |-> goal]
\* ... and stored whole here, whatever became of it in between
ResumeGoal ==
    /\ cw.pc = "resume" /\ goal' = [cw.seen EXCEPT !.status = "planned"] /\ cw' = WorkerIdle
    /\ UNCHANGED <<OutsideWorker, steps, settled, cmds, consumed, world, fresh, events, history>>

\* reconciliationReadbackFresh
Fresh(write) == write \in fresh

\* reconcileScheduledCommand
ReconcileCommand(i) ==
    LET after == Reconciled(cmds[i], env.class,
                            Verdict(cmds[i].before, Baseline("later"), Fresh(<<"cmd", i>>)))
    IN  /\ cw.pc = "idle" /\ cmds[i].status = "reconciling" /\ after # cmds[i]
        /\ cmds' = [cmds EXCEPT ![i] = after] /\ unknown' = unknown \ {<<"cmd", i>>}
        /\ IF env.class = "unreadable" THEN Resume(steps) ELSE UNCHANGED cw
        /\ UNCHANGED <<OutsideWorker, goal, steps, settled, consumed, world, fresh, events, effect, entered, doubled>>

\* reconcileAgentStep
ReconcileStep(i) ==
    LET v == IF Readable(steps[i], env.class)
             THEN Verdict(steps[i].before, Baseline("now"), Fresh(<<"step", i>>)) ELSE "not_applied"
        after == [steps EXCEPT ![i].status = IF v = "applied" THEN "completed" ELSE "failed"]
    IN  /\ cw.pc = "idle" /\ steps[i].status = "reconciling" /\ v # "inconclusive"
        /\ steps' = after /\ settled' = TRUE /\ unknown' = unknown \ {<<"step", i>>}
        /\ Resume(after)
        /\ UNCHANGED <<OutsideWorker, goal, cmds, consumed, world, fresh, events, effect, entered, doubled>>

-----------------------------------------------------------------------------
(* The administrator, the managed system, and the process.                   *)

\* Slip: an expired token still releases the goal.
Confirmable_Slip(late) == token' = (IF late THEN "expired" ELSE "consumed") /\
    goal' = [goal EXCEPT !.status = "planned", !.confirmed = TRUE]
\* ConfirmAgentGoal: one transaction consumes the token and releases the goal
Confirmable(late) ==
    IF late THEN token' = "expired" /\ UNCHANGED goal
    ELSE token' = "consumed" /\ goal' = [goal EXCEPT !.status = "planned", !.confirmed = TRUE]
\* ConfirmChatGoal, in time or not
Confirm(late) ==
    /\ token = "pending" /\ goal.status = "waiting" /\ ~goal.confirmed /\ Confirmable(late)
    /\ UNCHANGED <<env, steps, failure, settled, cmds, consumed, frozen, world, snap, fresh, lane, cw, events, history>>

Calling == lane.pc = "call" \/ cw.pc = "call"
\* UpdateFreezeState waits for the writes that hold the barrier (AutomationBarrier)
SetFreeze ==
    /\ frozen \/ (~Calling /\ events < MaxEvents)
    /\ frozen' = ~frozen /\ events' = IF frozen THEN events ELSE events + 1
    /\ UNCHANGED <<env, durable, world, snap, fresh, lane, cw, history>>

\* the expiry of a command passes
Expire(i) ==
    /\ ~cmds[i].late /\ cmds[i].status \notin CommandDone /\ Event
    /\ cmds' = [cmds EXCEPT ![i].late = TRUE]
    /\ UNCHANGED <<env, goal, token, steps, failure, settled, consumed, frozen, world, snap, fresh, lane, cw, history>>

\* an administrator or another controller changes a resource
Edit(r, v) ==
    /\ world[r] # v /\ v # "target" /\ Event /\ world' = [world EXCEPT ![r] = v]
    /\ effect' = IF r = "later" THEN {} ELSE effect
    /\ UNCHANGED <<env, durable, frozen, snap, fresh, lane, cw, unknown, entered, doubled>>

Uncertain == {<<"step", i>> : i \in {j \in DOMAIN steps : steps[j].status = "reconciling"}}
             \cup {<<"cmd", i>> : i \in {j \in DOMAIN cmds : cmds[j].status = "reconciling"}}
\* the engine synchronises: the snapshot is newer than every quarantined attempt
Sync ==
    /\ snap' = world /\ fresh' = Uncertain /\ <<snap, fresh>> # <<snap', fresh'>>
    /\ UNCHANGED <<env, durable, frozen, world, lane, cw, events, history>>

\* The process dies and starts: RecoverAgentV2State runs before the workers.  A
\* write under way took effect or not.
Crash(step, cmd) ==
    LET dying == (IF lane.pc = "call" /\ Current.cap = "write" THEN {<<"step", lane.step>>} ELSE {})
                 \cup (IF cw.pc = "call" THEN {<<"cmd", Head1>>} ELSE {})
    IN  /\ <<lane, cw>> # <<LaneIdle, WorkerIdle>> /\ Event
        /\ step => (lane.pc = "call" /\ Current.cap = "write")
        /\ cmd => cw.pc = "call"
        /\ world' = [now |-> Written(step, "now").now, later |-> Written(cmd, "later").later]
        /\ IF cmd THEN Landing(Head1, TRUE) ELSE UNCHANGED <<effect, doubled>>
        /\ cmds' = [i \in DOMAIN cmds |-> RecoveredCommand(cmds[i], env.class)]
        /\ steps' = [i \in DOMAIN steps |-> RecoveredStep(steps[i], env.class)]
        /\ goal' = RecoveredGoal(goal, cmds, steps, env.class)
        /\ settled' = (settled \/ \E i \in DOMAIN steps : steps'[i] # steps[i] /\ steps'[i].status = "failed")
        /\ unknown' = unknown \cup dying
        /\ fresh' = {} /\ snap' = world' /\ lane' = LaneIdle /\ cw' = WorkerIdle
        /\ UNCHANGED <<env, token, failure, consumed, frozen, entered>>

-----------------------------------------------------------------------------
Outcomes == {"done", "refused", "uncertain"}

LaneStep == \/ ClaimGoal \/ Yield \/ OutOfTurns \/ Conclude \/ BadContract \/ Read
            \/ \E b \in BOOLEAN : ProviderError(b)
            \/ \E c \in ToolCall : CallTool(c)
            \/ Fallback
            \/ \E over \in BOOLEAN : MarkStep(over)
            \/ EnterCapability \/ Schedule \/ Cancel
            \/ \E o \in Outcomes, b \in BOOLEAN : WriteNow(o, b)
WorkerStep == \/ ClaimDue \/ EnterCommand \/ ResumeGoal
              \/ StartCommand(FALSE)
              \/ \E o \in Outcomes \cup {"unrecorded"}, b \in BOOLEAN : WriteLater(o, b)
Reconcile == \/ \E i \in DOMAIN cmds : ReconcileCommand(i)
             \/ \E i \in DOMAIN steps : ReconcileStep(i)
Outside == \/ \E b \in BOOLEAN : Confirm(b)
           \/ SetFreeze \/ StartCommand(TRUE)
           \/ \E i \in DOMAIN cmds : Expire(i)
           \/ \E r \in {"now", "later"}, v \in {"base", "other"} : Edit(r, v)
           \/ \E s, c \in BOOLEAN : Crash(s, c)

Next == LaneStep \/ WorkerStep \/ Reconcile \/ Outside \/ Sync

\* The workers' goroutines keep running and the engine keeps synchronising; the
\* reconciliation comes before every claim.
Fairness == WF_vars(WorkerStep) /\ WF_vars(Sync) /\ WF_vars(Reconcile)
Spec == Init /\ [][Next]_vars /\ Fairness
-----------------------------------------------------------------------------
\* A scheduled command does not take effect a second time while its first effect
\* stands: whatever crash, lapsed lease, freeze or uncertain answer came between,
\* executeScheduledCommand writes again only after a readback newer than the
\* attempt showed the baseline.
EffectOnce == ~doubled

\* ExecuteCapability is never entered for a call that is textually the same as one
\* of the goal whose outcome is unknown, nor for a command whose own is.
NoBlindReplay ==
    /\ (lane.pc = "call" /\ Readable(steps[lane.step], env.class)) =>
         \A j \in DOMAIN steps : steps[j].call = Current => <<"step", j>> \notin unknown
    /\ cw.pc = "call" => <<"cmd", Head1>> \notin unknown

\* One grant authorises the writes of one step: neither the model's repetitions,
\* nor a command scheduled twice, nor a restart lets a second step write under it.
GrantSingleUse == \A a, b \in entered : a.grant = b.grant => a.step = b.step

\* A goal that needs a confirmation opens no write gate unless its token was
\* consumed in time, also when recovery or a reconciliation plans the goal.
ConfirmedFirst ==
    (env.from = "confirm" /\ \E i \in DOMAIN steps : steps[i].marked) => token = "consumed"

\* nothing a readback can tell: the resource is neither at the target nor at the baseline
Ambiguous(c) == c.status = "reconciling" /\ world.later \notin {"target", c.before}
\* Every scheduled command ends, or is left in quarantine because somebody else
\* changed its resource, if the agent is not frozen for ever: an uncertain command
\* is not retried without end.
CommandsSettle ==
    []<>~frozen =>
      \A i \in 1..MaxCommands :
        []<>(i \in DOMAIN cmds => (cmds[i].status \in CommandDone \/ Ambiguous(cmds[i])))
=============================================================================
