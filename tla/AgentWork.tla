----------------------------- MODULE AgentWork -----------------------------
(***************************************************************************)
(* The durable work of the agent runtime (internal/store/agent_v2.go):      *)
(* a goal, its steps, the commands it scheduled and the administrator       *)
(* grants consumed, with every transaction on them as an operator from the  *)
(* rows before to the rows after.  Rows are records; a row's times are      *)
(* reduced to what the code compares: `late` is an expiry that has passed,  *)
(* `marked` is mutation_attempted_at.                                       *)
(***************************************************************************)
EXTENDS Integers, Sequences, FiniteSets, FiniteSetsExt

CONSTANTS
    GoalMaxAttempts,      \* defaultGoalMaxAttempts
    CommandMaxAttempts,   \* agent_scheduled_commands.max_attempts
    MaxModelAttempts,     \* maxModelAttemptsPerGoal
    Reasons               \* the wordings a model gives one call: part of its arguments

ASSUME AgentWorkAssumption ==
    /\ {GoalMaxAttempts, CommandMaxAttempts, MaxModelAttempts} \subseteq Nat \ {0}
    /\ Reasons # {}

Capability == {"write", "schedule", "cancel"}
\* a tool call with its arguments, as the model words them; "" is no call
ToolCall == [cap : Capability, words : Reasons]
NoCall == [cap |-> "", words |-> ""]

GoalDone == {"completed", "failed"}
Goal == [status : {"planned", "running", "waiting"} \cup GoalDone, turns : 0..MaxModelAttempts,
         contract : 0..2, provider : 0..GoalMaxAttempts, confirmed : BOOLEAN]
StepDone == {"completed", "failed", "skipped"}
Step == [call : ToolCall, status : {"running", "reconciling"} \cup StepDone, marked : BOOLEAN,
         before : {"base", "target", "other"}]
CommandDone == {"completed", "failed", "expired", "cancelled"}
Command == [status : {"pending", "leased", "reconciling"} \cup CommandDone, attempts : 0..CommandMaxAttempts,
            marked : BOOLEAN, late : BOOLEAN, step : Nat, before : {"base", "target", "other"}]

\* CreateAgentGoal, CreateAgentStep by the runtime, and CreateScheduledCommand
NewGoal(status) == [status |-> status, turns |-> 0, contract |-> 0, provider |-> 0, confirmed |-> FALSE]
NewStep(c, status) == [call |-> c, status |-> status, marked |-> FALSE, before |-> "base"]
NewCommand(i) == [status |-> "pending", attempts |-> 0, marked |-> FALSE, late |-> FALSE, step |-> i,
                  before |-> "base"]
AtLeast0(n) == IF n < 0 THEN 0 ELSE n

-----------------------------------------------------------------------------
(* Scheduled commands.                                                      *)

\* DeferLeasedScheduledCommand: the claim is not counted
Deferred(c) == [c EXCEPT !.status = "pending", !.attempts = AtLeast0(@ - 1), !.marked = FALSE]
CompletedCommand(c) == [c EXCEPT !.status = "completed"]
FailedCommand(c) == [c EXCEPT !.status = "failed"]
MarkedReconciling(c) == [c EXCEPT !.status = "reconciling"]
\* RecordScheduledCommandAttemptState
Marked(c, seen) == [c EXCEPT !.marked = TRUE, !.before = seen]

\* A lease that lapsed: quarantined once the gate was opened, released before that.
Lapsed(c) ==
    IF c.marked THEN [c EXCEPT !.status = "reconciling"]
    ELSE [c EXCEPT !.status = "pending", !.attempts = AtLeast0(@ - 1)]

\* Slip: a claim is not counted as an attempt.
Claimed_Slip(c) ==
    LET d == IF c.status = "leased" THEN Lapsed(c) ELSE c
    IN  IF d.status # "pending" THEN d
        ELSE IF d.late THEN [d EXCEPT !.status = "expired"]
        ELSE [d EXCEPT !.status = "leased"]
\* ClaimDueScheduledCommands, on one row.  It runs when the worker holds no
\* command: a row still leased was left by an update that failed.
Claimed(c) ==
    LET d == IF c.status = "leased" THEN Lapsed(c) ELSE c
    IN  IF d.status # "pending" THEN d
        ELSE IF d.late THEN [d EXCEPT !.status = "expired"]
        ELSE IF d.attempts >= CommandMaxAttempts THEN [d EXCEPT !.status = "failed"]
        ELSE [d EXCEPT !.status = "leased", !.attempts = @ + 1]

\* capabilityTargetApplied and capabilityStateUnchanged compare the readback, field
\* by field, with the arguments and with the baseline
TargetApplied(current) == current = "target"
StateUnchanged(before, current) == current = before
\* evaluateCapabilityReconciliation on a readback
Verdict(before, current, fresh) ==
    IF ~fresh THEN "inconclusive"
    ELSE IF TargetApplied(current) THEN "applied"
    ELSE IF StateUnchanged(before, current) THEN "not_applied"
    ELSE "inconclusive"

\* ResolveScheduledCommandReconciliation: a retry closes the gate again
Resolved(c, status) == [c EXCEPT !.status = status, !.marked = @ /\ status # "pending"]
\* reconcileScheduledCommand.  A group transition is never replayed: its
\* idempotency key is spent upstream.
Reconciled(c, class, verdict) ==
    IF class = "unreadable" THEN Resolved(c, "failed")
    ELSE IF verdict = "applied" THEN Resolved(c, "completed")
    ELSE IF verdict = "inconclusive" THEN c
    ELSE IF class = "group" \/ c.late \/ c.attempts >= CommandMaxAttempts THEN Resolved(c, "failed")
    ELSE Resolved(c, "pending")

\* CancelScheduledCommand accepts these
Cancellable(c) == c.status \in {"pending", "reconciling"}

-----------------------------------------------------------------------------
(* Administrator grants.  A grant is derived from the command's clause and the *)
(* exact arguments (deriveAdministratorGrantID); the row names its one step.   *)

\* Slip: the step that consumed the grant is not compared.
Consumable_Slip(consumed, grant, i) == TRUE
\* ConsumeAdministratorGrant: a retry of the same step is accepted
Consumable(consumed, grant, i) == \A e \in consumed : e.grant = grant => e.step = i

-----------------------------------------------------------------------------
(* RecoverAgentV2State, one transaction at startup.                          *)

\* Slip: a leased command whose gate was opened is queued again.
RecoveredCommand_Slip(c, class) ==
    IF c.status = "pending" /\ c.late THEN [c EXCEPT !.status = "expired"]
    ELSE IF c.status = "pending" /\ c.attempts >= CommandMaxAttempts THEN [c EXCEPT !.status = "failed"]
    ELSE IF c.status = "leased" THEN [c EXCEPT !.status = "pending", !.marked = FALSE]
    ELSE IF c.status = "reconciling" /\ class = "unreadable" THEN [c EXCEPT !.status = "failed"]
    ELSE c
\* its scheduled commands
RecoveredCommand(c, class) ==
    IF c.status = "pending" /\ c.late THEN [c EXCEPT !.status = "expired"]
    ELSE IF c.status = "pending" /\ c.attempts >= CommandMaxAttempts THEN [c EXCEPT !.status = "failed"]
    ELSE IF c.status = "leased" /\ ~c.marked /\ c.late THEN [c EXCEPT !.status = "expired"]
    ELSE IF c.status = "leased" /\ ~c.marked THEN [c EXCEPT !.status = "pending", !.attempts = AtLeast0(@ - 1)]
    ELSE IF c.status \in {"leased", "reconciling"} /\ class = "unreadable" THEN [c EXCEPT !.status = "failed"]
    ELSE IF c.status = "leased" THEN [c EXCEPT !.status = "reconciling"]
    ELSE c

\* CapabilitySupportsRestartReadback for a step: scheduling and cancelling are local
Readable(step, class) == step.call.cap = "write" /\ class # "unreadable"

\* its steps: an unmarked one never wrote, an unreadable one is planned afresh
RecoveredStep(s, class) ==
    IF s.status = "running" /\ (~s.marked \/ ~Readable(s, class)) THEN [s EXCEPT !.status = "failed"]
    ELSE IF s.status = "reconciling" /\ ~Readable(s, class) THEN [s EXCEPT !.status = "failed"]
    ELSE IF s.status = "running" THEN [s EXCEPT !.status = "reconciling"]
    ELSE s

\* its goal: planned when it was running, or when one of its actions was closed
RecoveredGoal(g, cmds, steps, class) ==
    LET replan == \/ \E i \in DOMAIN steps : RecoveredStep(steps[i], class) # steps[i]
                                             /\ RecoveredStep(steps[i], class).status = "failed"
                  \/ \E i \in DOMAIN cmds : class = "unreadable"
                                            /\ cmds[i].status \in {"leased", "reconciling"} /\ cmds[i].marked
    IN  IF g.status = "running" \/ (replan /\ g.status \notin GoalDone)
        THEN [g EXCEPT !.status = "planned"] ELSE g
=============================================================================
