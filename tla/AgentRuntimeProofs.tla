------------------------- MODULE AgentRuntimeProofs -------------------------
(***************************************************************************)
(* Proofs about the agent runtime, for any number of steps, commands,       *)
(* wordings, attempts and disturbances.                                     *)
(***************************************************************************)
EXTENDS AgentRuntime, WellFoundedInduction, TLAPS

\* The shape of the workers and of the rows they copy.
GoalRow == [status : {"planned", "running", "waiting"} \cup GoalDone, turns : Nat, contract : Nat,
            provider : Nat, confirmed : BOOLEAN]
Value == {"base", "target", "other"}
Busy == {"step", "gate", "call"}

LaneOK == lane = LaneIdle \/ lane \in [pc : {"turn"} \cup Busy, mine : GoalRow, step : Nat]
WorkerOK == \/ cw \in [pc : {"idle", "work", "gate", "call"}, queue : SUBSET Nat]
            \/ cw \in [pc : {"resume"}, queue : {{}}, seen : GoalRow]
WorldOK == world \in [now : Value, later : Value] /\ snap \in [now : Value, later : Value]

\* One row of consumed grants per grant, and it was there before the write.
GrantInv ==
    /\ entered \subseteq consumed
    /\ \A a, b \in consumed : a.grant = b.grant => a.step = b.step

\* The goal waits for its confirmation, or the time for it has passed.
Unconfirmed == env.from = "confirm" /\ token # "consumed"

\* Every copy of the goal that says "confirmed" was taken after the token was consumed.
GoalInv ==
    /\ goal \in GoalRow /\ LaneOK /\ WorkerOK
    /\ Unconfirmed => /\ ~goal.confirmed
                      /\ lane.pc # "idle" => ~lane.mine.confirmed
                      /\ cw.pc = "resume" => ~cw.seen.confirmed

\* A step whose outcome is unknown and can be read back is in quarantine, and no
\* step in quarantine makes the call the lane is about to make.
StepsInv ==
    /\ steps \in Seq(Step)
    /\ Unconfirmed => lane.pc \notin Busy /\ \A i \in DOMAIN steps : ~steps[i].marked
    /\ \A j \in Nat : <<"step", j>> \in unknown =>
            /\ j \in DOMAIN steps
            /\ Readable(steps[j], env.class) => steps[j].status = "reconciling"
    /\ lane.pc \in Busy =>
            /\ lane.step \in DOMAIN steps /\ steps[lane.step].status = "running"
            /\ lane.pc # "step" => steps[lane.step].marked
            /\ \A j \in DOMAIN steps : steps[j].call = Current => steps[j].status # "reconciling"

\* A command that wrote, or may have written, is past the worker's queue and comes
\* back to it only by way of a reconciliation that read the baseline.
Past(c) == c.status \in {"reconciling"} \cup CommandDone \/ (c.status = "leased" /\ c.marked)
CommandsInv ==
    /\ cmds \in Seq(Command)
    /\ \A i \in Nat : <<"cmd", i>> \in unknown => i \in DOMAIN cmds /\ Past(cmds[i])
    /\ \A i \in effect :
            /\ i \in DOMAIN cmds /\ Past(cmds[i]) /\ world.later = "target"
            /\ cmds[i].status = "leased" => <<"cmd", i>> \notin fresh
            /\ cmds[i].status = "reconciling" /\ <<"cmd", i>> \in fresh => snap.later = "target"
    /\ cw.queue # {} <=> cw.pc \in {"work", "gate", "call"}
    /\ \A i \in cw.queue : /\ i \in DOMAIN cmds /\ cmds[i].status = "leased"
                           /\ <<"cmd", i>> \notin unknown /\ i \notin effect
    /\ cw.pc \in {"gate", "call"} => \A i \in cw.queue : (\A j \in cw.queue : i <= j) => cmds[i].marked
    /\ ~doubled

IInv == WorldOK /\ GrantInv /\ GoalInv /\ StepsInv /\ CommandsInv

-----------------------------------------------------------------------------
(* Rows and tables.                                                         *)

\* The worker's next command is the first of its queue.
LEMMA HeadQueued ==
    ASSUME cw.queue \subseteq Nat, cw.queue # {}
    PROVE  Head1 \in cw.queue /\ \A e \in cw.queue : Head1 <= e
<1> DEFINE Less == {pair \in Nat \X Nat : pair[1] < pair[2]}
           T == cw.queue
<1>1. IsWellFoundedOn(Less, Nat)
    BY NatLessThanWellFounded, Zenon DEF OpToRel
<1>2. PICK d \in T : \A e \in T : <<e, d>> \notin Less
    <2> HIDE DEF Less
    <2> QED
        BY <1>1, WFMin
<1>3. ASSUME NEW e \in T PROVE d <= e
    <2>1. d \in Nat /\ e \in Nat /\ <<e, d>> \notin Less
        BY <1>2
    <2> QED
        BY <2>1
<1> QED
    BY <1>3 DEF Head1, Min

\* A table of rows stays one when a row is edited, added, or all are rewritten.
LEMMA Tables ==
    ASSUME NEW Row, NEW table \in Seq(Row)
    PROVE  /\ \A k \in DOMAIN table, r \in Row : [table EXCEPT ![k] = r] \in Seq(Row)
           /\ \A f : f \in [DOMAIN table -> Row] => f \in Seq(Row)
           /\ \A r \in Row : /\ Append(table, r) \in Seq(Row)
                             /\ DOMAIN Append(table, r) = DOMAIN table \cup {Len(table) + 1}
                             /\ Append(table, r)[Len(table) + 1] = r
                             /\ \A k \in DOMAIN table : Append(table, r)[k] = table[k]
           /\ DOMAIN table \subseteq Nat /\ Len(table) \in Nat /\ Len(table) + 1 \notin DOMAIN table
           /\ \A k \in DOMAIN table : table[k] \in Row
OBVIOUS

\* The bound on attempts is a number, and an attempt less is still one.
LEMMA Attempts ==
    /\ CommandMaxAttempts \in Nat
    /\ \A n \in 0..CommandMaxAttempts : AtLeast0(n - 1) \in 0..CommandMaxAttempts
BY AgentWorkAssumption DEF AtLeast0

\* What the transactions on a scheduled command make of its row.
LEMMA CommandEdits ==
    ASSUME NEW c \in Command, NEW v \in Value
    PROVE  /\ Deferred(c) \in Command /\ CompletedCommand(c) \in Command /\ FailedCommand(c) \in Command
           /\ MarkedReconciling(c) \in Command /\ Marked(c, v) \in Command
           /\ Marked(c, v).status = c.status /\ Marked(c, v).marked
           /\ CompletedCommand(c).status = "completed" /\ FailedCommand(c).status = "failed"
           /\ MarkedReconciling(c).status = "reconciling"
           /\ [c EXCEPT !.late = TRUE] \in Command /\ [c EXCEPT !.status = "cancelled"] \in Command
<1> USE DEF Command, CommandDone
<1>1. Deferred(c) \in Command
    BY Attempts DEF Deferred
<1>2. CompletedCommand(c) \in Command /\ FailedCommand(c) \in Command /\ MarkedReconciling(c) \in Command
    BY DEF CompletedCommand, FailedCommand, MarkedReconciling
<1>3. Marked(c, v) \in Command /\ Marked(c, v).status = c.status /\ Marked(c, v).marked
    BY DEF Marked, Value
<1>4. /\ CompletedCommand(c).status = "completed" /\ FailedCommand(c).status = "failed"
      /\ MarkedReconciling(c).status = "reconciling"
    BY DEF CompletedCommand, FailedCommand, MarkedReconciling
<1>5. [c EXCEPT !.late = TRUE] \in Command /\ [c EXCEPT !.status = "cancelled"] \in Command
    OBVIOUS
<1> QED
    BY <1>1, <1>2, <1>3, <1>4, <1>5

\* A claim leases rows that no write can have come from, and quarantines the others.
LEMMA ClaimedRow ==
    ASSUME NEW c \in Command
    PROVE  /\ Claimed(c) \in Command
           /\ Past(c) => /\ Past(Claimed(c)) /\ Claimed(c).status # "leased"
                         /\ c.status # "leased" => Claimed(c) = c
<1>1. Lapsed(c) \in Command /\ (c.marked => Lapsed(c).status = "reconciling")
    BY Attempts DEF Lapsed, Command
<1> DEFINE d == IF c.status = "leased" THEN Lapsed(c) ELSE c
<1>2. d \in Command
    BY <1>1
<1>5. Claimed(c) = IF d.status # "pending" THEN d
                   ELSE IF d.late THEN [d EXCEPT !.status = "expired"]
                   ELSE IF d.attempts >= CommandMaxAttempts THEN [d EXCEPT !.status = "failed"]
                   ELSE [d EXCEPT !.status = "leased", !.attempts = @ + 1]
    BY <1>2 DEF Claimed, Command
<1>3. Claimed(c) \in Command
    <2>1. d.attempts >= CommandMaxAttempts \/ d.attempts + 1 \in 0..CommandMaxAttempts
        BY <1>2, Attempts DEF Command
    <2>2. [d EXCEPT !.status = "expired"] \in Command /\ [d EXCEPT !.status = "failed"] \in Command
        BY <1>2 DEF Command, CommandDone
    <2>3. d.attempts >= CommandMaxAttempts \/ [d EXCEPT !.status = "leased", !.attempts = @ + 1] \in Command
        BY <1>2, <2>1 DEF Command
    <2> QED
        BY <1>2, <1>5, <2>2, <2>3
<1>4. ASSUME Past(c) PROVE d.status # "pending" /\ d.status # "leased" /\ Past(d) /\ (c.status # "leased" => d = c)
    BY <1>1, <1>4 DEF Past, CommandDone
<1> QED
    BY <1>3, <1>4, <1>5

\* What a restart makes of a command's row: none stays leased.
LEMMA RecoveredRow ==
    ASSUME NEW c \in Command, NEW class
    PROVE  /\ RecoveredCommand(c, class) \in Command
           /\ Past(c) => Past(RecoveredCommand(c, class))
           /\ c.status = "leased" /\ c.marked => Past(RecoveredCommand(c, class))
           /\ RecoveredCommand(c, class).status # "leased"
<1> DEFINE R == RecoveredCommand(c, class)
<1>1. R \in {c, [c EXCEPT !.status = "expired"], [c EXCEPT !.status = "failed"],
             [c EXCEPT !.status = "reconciling"],
             [c EXCEPT !.status = "pending", !.attempts = AtLeast0(@ - 1)]}
    BY DEF RecoveredCommand
<1>2. R \in Command
    BY <1>1, Attempts DEF Command, CommandDone
<1>3. /\ R.status # "leased"
      /\ Past(c) => Past(R)
    BY DEF RecoveredCommand, Past, Command, CommandDone
<1> QED
    BY <1>2, <1>3 DEF Past

\* What a reconciliation makes of a quarantined row: only a fresh readback of the
\* baseline sends it back to the queue.
LEMMA ReconciledRow ==
    ASSUME NEW c \in Command, c.status = "reconciling", NEW class, NEW verdict
    PROVE  /\ Reconciled(c, class, verdict) \in Command
           /\ verdict \in {"applied", "inconclusive"} => Past(Reconciled(c, class, verdict))
           /\ Reconciled(c, class, verdict).status # "leased"
           /\ Reconciled(c, class, verdict) # c => Reconciled(c, class, verdict).status # "reconciling"
<1>1. \A st \in {"pending", "completed", "failed"} :
          Resolved(c, st) \in Command /\ Resolved(c, st).status = st
    BY DEF Resolved, Command, CommandDone
<1>2. Reconciled(c, class, verdict) \in {c, Resolved(c, "pending"), Resolved(c, "completed"), Resolved(c, "failed")}
    BY DEF Reconciled
<1>3. verdict \in {"applied", "inconclusive"} =>
          Reconciled(c, class, verdict) \in {c, Resolved(c, "completed"), Resolved(c, "failed")}
    BY DEF Reconciled
<1> QED
    BY <1>1, <1>2, <1>3 DEF Past, CommandDone

\* What a restart makes of a step's row.
LEMMA RecoveredStepRow ==
    ASSUME NEW s \in Step, NEW class
    PROVE  /\ RecoveredStep(s, class) \in Step
           /\ RecoveredStep(s, class).call = s.call /\ RecoveredStep(s, class).marked = s.marked
           /\ Readable(s, class) /\ s.status = "reconciling" => RecoveredStep(s, class).status = "reconciling"
           /\ Readable(s, class) /\ s.status = "running" /\ s.marked => RecoveredStep(s, class).status = "reconciling"
<1>1. RecoveredStep(s, class) \in {s, [s EXCEPT !.status = "failed"], [s EXCEPT !.status = "reconciling"]}
    BY DEF RecoveredStep
<1>2. /\ RecoveredStep(s, class) \in Step
      /\ RecoveredStep(s, class).call = s.call /\ RecoveredStep(s, class).marked = s.marked
    BY <1>1 DEF Step, StepDone
<1>3. /\ Readable(s, class) /\ s.status = "reconciling" => RecoveredStep(s, class).status = "reconciling"
      /\ Readable(s, class) /\ s.status = "running" /\ s.marked => RecoveredStep(s, class).status = "reconciling"
    BY DEF RecoveredStep, Step
<1> QED
    BY <1>2, <1>3

\* A row of the goal stays one, and keeps its confirmation, under the edits made to it.
LEMMA GoalEdits ==
    ASSUME NEW g \in GoalRow
    PROVE  /\ \A st \in {"planned", "running", "waiting"} \cup GoalDone :
                  /\ [g EXCEPT !.status = st] \in GoalRow /\ [g EXCEPT !.status = st].confirmed = g.confirmed
           /\ \A n \in Nat : /\ [g EXCEPT !.turns = @ + n] \in GoalRow /\ [g EXCEPT !.turns = @ + n].confirmed = g.confirmed
                             /\ [g EXCEPT !.contract = @ + n] \in GoalRow /\ [g EXCEPT !.contract = @ + n].confirmed = g.confirmed
                             /\ [g EXCEPT !.provider = @ + n] \in GoalRow /\ [g EXCEPT !.provider = @ + n].confirmed = g.confirmed
           /\ [g EXCEPT !.status = "planned", !.confirmed = TRUE] \in GoalRow
<1>1. \A st \in {"planned", "running", "waiting"} \cup GoalDone :
          [g EXCEPT !.status = st] \in GoalRow /\ [g EXCEPT !.status = st].confirmed = g.confirmed
    BY DEF GoalRow, GoalDone
<1>2. \A n \in Nat : [g EXCEPT !.turns = @ + n] \in GoalRow /\ [g EXCEPT !.turns = @ + n].confirmed = g.confirmed
    BY DEF GoalRow, GoalDone
<1>3. \A n \in Nat : [g EXCEPT !.contract = @ + n] \in GoalRow /\ [g EXCEPT !.contract = @ + n].confirmed = g.confirmed
    BY DEF GoalRow, GoalDone
<1>4. \A n \in Nat : [g EXCEPT !.provider = @ + n] \in GoalRow /\ [g EXCEPT !.provider = @ + n].confirmed = g.confirmed
    BY DEF GoalRow, GoalDone
<1>5. [g EXCEPT !.status = "planned", !.confirmed = TRUE] \in GoalRow
    BY DEF GoalRow, GoalDone
<1> QED
    BY <1>1, <1>2, <1>3, <1>4, <1>5

-----------------------------------------------------------------------------
(* The grants.                                                              *)

\* A grant is consumed before the write and only by the step that has it.
LEMMA GrantStep ==
    ASSUME GrantInv, [Next]_vars
    PROVE  GrantInv'
<1> USE DEF GrantInv
<1>1. CASE EnterCapability
    <2>1. CASE UNCHANGED <<consumed, entered>>
        BY <2>1
    <2>2. ASSUME NEW use, consumed' = consumed \cup use, entered' = entered \cup use,
                 use \subseteq {[grant |-> Grant(Current), step |-> lane.step]},
                 use # {} => Consumable(consumed, Grant(Current), lane.step)
          PROVE  GrantInv'
        BY <2>2 DEF Consumable
    <2> QED
        BY <1>1, <2>1, <2>2 DEF EnterCapability
<1>2. CASE EnterCommand
    <2>1. CASE UNCHANGED <<consumed, entered>>
        BY <2>1
    <2>2. ASSUME NEW use, consumed' = consumed \cup use, entered' = entered \cup use,
                 use \subseteq {[grant |-> Later, step |-> cmds[Head1].step]},
                 use # {} => Consumable(consumed, Later, cmds[Head1].step)
          PROVE  GrantInv'
        BY <2>2 DEF Consumable
    <2> QED
        BY <1>2, <2>1, <2>2 DEF EnterCommand
<1>3. CASE UNCHANGED <<consumed, entered>>
    BY <1>3
<1>4. ASSUME Next, ~EnterCapability, ~EnterCommand PROVE UNCHANGED <<consumed, entered>>
    <2>1. LaneStep => UNCHANGED <<consumed, entered>>
        BY <1>4 DEF LaneStep, ClaimGoal, Yield, OutOfTurns, Conclude, BadContract, Read, ProviderError, CallTool,
               Fallback, MarkStep, Schedule, Cancel, WriteNow, history
    <2>2. WorkerStep => UNCHANGED <<consumed, entered>>
        BY <1>4 DEF WorkerStep, ClaimDue, ResumeGoal, StartCommand, WriteLater, history
    <2>3. Reconcile => UNCHANGED <<consumed, entered>>
        BY DEF Reconcile, ReconcileCommand, ReconcileStep
    <2>4. Outside \/ Sync => UNCHANGED <<consumed, entered>>
        BY DEF Outside, Confirm, SetFreeze, StartCommand, Expire, Edit, Crash, Sync, durable, history
    <2> QED
        BY <1>4, <2>1, <2>2, <2>3, <2>4 DEF Next
<1> QED
    BY <1>1, <1>2, <1>3, <1>4 DEF vars, durable, history
-----------------------------------------------------------------------------
(* The goal and its copies.                                                 *)

\* What may be stored for a goal without touching its confirmation.
Versions(g) == {h \in GoalRow : h.confirmed = g.confirmed}

\* The lane stores and keeps versions of the copy it has, or takes one of the goal;
\* it starts a call only with a confirmed copy where one is needed.
LEMMA LaneMoves ==
    ASSUME goal \in GoalRow, LaneOK, steps \in Seq(Step), LaneStep
    PROVE  /\ LaneOK'
           /\ goal' \in Versions(goal) \/ (lane.pc # "idle" /\ goal' \in Versions(lane.mine))
           /\ lane'.pc # "idle" => lane'.mine \in Versions(IF lane.pc = "idle" THEN goal ELSE lane.mine)
           /\ lane'.pc \in Busy => lane.pc \in Busy \/ (lane.pc = "turn" /\ (env.from = "confirm" => lane.mine.confirmed))
<1> DEFINE PCs == {"turn"} \cup Busy
<1>1. goal \in Versions(goal) /\ (lane # LaneIdle => lane.pc # "idle" /\ lane.mine \in GoalRow)
    BY DEF Versions, LaneOK, Busy
<1>2. CASE ClaimGoal
    <2>1. goal' \in Versions(goal) /\ lane' = [pc |-> "turn", mine |-> goal', step |-> 0] /\ lane.pc = "idle"
        BY <1>2, GoalEdits DEF ClaimGoal, Versions
    <2>2. lane' \in [pc : PCs, mine : GoalRow, step : Nat] /\ lane'.pc = "turn" /\ lane'.mine = goal'
        BY <2>1 DEF Versions
    <2> QED
        BY <2>1, <2>2 DEF LaneOK, Busy
<1>3. ASSUME ~ClaimGoal PROVE lane.pc # "idle"
    BY <1>3 DEF LaneStep, Yield, OutOfTurns, Conclude, BadContract, Read, ProviderError, CallTool, Fallback, Turn,
                MarkStep, EnterCapability, Schedule, Cancel, WriteNow
<1>4. ASSUME ~ClaimGoal
      PROVE  /\ goal' \in Versions(lane.mine) \cup {goal}
             /\ lane' = LaneIdle \/ lane' \in [pc : PCs, mine : Versions(lane.mine), step : Nat]
             /\ lane'.pc \in Busy => lane.pc \in Busy \/ (lane.pc = "turn" /\ (env.from = "confirm" => lane.mine.confirmed))
    <2> DEFINE G == Versions(lane.mine)
               L == [pc : PCs, mine : G, step : Nat]
    <2>1. lane.mine \in GoalRow /\ lane.mine \in G /\ lane \in [pc : PCs, mine : GoalRow, step : Nat]
        BY <1>1, <1>3, <1>4 DEF LaneOK, Versions, LaneIdle
    <2>2. \A m \in G : \A st \in {"planned", "running", "waiting"} \cup GoalDone : [m EXCEPT !.status = st] \in G
        BY GoalEdits DEF Versions
    <2>3. \A m \in G : \A n \in Nat : /\ [m EXCEPT !.turns = @ + n] \in G
                                     /\ [m EXCEPT !.contract = @ + n] \in G
                                     /\ [m EXCEPT !.provider = @ + n] \in G
        BY GoalEdits DEF Versions
    <2>4. Counted \in G
        BY <2>1, <2>3 DEF Counted
    <2>5. \A m \in G : /\ [lane EXCEPT !.pc = "turn", !.mine = m] \in L
                      /\ [lane EXCEPT !.pc = "turn", !.mine = m].pc = "turn"
                      /\ [lane EXCEPT !.mine = m] \in L /\ [lane EXCEPT !.mine = m].pc = lane.pc
        BY <2>1
    <2>6. LaneIdle.pc = "idle" /\ "idle" \notin Busy /\ "turn" \notin Busy
        BY DEF LaneIdle, Busy
    <2> SUFFICES /\ goal' \in G \cup {goal} /\ (lane' = LaneIdle \/ lane' \in L)
                 /\ lane'.pc \in Busy => lane.pc \in Busy \/ (lane.pc = "turn" /\ (env.from = "confirm" => lane.mine.confirmed))
        OBVIOUS
    <2> HIDE DEF G, L
    <2>7. ASSUME NEW m \in G, Continue(m)
          PROVE  goal' \in G /\ lane' \in L /\ lane'.pc \notin Busy
        BY <2>5, <2>6, <2>7 DEF Continue
    <2>8. ASSUME NEW st \in {"planned", "running", "waiting"} \cup GoalDone, Stop(st)
          PROVE  goal' \in G /\ lane' = LaneIdle
        BY <2>1, <2>2, <2>8 DEF Stop
    <2>9. FailStep \/ StepCompleted => goal' \in G /\ lane' \in L /\ lane'.pc \notin Busy
        BY <2>1, <2>7 DEF FailStep, StepCompleted
    <2>10. ASSUME \E p \in Busy : lane' = [lane EXCEPT !.pc = p] PROVE lane' \in L
        BY <2>1, <2>10 DEF L
    <2>11. CASE Yield
        <3>1. PICK n \in {0, 1}, over \in BOOLEAN :
                  goal' = [[lane.mine EXCEPT !.turns = @ + n] EXCEPT !.status = IF over THEN "planned" ELSE "waiting"]
            BY <2>11 DEF Yield
        <3>2. [lane.mine EXCEPT !.turns = @ + n] \in G
            BY <2>1, <2>3
        <3> QED
            BY <2>2, <2>6, <2>11, <3>1, <3>2 DEF Yield
    <2>12. CASE OutOfTurns
        BY <2>6, <2>8, <2>12 DEF OutOfTurns, GoalDone
    <2>13. CASE Conclude
        BY <2>2, <2>4, <2>6, <2>13 DEF Conclude, GoalDone
    <2>14. CASE BadContract
        <3>1. [Counted EXCEPT !.contract = @ + 1] \in G
            BY <2>3, <2>4
        <3> QED
            BY <2>2, <2>6, <2>7, <2>14, <3>1 DEF BadContract, GoalDone
    <2>15. CASE Read
        BY <2>4, <2>6, <2>7, <2>15 DEF Read
    <2>16. ASSUME NEW b \in BOOLEAN, ProviderError(b)
           PROVE  goal' \in G /\ lane' = LaneIdle
        <3> DEFINE mine == [Counted EXCEPT !.provider = IF b THEN @ + 1 ELSE @]
        <3>1. mine = [Counted EXCEPT !.provider = @ + (IF b THEN 1 ELSE 0)]
            BY <2>4 DEF G, Versions, GoalRow
        <3>2. mine \in G
            BY <2>3, <2>4, <3>1
        <3> HIDE DEF mine
        <3>3. \E st \in {"planned", "failed"} : goal' = [mine EXCEPT !.status = st]
            BY <2>16 DEF ProviderError, mine
        <3> QED
            BY <2>2, <2>16, <3>2, <3>3 DEF ProviderError, GoalDone
    <2>17. ASSUME NEW c \in ToolCall, CallTool(c)
           PROVE  /\ goal' \in G /\ (lane' = LaneIdle \/ lane' \in L)
                  /\ lane'.pc \in Busy => lane.pc = "turn" /\ (env.from = "confirm" => lane.mine.confirmed)
        <3>1. CASE lane' = [lane EXCEPT !.pc = "step", !.mine = Counted, !.step = Len(steps) + 1]
            <4>1. Len(steps) + 1 \in Nat
                OBVIOUS
            <4>2. lane' \in L
                BY <2>1, <2>4, <3>1, <4>1 DEF L, Busy
            <4>3. lane.pc = "turn"
                BY <2>17 DEF CallTool, Turn
            <4>4. goal' \in G
                BY <2>2, <2>4, <2>17 DEF CallTool, Continue, GoalDone
            <4>5. Allowed(c) \/ Continue(Counted) \/ lane' = LaneIdle
                BY <2>17 DEF CallTool
            <4>6. Allowed(c) => (env.from = "confirm" => lane.mine.confirmed)
                BY DEF Allowed, Chat
            <4> QED
                BY <2>4, <2>6, <2>7, <4>2, <4>3, <4>4, <4>5, <4>6
        <3>2. CASE Continue(Counted)
            BY <2>4, <2>7, <3>2
        <3>3. CASE goal' = [Counted EXCEPT !.status = "failed"] /\ lane' = LaneIdle
            BY <2>2, <2>4, <2>6, <3>3 DEF GoalDone
        <3> QED
            BY <2>17, <3>1, <3>2, <3>3 DEF CallTool
    <2>18. CASE Fallback
        BY <2>4, <2>5, <2>6, <2>18 DEF Fallback, Turn
    <2>19. ASSUME NEW over \in BOOLEAN, MarkStep(over)
           PROVE  goal' \in G \cup {goal} /\ (lane' = LaneIdle \/ lane' \in L) /\ (lane'.pc \in Busy => lane.pc \in Busy)
        <3>1. CASE over
            BY <2>6, <2>8, <2>19, <3>1 DEF MarkStep
        <3>2. CASE ~over
            BY <2>10, <2>19, <3>2 DEF MarkStep, Busy
        <3> QED
            BY <3>1, <3>2
    <2>20. CASE EnterCapability
        <3>1. CASE Stop("waiting")
            BY <2>6, <2>8, <3>1
        <3>2. CASE FailStep
            BY <2>9, <3>2
        <3>3. CASE lane' = [lane EXCEPT !.pc = "call"] /\ goal' = goal
            BY <2>10, <2>20, <3>3 DEF EnterCapability, Busy
        <3> QED
            BY <2>20, <3>1, <3>2, <3>3 DEF EnterCapability
    <2>21. CASE Schedule
        BY <2>9, <2>21 DEF Schedule
    <2>22. CASE Cancel
        BY <2>9, <2>22 DEF Cancel
    <2>23. ASSUME NEW o \in Outcomes, NEW b \in BOOLEAN, WriteNow(o, b)
           PROVE  goal' \in G /\ (lane' = LaneIdle \/ lane' \in L) /\ lane'.pc \notin Busy
        <3>1. CASE Stop("planned")
            BY <2>6, <2>8, <3>1
        <3>2. CASE FailStep \/ StepCompleted
            BY <2>9, <3>2
        <3> QED
            BY <2>23, <3>1, <3>2 DEF WriteNow, Outcomes
    <2> QED
        BY <1>4, <2>6, <2>11, <2>12, <2>13, <2>14, <2>15, <2>16, <2>17, <2>18, <2>19, <2>20, <2>21, <2>22, <2>23
        DEF LaneStep
<1> QED
    <2>1. CASE ClaimGoal
        BY <1>2, <2>1
    <2>2. CASE ~ClaimGoal
        BY <1>1, <1>3, <1>4, <2>2 DEF LaneOK, Versions, LaneIdle, Busy
    <2> QED
        BY <2>1, <2>2

\* The copies of the goal tell the truth about its confirmation after every step.
LEMMA GoalStep ==
    ASSUME GoalInv, steps \in Seq(Step), cmds \in Seq(Command), [Next]_vars
    PROVE  GoalInv'
<1>1. CASE LaneStep
    <2>1. UNCHANGED <<env, token, cw>>
        BY <1>1 DEF LaneStep, ClaimGoal, Yield, OutOfTurns, Conclude, BadContract, Read, ProviderError, CallTool,
               Fallback, MarkStep, EnterCapability, Schedule, Cancel, WriteNow, OutsideLane
    <2> QED
        BY <1>1, <2>1, LaneMoves DEF GoalInv, WorkerOK, Unconfirmed, Versions
<1>2. CASE WorkerStep \/ (\E b \in BOOLEAN : StartCommand(b))
    <2>1. UNCHANGED <<env, token, lane>>
        BY <1>2 DEF WorkerStep, ClaimDue, ResumeGoal, StartCommand, WriteLater, EnterCommand, OutsideWorker
    <2>2. CASE ResumeGoal
        <3>1. cw.seen \in GoalRow /\ goal' \in Versions(cw.seen) /\ cw' = WorkerIdle
            BY <2>2, GoalEdits DEF ResumeGoal, GoalInv, WorkerOK, Versions
        <3> QED
            BY <2>1, <2>2, <3>1 DEF ResumeGoal, GoalInv, LaneOK, WorkerOK, WorkerIdle, Unconfirmed, Versions
    <2>3. CASE ~ResumeGoal
        <3>1. goal' = goal
            BY <1>2, <2>3 DEF WorkerStep, ClaimDue, StartCommand, WriteLater, EnterCommand
        <3>2. Next1 => cw' \in [pc : {"idle", "work", "gate", "call"}, queue : SUBSET Nat]
            BY DEF Next1, GoalInv, WorkerOK
        <3>3. ClaimDue => cw' \in [pc : {"idle", "work", "gate", "call"}, queue : SUBSET Nat]
            BY Tables DEF ClaimDue, WorkerIdle
        <3>4. ASSUME \E p \in {"gate", "call"} : cw' = [cw EXCEPT !.pc = p], cw.pc # "resume"
              PROVE cw' \in [pc : {"idle", "work", "gate", "call"}, queue : SUBSET Nat]
            BY <3>4 DEF GoalInv, WorkerOK
        <3>5. cw' \in [pc : {"idle", "work", "gate", "call"}, queue : SUBSET Nat]
            BY <1>2, <2>3, <3>2, <3>3, <3>4 DEF WorkerStep, StartCommand, WriteLater, EnterCommand
        <3> QED
            BY <2>1, <3>1, <3>5 DEF GoalInv, LaneOK, WorkerOK, Unconfirmed
    <2> QED
        BY <2>2, <2>3
<1>3. CASE Reconcile
    <2>1. UNCHANGED <<env, token, lane, goal>>
        BY <1>3 DEF Reconcile, ReconcileCommand, ReconcileStep, OutsideWorker
    <2>2. cw' = cw \/ cw' = [pc |-> "resume", queue |-> {}, seen |-> goal]
        BY <1>3 DEF Reconcile, ReconcileCommand, ReconcileStep, Resume
    <2> QED
        BY <2>1, <2>2 DEF GoalInv, LaneOK, WorkerOK, Unconfirmed
<1>4. ASSUME NEW b \in BOOLEAN, Confirm(b) PROVE GoalInv'
    <2>1. UNCHANGED <<env, lane, cw>>
        BY <1>4 DEF Confirm
    <2>2. CASE b
        BY <1>4, <2>1, <2>2 DEF Confirm, Confirmable, GoalInv, LaneOK, WorkerOK, Unconfirmed
    <2>3. CASE ~b
        BY <1>4, <2>1, <2>3, GoalEdits DEF Confirm, Confirmable, GoalInv, LaneOK, WorkerOK, Unconfirmed
    <2> QED
        BY <2>2, <2>3
<1>5. ASSUME NEW b \in BOOLEAN, NEW c \in BOOLEAN, Crash(b, c) PROVE GoalInv'
    <2>1. goal' \in Versions(goal)
        <3>1. goal' = RecoveredGoal(goal, cmds, steps, env.class)
            BY <1>5 DEF Crash
        <3>2. goal' = goal \/ goal' = [goal EXCEPT !.status = "planned"]
            BY <3>1 DEF RecoveredGoal
        <3>3. goal \in GoalRow
            BY DEF GoalInv
        <3>4. [goal EXCEPT !.status = "planned"] \in Versions(goal) /\ goal \in Versions(goal)
            BY <3>3, GoalEdits DEF Versions
        <3> QED
            BY <3>2, <3>4
    <2>2. lane' = LaneIdle /\ cw' = WorkerIdle /\ UNCHANGED <<env, token>>
        BY <1>5 DEF Crash
    <2> QED
        BY <2>1, <2>2 DEF GoalInv, LaneOK, WorkerOK, Unconfirmed, Versions, LaneIdle, WorkerIdle
<1>6. CASE UNCHANGED <<env, token, goal, lane, cw>>
    BY <1>6 DEF GoalInv, LaneOK, WorkerOK, Unconfirmed
<1>7. SetFreeze \/ Sync \/ (\E i \in DOMAIN cmds : Expire(i))
          \/ (\E r \in {"now", "later"}, v \in {"base", "other"} : Edit(r, v)) => UNCHANGED <<env, token, goal, lane, cw>>
    BY DEF SetFreeze, Sync, Expire, Edit, durable
<1> QED
    BY <1>1, <1>2, <1>3, <1>4, <1>5, <1>6, <1>7 DEF Next, Outside, vars, durable
-----------------------------------------------------------------------------
(* The steps.                                                               *)

\* StepsInv is about the steps' unknown outcomes, the steps and the lane.
LEMMA StepsFrame ==
    ASSUME StepsInv, UNCHANGED <<env, steps>>, Unconfirmed' => Unconfirmed,
           lane' = lane \/ lane'.pc \notin Busy,
           \A j \in Nat : <<"step", j>> \in unknown' => <<"step", j>> \in unknown
    PROVE  StepsInv'
<1>1. CASE lane' = lane
    BY <1>1 DEF StepsInv, Current
<1>2. CASE lane'.pc \notin Busy
    BY <1>2 DEF StepsInv
<1> QED
    BY <1>1, <1>2

\* The lane's step ends, and the lane leaves it.
LEMMA StepsSettled ==
    ASSUME StepsInv, lane.pc \in Busy, lane'.pc \notin Busy, UNCHANGED <<env, token>>,
           NEW st \in StepDone \cup {"reconciling"}, Settle(st),
           \A j \in Nat : <<"step", j>> \in unknown' => <<"step", j>> \in unknown \/ (j = lane.step /\ st = "reconciling")
    PROVE  StepsInv'
<1> DEFINE k == lane.step
           row == [steps[k] EXCEPT !.status = st]
<1>1. k \in DOMAIN steps /\ steps[k] \in Step /\ steps[k].status = "running" /\ DOMAIN steps \subseteq Nat
    BY Tables DEF StepsInv
<1>2. row \in Step /\ row.call = steps[k].call /\ row.marked = steps[k].marked /\ row.status = st
    BY <1>1 DEF Step, StepDone
<1>3. steps' = [steps EXCEPT ![k] = row]
    BY DEF Settle
<1> HIDE DEF row
<1>4. steps' \in Seq(Step) /\ DOMAIN steps' = DOMAIN steps
    BY <1>1, <1>2, <1>3, Tables DEF StepsInv
<1>5. \A j \in DOMAIN steps : /\ steps'[j].call = steps[j].call /\ steps'[j].marked = steps[j].marked
                              /\ j # k => steps'[j].status = steps[j].status
                              /\ j = k => steps'[j].status = st
    BY <1>1, <1>2, <1>3
<1>6. ASSUME NEW j \in Nat, <<"step", j>> \in unknown'
      PROVE  j \in DOMAIN steps' /\ (Readable(steps'[j], env'.class) => steps'[j].status = "reconciling")
    BY <1>1, <1>4, <1>5, <1>6 DEF StepsInv, Readable
<1> QED
    BY <1>4, <1>5, <1>6 DEF StepsInv, Unconfirmed

\* After a turn of the lane that writes nothing and starts no call.
LEMMA QuietTurns ==
    ASSUME StepsInv, LaneOK,
           \/ ClaimGoal \/ Yield \/ OutOfTurns \/ Conclude \/ BadContract \/ Read \/ Fallback
           \/ \E b \in BOOLEAN : ProviderError(b)
    PROVE  StepsInv'
<1>1. UNCHANGED <<env, token, steps, unknown>>
    BY DEF ClaimGoal, Yield, OutOfTurns, Conclude, BadContract, Read, ProviderError, Fallback, OutsideLane
<1>2. lane'.pc \notin Busy
    <2>1. LaneIdle.pc = "idle" /\ "idle" \notin Busy /\ "turn" \notin Busy
        BY DEF LaneIdle, Busy
    <2>2. lane.pc = "turn" => lane \in [pc : {"turn"} \cup Busy, mine : GoalRow, step : Nat]
        BY <2>1 DEF LaneOK
    <2>3. ASSUME NEW m, lane.pc = "turn", Continue(m) PROVE lane'.pc = "turn"
        BY <2>2, <2>3 DEF Continue
    <2>4. Fallback => lane'.pc = "turn"
        BY <2>2 DEF Fallback, Turn
    <2>5. ClaimGoal => lane'.pc = "turn"
        BY DEF ClaimGoal
    <2>6. OutOfTurns \/ Yield \/ Conclude \/ (\E b \in BOOLEAN : ProviderError(b)) => lane' = LaneIdle
        BY DEF OutOfTurns, Yield, Conclude, ProviderError, Stop
    <2>7. BadContract \/ Read => lane' = LaneIdle \/ lane'.pc = "turn"
        BY <2>3 DEF BadContract, Read, Turn
    <2> QED
        BY <2>1, <2>4, <2>5, <2>6, <2>7
<1> QED
    BY <1>1, <1>2, StepsFrame DEF Unconfirmed

\* A call of the model adds a step: one to run only when its call is confirmed where
\* that is needed, and no step in quarantine makes the same call.
LEMMA CallToolSteps ==
    ASSUME StepsInv, GoalInv, NEW c \in ToolCall, CallTool(c)
    PROVE  StepsInv'
<1>1. UNCHANGED <<env, token, unknown>> /\ lane.pc = "turn"
    BY DEF CallTool, OutsideLane, Turn
<1>2. LaneIdle.pc = "idle" /\ "idle" \notin Busy /\ "turn" \notin Busy
    BY DEF LaneIdle, Busy
<1>3. lane \in [pc : {"turn"} \cup Busy, mine : GoalRow, step : Nat]
    BY <1>1, <1>2 DEF GoalInv, LaneOK
<1>4. CASE UNCHANGED steps
    <2>1. lane' = LaneIdle \/ Continue(Counted)
        BY <1>4 DEF CallTool, StepsInv
    <2>2. lane'.pc \notin Busy
        BY <1>2, <1>3, <2>1 DEF Continue
    <2> QED
        BY <1>1, <1>4, <2>2, StepsFrame DEF Unconfirmed
<1>5. ASSUME NEW st \in {"skipped", "failed", "running"}, steps' = Append(steps, NewStep(c, st))
      PROVE  /\ steps' \in Seq(Step) /\ DOMAIN steps' = DOMAIN steps \cup {Len(steps) + 1}
             /\ \A j \in DOMAIN steps : steps'[j] = steps[j]
             /\ steps'[Len(steps) + 1] = NewStep(c, st) /\ ~NewStep(c, st).marked
             /\ NewStep(c, st).call = c /\ NewStep(c, st).status = st
             /\ \A j \in Nat : <<"step", j>> \in unknown' =>
                    /\ j \in DOMAIN steps'
                    /\ Readable(steps'[j], env'.class) => steps'[j].status = "reconciling"
    <2>1. NewStep(c, st) \in Step /\ ~NewStep(c, st).marked /\ NewStep(c, st).call = c /\ NewStep(c, st).status = st
        BY <1>5 DEF NewStep, Step, StepDone
    <2> HIDE DEF NewStep
    <2>2. /\ steps' \in Seq(Step) /\ DOMAIN steps' = DOMAIN steps \cup {Len(steps) + 1}
          /\ \A j \in DOMAIN steps : steps'[j] = steps[j]
          /\ steps'[Len(steps) + 1] = NewStep(c, st)
        BY <1>5, <2>1, Tables DEF StepsInv
    <2> QED
        BY <1>1, <2>1, <2>2 DEF StepsInv
<1>6. CASE Continue(Counted)
    <2>1. lane'.pc \notin Busy
        BY <1>2, <1>3, <1>6 DEF Continue
    <2>2. CASE steps' # steps
        <3>1. PICK st \in {"skipped", "failed", "running"} : steps' = Append(steps, NewStep(c, st))
            BY <2>2 DEF CallTool
        <3> QED
            BY <1>1, <1>5, <2>1, <3>1 DEF StepsInv, Unconfirmed
    <2> QED
        BY <1>4, <2>2
<1>7. CASE /\ Allowed(c) /\ ~Quarantined(c) /\ steps' = Append(steps, NewStep(c, "running"))
           /\ lane' = [lane EXCEPT !.pc = "step", !.mine = Counted, !.step = Len(steps) + 1]
    <2>1. lane'.pc = "step" /\ lane'.step = Len(steps) + 1
        BY <1>3, <1>7
    <2>2. ~Unconfirmed'
        BY <1>1, <1>2, <1>7 DEF Allowed, Chat, GoalInv, Unconfirmed
    <2>3. \A j \in DOMAIN steps : steps[j].call = c => steps[j].status # "reconciling"
        BY <1>7 DEF Quarantined
    <2>4. Current' = c
        BY <1>5, <1>7, <2>1 DEF Current
    <2>5. \A j \in DOMAIN steps' : steps'[j].call = Current' => steps'[j].status # "reconciling"
        BY <1>5, <1>7, <2>3, <2>4
    <2> QED
        BY <1>5, <1>7, <2>1, <2>2, <2>5 DEF StepsInv
<1> QED
    BY <1>4, <1>6, <1>7 DEF CallTool

\* The marker is set before the gate: the write can be read back later.
LEMMA MarkSteps ==
    ASSUME StepsInv, GoalInv, WorldOK, NEW over \in BOOLEAN, MarkStep(over)
    PROVE  StepsInv'
<1>1. UNCHANGED <<env, token, unknown>> /\ lane.pc = "step" /\ lane.pc \in Busy
    BY DEF MarkStep, OutsideLane, Busy
<1>2. CASE over
    BY <1>1, <1>2, StepsFrame DEF MarkStep, Stop, LaneIdle, Busy, Unconfirmed
<1>3. CASE ~over
    <2> DEFINE k == lane.step
               row == MarkedStep(steps[k], Baseline("now"))
    <2>1. k \in DOMAIN steps /\ steps[k] \in Step /\ steps[k].status = "running"
        BY <1>1, Tables DEF StepsInv
    <2>2. row \in Step /\ row.call = steps[k].call /\ row.marked /\ row.status = "running"
        BY <2>1 DEF MarkedStep, Baseline, WorldOK, Value, Step
    <2>3. steps' = [steps EXCEPT ![k] = row] /\ lane' = [lane EXCEPT !.pc = "gate"]
        BY <1>3 DEF MarkStep
    <2>4. lane'.pc = "gate" /\ lane'.step = k
        BY <1>1, <2>3 DEF GoalInv, LaneOK, LaneIdle
    <2> HIDE DEF row
    <2>5. steps' \in Seq(Step) /\ DOMAIN steps' = DOMAIN steps
        BY <2>1, <2>2, <2>3, Tables DEF StepsInv
    <2>6. \A j \in DOMAIN steps : steps'[j].call = steps[j].call /\ steps'[j].status = steps[j].status
        BY <2>1, <2>2, <2>3
    <2>7. steps'[k].marked /\ ~Unconfirmed'
        BY <1>1, <2>1, <2>2, <2>3 DEF StepsInv, Unconfirmed
    <2>8. Current' = Current
        BY <2>1, <2>4, <2>6 DEF Current
    <2>9. \A j \in Nat : <<"step", j>> \in unknown' =>
                    /\ j \in DOMAIN steps'
                    /\ Readable(steps'[j], env'.class) => steps'[j].status = "reconciling"
        BY <1>1, <2>5, <2>6 DEF StepsInv, Readable
    <2>10. \A j \in DOMAIN steps' : steps'[j].call = Current' => steps'[j].status # "reconciling"
        BY <1>1, <2>5, <2>6, <2>8 DEF StepsInv
    <2> QED
        BY <2>1, <2>4, <2>5, <2>6, <2>7, <2>9, <2>10 DEF StepsInv
<1> QED
    BY <1>2, <1>3
\* The end of a call: the step is settled, or in quarantine with its outcome unknown.
LEMMA CallEnds ==
    ASSUME StepsInv, LaneOK,
           EnterCapability \/ Schedule \/ Cancel \/ (\E o \in Outcomes, b \in BOOLEAN : WriteNow(o, b))
    PROVE  StepsInv'
<1>1. UNCHANGED <<env, token>> /\ lane.pc \in {"gate", "call"} /\ lane.pc \in Busy
    BY DEF EnterCapability, Schedule, Cancel, WriteNow, OutsideLane, Busy
<1>2. lane \in [pc : {"turn"} \cup Busy, mine : GoalRow, step : Nat]
    BY <1>1 DEF LaneOK, LaneIdle
<1>3. LaneIdle.pc = "idle" /\ "idle" \notin Busy /\ "turn" \notin Busy
    BY DEF LaneIdle, Busy
<1>4. ASSUME NEW m, Continue(m) PROVE lane'.pc \notin Busy
    BY <1>2, <1>3, <1>4 DEF Continue
<1>5. FailStep \/ StepCompleted => (Settle("failed") \/ Settle("completed")) /\ lane'.pc \notin Busy
    BY <1>4 DEF FailStep, StepCompleted
<1>6. \A st : Stop(st) => lane'.pc \notin Busy
    BY <1>3 DEF Stop
<1>7. CASE EnterCapability
    <2>1. unknown' = unknown
        BY <1>7 DEF EnterCapability, OutsideLane
    <2>2. CASE lane' = [lane EXCEPT !.pc = "call"] /\ UNCHANGED steps
        <3>1. lane'.pc = "call" /\ lane'.step = lane.step /\ lane.pc = "gate" /\ Current' = Current
            BY <1>2, <1>7, <2>2 DEF EnterCapability, Current
        <3> QED
            BY <1>1, <2>1, <2>2, <3>1 DEF StepsInv, Unconfirmed, Busy
    <2>3. CASE FailStep \/ (Settle("skipped") /\ Stop("waiting"))
        <3>1. PICK st \in StepDone : Settle(st)
            BY <1>5, <2>3 DEF StepDone
        <3>2. lane'.pc \notin Busy
            BY <1>5, <1>6, <2>3
        <3> QED
            BY <1>1, <2>1, <3>1, <3>2, StepsSettled
    <2> QED
        BY <1>7, <2>2, <2>3 DEF EnterCapability
<1>8. CASE Schedule \/ Cancel
    <2>1. unknown' = unknown /\ (FailStep \/ StepCompleted)
        BY <1>8 DEF Schedule, Cancel, history
    <2>2. PICK st \in StepDone : Settle(st)
        BY <1>5, <2>1 DEF StepDone
    <2> QED
        BY <1>1, <1>5, <2>1, <2>2, StepsSettled
<1>9. ASSUME NEW o \in Outcomes, NEW b \in BOOLEAN, WriteNow(o, b) PROVE StepsInv'
    <2>1. CASE o = "uncertain"
        <3>1. Settle("reconciling") /\ Stop("planned") /\ unknown' = unknown \cup {<<"step", lane.step>>}
            BY <1>9, <2>1 DEF WriteNow
        <3> QED
            BY <1>1, <1>6, <3>1, StepsSettled
    <2>2. CASE o # "uncertain"
        <3>1. unknown' = unknown /\ (FailStep \/ StepCompleted)
            BY <1>9, <2>2 DEF WriteNow, Outcomes
        <3>2. PICK st \in StepDone : Settle(st)
            BY <1>5, <3>1 DEF StepDone
        <3> QED
            BY <1>1, <1>5, <3>1, <3>2, StepsSettled
    <2> QED
        BY <2>1, <2>2
<1> QED
    BY <1>7, <1>8, <1>9

\* A reconciliation takes one step out of quarantine; the lane's own is not there.
LEMMA ReconcileSteps ==
    ASSUME StepsInv, NEW i \in DOMAIN steps, ReconcileStep(i)
    PROVE  StepsInv'
<1>1. UNCHANGED <<env, token, lane>> /\ unknown' = unknown \ {<<"step", i>>} /\ steps[i].status = "reconciling"
    BY DEF ReconcileStep, OutsideWorker
<1>2. PICK st \in {"completed", "failed"} : steps' = [steps EXCEPT ![i].status = st]
    BY DEF ReconcileStep
<1> DEFINE row == [steps[i] EXCEPT !.status = st]
<1>3. steps[i] \in Step
    BY Tables DEF StepsInv
<1>4. row \in Step /\ row.call = steps[i].call /\ row.marked = steps[i].marked /\ row.status = st
    BY <1>3 DEF Step, StepDone
<1>5. steps' = [steps EXCEPT ![i] = row]
    BY <1>2
<1> HIDE DEF row
<1>6. steps' \in Seq(Step) /\ DOMAIN steps' = DOMAIN steps
    BY <1>4, <1>5, Tables DEF StepsInv
<1>7. \A j \in DOMAIN steps : /\ steps'[j].call = steps[j].call /\ steps'[j].marked = steps[j].marked
                              /\ j # i => steps'[j].status = steps[j].status
                              /\ j = i => steps'[j].status # "reconciling"
    BY <1>4, <1>5
<1>8. \A j \in Nat : <<"step", j>> \in unknown' =>
                    /\ j \in DOMAIN steps'
                    /\ Readable(steps'[j], env'.class) => steps'[j].status = "reconciling"
    BY <1>1, <1>6, <1>7 DEF StepsInv, Readable
<1>9. lane.pc \in Busy => lane.step \in DOMAIN steps /\ lane.step # i /\ Current' = Current
    BY <1>1, <1>7 DEF StepsInv, Current
<1>10. lane.pc \in Busy => \A j \in DOMAIN steps' : steps'[j].call = Current' => steps'[j].status # "reconciling"
    BY <1>6, <1>7, <1>9 DEF StepsInv
<1> QED
    BY <1>1, <1>6, <1>7, <1>8, <1>9, <1>10 DEF StepsInv, Unconfirmed

\* After a restart a step that was being written is in quarantine, if it can be read back.
LEMMA CrashSteps ==
    ASSUME StepsInv, NEW s \in BOOLEAN, NEW c \in BOOLEAN, Crash(s, c)
    PROVE  StepsInv'
<1>1. /\ UNCHANGED <<env, token>> /\ lane' = LaneIdle
      /\ steps' = [i \in DOMAIN steps |-> RecoveredStep(steps[i], env.class)]
    BY DEF Crash
<1>2. \A j \in DOMAIN steps : steps[j] \in Step
    BY Tables DEF StepsInv
<1>3. DOMAIN steps' = DOMAIN steps /\ \A j \in DOMAIN steps : steps'[j] = RecoveredStep(steps[j], env.class)
    BY <1>1
<1>4. \A j \in DOMAIN steps :
          /\ steps'[j] \in Step /\ steps'[j].call = steps[j].call /\ steps'[j].marked = steps[j].marked
          /\ Readable(steps[j], env.class) /\ steps[j].status = "reconciling" => steps'[j].status = "reconciling"
          /\ Readable(steps[j], env.class) /\ steps[j].status = "running" /\ steps[j].marked =>
                 steps'[j].status = "reconciling"
    BY <1>2, <1>3, RecoveredStepRow
<1>5. steps' \in Seq(Step)
    <2>1. steps' \in [DOMAIN steps -> Step]
        BY <1>1, <1>3, <1>4
    <2> QED
        BY <2>1, Tables DEF StepsInv
<1>6. \A j \in Nat : <<"step", j>> \in unknown' =>
          <<"step", j>> \in unknown \/ (lane.pc = "call" /\ j = lane.step)
    BY DEF Crash
<1>7. \A j \in Nat : <<"step", j>> \in unknown' =>
                    /\ j \in DOMAIN steps'
                    /\ Readable(steps'[j], env'.class) => steps'[j].status = "reconciling"
    BY <1>1, <1>3, <1>4, <1>6 DEF StepsInv, Readable, Busy
<1>8. lane'.pc \notin Busy
    BY <1>1 DEF LaneIdle, Busy
<1> QED
    BY <1>1, <1>3, <1>4, <1>5, <1>7, <1>8 DEF StepsInv, Unconfirmed

\* The steps after every step of the system.
LEMMA StepsStep ==
    ASSUME StepsInv, GoalInv, WorldOK, [Next]_vars
    PROVE  StepsInv'
<1>0. LaneOK
    BY DEF GoalInv
<1>1. CASE LaneStep
    BY <1>0, <1>1, QuietTurns, CallToolSteps, MarkSteps, CallEnds DEF LaneStep
<1>2. CASE WorkerStep \/ (\E b \in BOOLEAN : StartCommand(b))
    <2>1. UNCHANGED <<env, token, lane, steps>>
        BY <1>2 DEF WorkerStep, ClaimDue, ResumeGoal, StartCommand, WriteLater, EnterCommand, OutsideWorker
    <2>2. unknown' = unknown \/ unknown' = unknown \cup {<<"cmd", Head1>>}
        BY <1>2 DEF WorkerStep, ClaimDue, ResumeGoal, StartCommand, WriteLater, EnterCommand, history
    <2>3. \A j \in Nat : <<"step", j>> \in unknown' => <<"step", j>> \in unknown
        BY <2>2
    <2> QED
        BY <2>1, <2>3, StepsFrame DEF Unconfirmed
<1>3. CASE Reconcile
    <2>1. ASSUME NEW i \in DOMAIN cmds, ReconcileCommand(i) PROVE StepsInv'
        BY <2>1, StepsFrame DEF ReconcileCommand, OutsideWorker, Unconfirmed
    <2> QED
        BY <1>3, <2>1, ReconcileSteps DEF Reconcile
<1>4. ASSUME NEW b \in BOOLEAN, Confirm(b) PROVE StepsInv'
    <2>1. UNCHANGED <<env, steps, lane, unknown>> /\ token = "pending"
        BY <1>4 DEF Confirm, history
    <2> QED
        BY <2>1, StepsFrame DEF Unconfirmed
<1>5. CASE \E b, c \in BOOLEAN : Crash(b, c)
    BY <1>5, CrashSteps
<1>6. CASE UNCHANGED <<env, token, steps, lane, unknown>>
    BY <1>6, StepsFrame DEF Unconfirmed
<1>7. SetFreeze \/ Sync \/ (\E i \in DOMAIN cmds : Expire(i))
          \/ (\E r \in {"now", "later"}, v \in {"base", "other"} : Edit(r, v)) => UNCHANGED <<env, token, steps, lane, unknown>>
    BY DEF SetFreeze, Sync, Expire, Edit, durable, history
<1> QED
    BY <1>1, <1>2, <1>3, <1>4, <1>5, <1>6, <1>7 DEF Next, Outside, vars, durable, history
-----------------------------------------------------------------------------
(* The commands.                                                            *)

\* Steps that leave the commands alone may only touch the other resource.
LEMMA CommandsFrame ==
    ASSUME CommandsInv, UNCHANGED <<cmds, cw, doubled, snap>>, effect' \subseteq effect,
           effect' # {} => world'.later = world.later,
           \A j \in Nat : <<"cmd", j>> \in unknown' => <<"cmd", j>> \in unknown,
           \A j \in Nat : <<"cmd", j>> \in fresh' => <<"cmd", j>> \in fresh
    PROVE  CommandsInv'
<1>1. DOMAIN cmds \subseteq Nat
    BY Tables DEF CommandsInv
<1>2. \A i \in effect' : /\ i \in DOMAIN cmds /\ Past(cmds[i]) /\ world'.later = "target" /\ i \in Nat
                         /\ cmds[i].status = "leased" => <<"cmd", i>> \notin fresh'
                         /\ cmds[i].status = "reconciling" /\ <<"cmd", i>> \in fresh' => snap.later = "target"
    BY <1>1 DEF CommandsInv
<1>3. \A i \in cw.queue : /\ i \in DOMAIN cmds /\ cmds[i].status = "leased"
                          /\ <<"cmd", i>> \notin unknown' /\ i \notin effect'
    BY <1>1 DEF CommandsInv
<1> QED
    BY <1>2, <1>3 DEF CommandsInv

\* The worker's next command: leased, and no write of it can be in the system.
LEMMA HeadReady ==
    ASSUME GoalInv, CommandsInv, cw.pc \in {"work", "gate", "call"}
    PROVE  /\ Head1 \in cw.queue /\ Head1 \in DOMAIN cmds /\ Head1 \in Nat /\ cmds[Head1] \in Command
           /\ cmds[Head1].status = "leased" /\ <<"cmd", Head1>> \notin unknown /\ Head1 \notin effect
           /\ cw.pc \in {"gate", "call"} => cmds[Head1].marked
           /\ cw \in [pc : {"idle", "work", "gate", "call"}, queue : SUBSET Nat]
<1>1. cw \in [pc : {"idle", "work", "gate", "call"}, queue : SUBSET Nat]
    BY DEF GoalInv, WorkerOK
<1>2. Head1 \in cw.queue /\ \A e \in cw.queue : Head1 <= e
    BY <1>1, HeadQueued DEF CommandsInv
<1> QED
    BY <1>1, <1>2, Tables DEF CommandsInv

\* The worker is done with its next command and leaves it in any state that fits
\* what became of the write.
LEMMA HeadLeft ==
    ASSUME GoalInv, CommandsInv, cw.pc \in {"work", "gate", "call"}, Next1,
           NEW row \in Command, cmds' = [cmds EXCEPT ![Head1] = row],
           UNCHANGED snap, ~doubled', effect' \subseteq effect \cup {Head1},
           effect' # {} => world'.later = "target",
           \A j \in Nat : <<"cmd", j>> \in unknown' => <<"cmd", j>> \in unknown \/ j = Head1,
           \A j \in Nat : <<"cmd", j>> \in fresh' => <<"cmd", j>> \in fresh,
           <<"cmd", Head1>> \in unknown' \/ Head1 \in effect' => Past(row),
           Head1 \in effect' /\ row.status \in {"leased", "reconciling"} => <<"cmd", Head1>> \notin fresh'
    PROVE  CommandsInv'
<1> DEFINE h == Head1
<1>1. /\ h \in cw.queue /\ h \in DOMAIN cmds /\ h \in Nat /\ cmds[h].status = "leased"
      /\ <<"cmd", h>> \notin unknown /\ h \notin effect
    BY HeadReady
<1>2. cw' = [pc |-> IF cw.queue = {h} THEN "idle" ELSE "work", queue |-> cw.queue \ {h}]
    BY DEF Next1
<1> HIDE DEF h
<1>3. cw'.queue = cw.queue \ {h} /\ cw'.pc = (IF cw.queue = {h} THEN "idle" ELSE "work")
    BY <1>2
<1>4. /\ cmds' \in Seq(Command) /\ DOMAIN cmds' = DOMAIN cmds /\ DOMAIN cmds \subseteq Nat
      /\ \A j \in DOMAIN cmds : j # h => cmds'[j] = cmds[j]
      /\ cmds'[h] = row
    BY <1>1, Tables DEF CommandsInv, h
<1>5. \A i \in Nat : <<"cmd", i>> \in unknown' => i \in DOMAIN cmds' /\ Past(cmds'[i])
    BY <1>1, <1>4 DEF CommandsInv, h
<1>6. ASSUME NEW i \in effect'
      PROVE  /\ i \in DOMAIN cmds' /\ Past(cmds'[i]) /\ world'.later = "target"
             /\ cmds'[i].status = "leased" => <<"cmd", i>> \notin fresh'
             /\ cmds'[i].status = "reconciling" /\ <<"cmd", i>> \in fresh' => snap'.later = "target"
    <2>1. CASE i = h
        BY <1>1, <1>4, <2>1 DEF h
    <2>2. CASE i # h
        BY <1>4, <2>2 DEF CommandsInv, h
    <2> QED
        BY <2>1, <2>2
<1>7. cw'.queue # {} <=> cw'.pc \in {"work", "gate", "call"}
    BY <1>1, <1>3
<1>8. \A i \in cw'.queue : /\ i \in DOMAIN cmds' /\ cmds'[i].status = "leased"
                           /\ <<"cmd", i>> \notin unknown' /\ i \notin effect'
    BY <1>3, <1>4 DEF CommandsInv, h
<1>9. cw'.pc \notin {"gate", "call"}
    BY <1>3
<1> QED
    BY <1>4, <1>5, <1>6, <1>7, <1>8, <1>9 DEF CommandsInv

\* The due commands are claimed: none of them has written.
LEMMA ClaimCommands ==
    ASSUME CommandsInv, ClaimDue
    PROVE  CommandsInv'
<1> DEFINE after == [i \in DOMAIN cmds |-> Claimed(cmds[i])]
           due == {i \in DOMAIN cmds : after[i].status = "leased"}
<1>1. /\ cmds' = after /\ cw' = (IF due = {} THEN WorkerIdle ELSE [pc |-> "work", queue |-> due])
      /\ UNCHANGED <<snap, world, fresh, unknown, effect, doubled>>
    BY DEF ClaimDue, OutsideWorker, history
<1>2. DOMAIN cmds \subseteq Nat /\ \A j \in DOMAIN cmds : cmds[j] \in Command
    BY Tables DEF CommandsInv
<1>3. \A j \in DOMAIN cmds :
          /\ after[j] \in Command
          /\ Past(cmds[j]) => /\ Past(after[j]) /\ after[j].status # "leased"
                              /\ cmds[j].status # "leased" => after[j] = cmds[j]
    BY <1>2, ClaimedRow
<1>4. DOMAIN after = DOMAIN cmds /\ after \in [DOMAIN cmds -> Command]
    BY <1>3
<1>5. after \in Seq(Command)
    BY <1>4, Tables DEF CommandsInv
<1> HIDE DEF after
<1>6. cw'.queue = due /\ cw'.pc = (IF due = {} THEN "idle" ELSE "work")
    BY <1>1 DEF WorkerIdle
<1>7. \A i \in Nat : <<"cmd", i>> \in unknown' => i \in DOMAIN cmds' /\ Past(cmds'[i])
    BY <1>1, <1>3, <1>4 DEF CommandsInv
<1>8. ASSUME NEW i \in effect'
      PROVE  /\ i \in DOMAIN cmds' /\ Past(cmds'[i]) /\ world'.later = "target"
             /\ cmds'[i].status = "leased" => <<"cmd", i>> \notin fresh'
             /\ cmds'[i].status = "reconciling" /\ <<"cmd", i>> \in fresh' => snap'.later = "target"
    BY <1>1, <1>3, <1>4 DEF CommandsInv
<1>9. \A i \in due : /\ i \in DOMAIN cmds' /\ cmds'[i].status = "leased"
                     /\ <<"cmd", i>> \notin unknown' /\ i \notin effect'
    BY <1>1, <1>2, <1>3, <1>4 DEF CommandsInv
<1> QED
    BY <1>1, <1>5, <1>6, <1>7, <1>8, <1>9 DEF CommandsInv

\* The worker's steps on its next command.
LEMMA StartCommands ==
    ASSUME GoalInv, CommandsInv, WorldOK, NEW lost \in BOOLEAN, StartCommand(lost)
    PROVE  CommandsInv'
<1>1. cw.pc = "work" /\ UNCHANGED <<snap, world, fresh, unknown, effect, doubled>>
    BY DEF StartCommand, OutsideWorker, history
<1>2. /\ Head1 \in cw.queue /\ Head1 \in DOMAIN cmds /\ Head1 \in Nat /\ cmds[Head1] \in Command
      /\ cmds[Head1].status = "leased" /\ <<"cmd", Head1>> \notin unknown /\ Head1 \notin effect
      /\ cw \in [pc : {"idle", "work", "gate", "call"}, queue : SUBSET Nat]
    BY <1>1, HeadReady
<1>3. CASE frozen
    <2>1. Next1
        BY <1>3 DEF StartCommand
    <2>2. PICK row \in Command : cmds' = [cmds EXCEPT ![Head1] = row]
        <3>1. CASE lost
            <4>1. cmds' = cmds /\ cmds = [cmds EXCEPT ![Head1] = cmds[Head1]]
                BY <1>2, <1>3, <3>1 DEF StartCommand, CommandsInv
            <4> QED
                BY <1>2, <4>1
        <3>2. CASE ~lost
            BY <1>2, <1>3, <3>2, CommandEdits DEF StartCommand, Value
        <3> QED
            BY <3>1, <3>2
    <2>3. ~doubled' /\ (effect' # {} => world'.later = "target")
        BY <1>1 DEF CommandsInv
    <2> QED
        BY <1>1, <1>2, <2>1, <2>2, <2>3, HeadLeft
<1>4. CASE ~frozen
    <2> DEFINE row == Marked(cmds[Head1], Baseline("later"))
    <2>1. cmds' = [cmds EXCEPT ![Head1] = row] /\ cw' = [cw EXCEPT !.pc = "gate"]
        BY <1>4 DEF StartCommand
    <2>2. row \in Command /\ row.status = "leased" /\ row.marked
        <3>1. Baseline("later") \in Value
            BY DEF Baseline, WorldOK
        <3> QED
            BY <1>2, <3>1, CommandEdits
    <2> HIDE DEF row
    <2>3. cw'.queue = cw.queue /\ cw'.pc = "gate"
        BY <1>2, <2>1
    <2>4. /\ cmds' \in Seq(Command) /\ DOMAIN cmds' = DOMAIN cmds /\ DOMAIN cmds \subseteq Nat
          /\ \A j \in DOMAIN cmds : j # Head1 => cmds'[j] = cmds[j]
          /\ cmds'[Head1] = row
        BY <1>2, <2>1, <2>2, Tables DEF CommandsInv
    <2>5. \A i \in Nat : <<"cmd", i>> \in unknown' => i \in DOMAIN cmds' /\ Past(cmds'[i])
        BY <1>1, <1>2, <2>4 DEF CommandsInv
    <2>6. ASSUME NEW i \in effect'
          PROVE  /\ i \in DOMAIN cmds' /\ Past(cmds'[i]) /\ world'.later = "target"
                 /\ cmds'[i].status = "leased" => <<"cmd", i>> \notin fresh'
                 /\ cmds'[i].status = "reconciling" /\ <<"cmd", i>> \in fresh' => snap'.later = "target"
        BY <1>1, <1>2, <2>4 DEF CommandsInv
    <2>7. \A i \in cw'.queue : /\ i \in DOMAIN cmds' /\ cmds'[i].status = "leased"
                               /\ <<"cmd", i>> \notin unknown' /\ i \notin effect'
        BY <1>1, <1>2, <2>2, <2>3, <2>4 DEF CommandsInv
    <2>8. ASSUME NEW i \in cw'.queue, \A j \in cw'.queue : i <= j PROVE cmds'[i].marked
        <3>1. i <= Head1 /\ Head1 <= i /\ i \in Nat
            BY <1>2, <2>3, <2>8, HeadQueued
        <3>2. i = Head1
            BY <1>2, <3>1
        <3> QED
            BY <2>2, <2>4, <3>2
    <2> QED
        BY <1>1, <1>2, <2>3, <2>4, <2>5, <2>6, <2>7, <2>8 DEF CommandsInv
<1> QED
    BY <1>3, <1>4
\* The command enters the write gate, or leaves the queue without writing.
LEMMA EnterCommands ==
    ASSUME GoalInv, CommandsInv, EnterCommand
    PROVE  CommandsInv'
<1>1. cw.pc = "gate" /\ UNCHANGED <<snap, world, fresh, unknown, effect, doubled>>
    BY DEF EnterCommand, OutsideWorker
<1>2. /\ Head1 \in cw.queue /\ Head1 \in DOMAIN cmds /\ Head1 \in Nat /\ cmds[Head1] \in Command
      /\ <<"cmd", Head1>> \notin unknown /\ Head1 \notin effect
      /\ cw \in [pc : {"idle", "work", "gate", "call"}, queue : SUBSET Nat]
    BY <1>1, HeadReady
<1>3. CASE Next1 /\ cmds' # cmds
    <2>1. PICK row \in Command : cmds' = [cmds EXCEPT ![Head1] = row]
        BY <1>2, <1>3, CommandEdits DEF EnterCommand, Value
    <2>2. ~doubled' /\ (effect' # {} => world'.later = "target")
        BY <1>1 DEF CommandsInv
    <2> QED
        BY <1>1, <1>2, <1>3, <2>1, <2>2, HeadLeft
<1>4. CASE Next1 /\ cmds' = cmds
    <2>1. cmds' = [cmds EXCEPT ![Head1] = cmds[Head1]]
        BY <1>2, <1>4 DEF CommandsInv
    <2>2. ~doubled' /\ (effect' # {} => world'.later = "target")
        BY <1>1 DEF CommandsInv
    <2> QED
        BY <1>1, <1>2, <1>4, <2>1, <2>2, HeadLeft
<1>5. CASE cw' = [cw EXCEPT !.pc = "call"] /\ cmds' = cmds
    <2>1. cw'.queue = cw.queue /\ cw'.pc = "call"
        BY <1>2, <1>5
    <2> QED
        BY <1>1, <1>5, <2>1 DEF CommandsInv
<1> QED
    BY <1>3, <1>4, <1>5 DEF EnterCommand

\* The write of a command: what landed is not sent again before a readback, and its
\* row is finished, in quarantine, or leased with the gate's marker.
LEMMA WriteCommands ==
    ASSUME GoalInv, CommandsInv, WorldOK,
           NEW o \in Outcomes \cup {"unrecorded"}, NEW b \in BOOLEAN, WriteLater(o, b)
    PROVE  CommandsInv'
<1>1. cw.pc = "call" /\ Next1 /\ UNCHANGED snap
    BY DEF WriteLater, OutsideWorker
<1>2. /\ Head1 \in cw.queue /\ Head1 \in DOMAIN cmds /\ Head1 \in Nat /\ cmds[Head1] \in Command
      /\ cmds[Head1].status = "leased" /\ cmds[Head1].marked
      /\ <<"cmd", Head1>> \notin unknown /\ Head1 \notin effect
    BY <1>1, HeadReady
<1> DEFINE c == cmds[Head1]
<1>3. PICK row \in {CompletedCommand(c), FailedCommand(c), MarkedReconciling(c), c} :
          cmds' = [cmds EXCEPT ![Head1] = row]
    BY DEF WriteLater, Outcomes
<1>4. row \in Command /\ Past(row)
    <2>1. "base" \in Value
        BY DEF Value
    <2>2. /\ CompletedCommand(c) \in Command /\ FailedCommand(c) \in Command /\ MarkedReconciling(c) \in Command
          /\ CompletedCommand(c).status = "completed" /\ FailedCommand(c).status = "failed"
          /\ MarkedReconciling(c).status = "reconciling"
        BY <1>2, <2>1, CommandEdits
    <2> QED
        BY <1>2, <2>2 DEF Past, CommandDone
<1>5. effect' = (IF b THEN effect \cup {Head1} ELSE effect) /\ ~doubled'
    BY <1>2 DEF WriteLater, Landing, CommandsInv
<1>6. effect' # {} => world'.later = "target"
    <2>1. world' = (IF b THEN [world EXCEPT !["later"] = "target"] ELSE world)
        BY DEF WriteLater, Written
    <2> QED
        BY <1>5, <2>1 DEF WorldOK, CommandsInv
<1>7. /\ unknown' = unknown \/ unknown' = unknown \cup {<<"cmd", Head1>>}
      /\ fresh' = fresh \/ fresh' = fresh \ {<<"cmd", Head1>>}
    BY DEF WriteLater
<1>8. row.status \in {"leased", "reconciling"} => <<"cmd", Head1>> \notin fresh'
    <2>1. CASE o \in {"uncertain", "unrecorded"}
        BY <2>1 DEF WriteLater
    <2>2. CASE o \in {"done", "refused"}
        <3>1. cmds'[Head1] \in {CompletedCommand(c), FailedCommand(c)} /\ cmds'[Head1] = row
            BY <1>2, <1>3, <2>2 DEF WriteLater, CommandsInv
        <3> QED
            BY <1>2, <3>1, CommandEdits DEF Value
    <2> QED
        BY <2>1, <2>2 DEF Outcomes
<1> HIDE DEF c
<1>9. /\ effect' \subseteq effect \cup {Head1}
      /\ \A j \in Nat : <<"cmd", j>> \in unknown' => <<"cmd", j>> \in unknown \/ j = Head1
      /\ \A j \in Nat : <<"cmd", j>> \in fresh' => <<"cmd", j>> \in fresh
    BY <1>5, <1>7
<1> QED
    BY <1>1, <1>3, <1>4, <1>5, <1>6, <1>8, <1>9, HeadLeft

\* A row that is not in the worker's hands is edited: it stays what it must be, and
\* enters neither the queue nor the quarantine.
LEMMA RowEdited ==
    ASSUME CommandsInv, NEW i \in DOMAIN cmds, NEW row \in Command, cmds' = [cmds EXCEPT ![i] = row],
           i \in cw.queue => row.status = cmds[i].status /\ row.marked = cmds[i].marked,
           row.status \in {"leased", "reconciling"} => row.status = cmds[i].status,
           <<"cmd", i>> \in unknown' \/ i \in effect' => Past(row),
           UNCHANGED <<snap, doubled, effect, fresh>>, world'.later = world.later,
           cw' = cw \/ (cw'.queue = {} /\ cw'.pc \in {"idle", "resume"}),
           \A j \in Nat : <<"cmd", j>> \in unknown' => <<"cmd", j>> \in unknown
    PROVE  CommandsInv'
<1>1. /\ cmds' \in Seq(Command) /\ DOMAIN cmds' = DOMAIN cmds /\ DOMAIN cmds \subseteq Nat
      /\ \A j \in DOMAIN cmds : j # i => cmds'[j] = cmds[j]
      /\ cmds'[i] = row
    BY Tables DEF CommandsInv
<1>2. \A j \in Nat : <<"cmd", j>> \in unknown' => j \in DOMAIN cmds' /\ Past(cmds'[j])
    BY <1>1 DEF CommandsInv
<1>3. ASSUME NEW j \in effect'
      PROVE  /\ j \in DOMAIN cmds' /\ Past(cmds'[j]) /\ world'.later = "target"
             /\ cmds'[j].status = "leased" => <<"cmd", j>> \notin fresh'
             /\ cmds'[j].status = "reconciling" /\ <<"cmd", j>> \in fresh' => snap'.later = "target"
    <2>1. CASE j = i
        BY <1>1, <2>1 DEF CommandsInv
    <2>2. CASE j # i
        BY <1>1, <2>2 DEF CommandsInv
    <2> QED
        BY <2>1, <2>2
<1>4. CASE cw' = cw
    <2>1. \A j \in cw'.queue : /\ j \in DOMAIN cmds' /\ cmds'[j].status = "leased"
                               /\ <<"cmd", j>> \notin unknown' /\ j \notin effect'
        BY <1>1, <1>4 DEF CommandsInv
    <2>2. cw'.pc \in {"gate", "call"} =>
              \A k \in cw'.queue : (\A j \in cw'.queue : k <= j) => cmds'[k].marked
        BY <1>1, <1>4 DEF CommandsInv
    <2> QED
        BY <1>1, <1>2, <1>3, <1>4, <2>1, <2>2 DEF CommandsInv
<1>5. CASE cw'.queue = {} /\ cw'.pc \in {"idle", "resume"}
    BY <1>1, <1>2, <1>3, <1>5 DEF CommandsInv
<1> QED
    BY <1>4, <1>5

\* A reconciliation sends a command back only when a fresh readback shows the
\* baseline: then no effect of it stands.
LEMMA ReconcileCommands ==
    ASSUME CommandsInv, WorldOK, NEW i \in DOMAIN cmds, ReconcileCommand(i)
    PROVE  CommandsInv'
<1> DEFINE v == Verdict(cmds[i].before, Baseline("later"), Fresh(<<"cmd", i>>))
           row == Reconciled(cmds[i], env.class, v)
<1>1. /\ cw.pc = "idle" /\ cmds[i].status = "reconciling" /\ row # cmds[i]
      /\ cmds' = [cmds EXCEPT ![i] = row] /\ unknown' = unknown \ {<<"cmd", i>>}
      /\ UNCHANGED <<snap, world, fresh, effect, doubled>>
    BY DEF ReconcileCommand, OutsideWorker
<1>2. cw' = cw \/ cw' = [pc |-> "resume", queue |-> {}, seen |-> goal]
    BY DEF ReconcileCommand, Resume
<1>3. cmds[i] \in Command /\ i \in Nat
    BY Tables DEF CommandsInv
<1>4. i \in effect => v \in {"applied", "inconclusive"}
    BY <1>1 DEF Verdict, TargetApplied, Baseline, Fresh, CommandsInv
<1> HIDE DEF v
<1>5. /\ row \in Command /\ (v \in {"applied", "inconclusive"} => Past(row))
      /\ row.status \notin {"leased", "reconciling"}
    BY <1>1, <1>3, ReconciledRow
<1> HIDE DEF row
<1>6. i \notin cw.queue
    BY <1>1 DEF CommandsInv
<1>7. /\ <<"cmd", i>> \notin unknown' /\ \A j \in Nat : <<"cmd", j>> \in unknown' => <<"cmd", j>> \in unknown
      /\ cw' = cw \/ (cw'.queue = {} /\ cw'.pc \in {"idle", "resume"})
    BY <1>1, <1>2
<1> QED
    BY <1>1, <1>4, <1>5, <1>6, <1>7, RowEdited
\* After a restart no command is leased; one that may have written is in quarantine
\* or finished.
LEMMA CrashCommands ==
    ASSUME GoalInv, CommandsInv, WorldOK, NEW s \in BOOLEAN, NEW c \in BOOLEAN, Crash(s, c)
    PROVE  CommandsInv'
<1>1. /\ cmds' = [i \in DOMAIN cmds |-> RecoveredCommand(cmds[i], env.class)]
      /\ cw' = WorkerIdle /\ fresh' = {} /\ (c => cw.pc = "call")
    BY DEF Crash
<1>2. DOMAIN cmds \subseteq Nat /\ \A j \in DOMAIN cmds : cmds[j] \in Command
    BY Tables DEF CommandsInv
<1>3. DOMAIN cmds' = DOMAIN cmds /\ \A j \in DOMAIN cmds : cmds'[j] = RecoveredCommand(cmds[j], env.class)
    BY <1>1
<1>4. \A j \in DOMAIN cmds : cmds'[j] \in Command /\ (Past(cmds[j]) => Past(cmds'[j]))
    BY <1>2, <1>3, RecoveredRow
<1>5. cmds' \in Seq(Command)
    <2>1. cmds' \in [DOMAIN cmds -> Command]
        BY <1>1, <1>3, <1>4
    <2> QED
        BY <2>1, Tables DEF CommandsInv
<1>6. cw.pc = "call" => Head1 \in DOMAIN cmds /\ Past(cmds[Head1]) /\ Head1 \notin effect
    BY HeadReady DEF Past
<1>7. /\ effect' = (IF c THEN effect \cup {Head1} ELSE effect) /\ ~doubled'
    <2>1. CASE c
        BY <1>1, <1>6, <2>1 DEF Crash, Landing, CommandsInv
    <2>2. CASE ~c
        BY <2>2 DEF Crash, CommandsInv
    <2> QED
        BY <2>1, <2>2
<1>8. world'.later = IF c THEN "target" ELSE world.later
    BY DEF Crash, Written, WorldOK
<1>9. \A j \in Nat : <<"cmd", j>> \in unknown' => <<"cmd", j>> \in unknown \/ (cw.pc = "call" /\ j = Head1)
    BY DEF Crash
<1>10. \A j \in Nat : <<"cmd", j>> \in unknown' => j \in DOMAIN cmds' /\ Past(cmds'[j])
    BY <1>3, <1>4, <1>6, <1>9 DEF CommandsInv
<1>11. \A i \in effect' : i \in DOMAIN cmds' /\ Past(cmds'[i]) /\ world'.later = "target"
    BY <1>1, <1>3, <1>4, <1>6, <1>7, <1>8 DEF CommandsInv
<1>12. cw'.queue = {} /\ cw'.pc = "idle"
    BY <1>1 DEF WorkerIdle
<1> QED
    BY <1>1, <1>5, <1>7, <1>10, <1>11, <1>12 DEF CommandsInv

\* The lane's own steps on the commands: a new one, a cancelled one, or none.
LEMMA LaneCommands ==
    ASSUME GoalInv, CommandsInv, WorldOK, LaneStep
    PROVE  CommandsInv'
<1>1. UNCHANGED <<cw, doubled, snap, effect>>
    BY DEF LaneStep, ClaimGoal, Yield, OutOfTurns, Conclude, BadContract, Read, ProviderError, CallTool,
           Fallback, MarkStep, EnterCapability, Schedule, Cancel, WriteNow, OutsideLane, history
<1>2. CASE Schedule
    <2>1. UNCHANGED <<world, fresh, unknown>>
        BY <1>2 DEF Schedule, history
    <2>2. CASE cmds' = cmds
        BY <1>1, <2>1, <2>2, CommandsFrame
    <2>3. CASE cmds' = Append(cmds, NewCommand(lane.step)) /\ NewCommand(lane.step) \in Command
        <3>1. /\ cmds' \in Seq(Command) /\ DOMAIN cmds' = DOMAIN cmds \cup {Len(cmds) + 1}
              /\ \A k \in DOMAIN cmds : cmds'[k] = cmds[k]
            BY <2>3, Tables DEF CommandsInv
        <3> QED
            BY <1>1, <2>1, <3>1 DEF CommandsInv
    <2>4. NewCommand(lane.step) \in Command
        <3>1. lane.step \in Nat
            BY <1>2 DEF Schedule, GoalInv, LaneOK, LaneIdle
        <3> QED
            BY <3>1, Attempts DEF NewCommand, Command
    <2> QED
        BY <1>2, <2>2, <2>3, <2>4 DEF Schedule
<1>3. CASE Cancel
    <2>1. UNCHANGED <<world, fresh, unknown>>
        BY <1>3 DEF Cancel, history
    <2>2. ASSUME NEW i \in DOMAIN cmds, Cancellable(cmds[i]), cmds' = [cmds EXCEPT ![i].status = "cancelled"]
          PROVE  CommandsInv'
        <3> DEFINE row == [cmds[i] EXCEPT !.status = "cancelled"]
        <3>1. cmds[i] \in Command /\ cmds' = [cmds EXCEPT ![i] = row]
            BY <2>2, Tables DEF CommandsInv
        <3>2. row \in Command /\ row.status = "cancelled"
            BY <3>1 DEF Command, CommandDone
        <3> HIDE DEF row
        <3>3. i \notin cw.queue /\ Past(row)
            BY <2>2, <3>2 DEF CommandsInv, Cancellable, Past, CommandDone
        <3> QED
            BY <1>1, <2>1, <3>1, <3>2, <3>3, RowEdited
    <2> QED
        BY <1>1, <1>3, <2>1, <2>2, CommandsFrame DEF Cancel
<1>4. ASSUME NEW o \in Outcomes, NEW b \in BOOLEAN, WriteNow(o, b) PROVE CommandsInv'
    <2>1. cmds' = cmds /\ world'.later = world.later
        BY <1>4 DEF WriteNow, Written, WorldOK
    <2>2. /\ unknown' \in {unknown, unknown \cup {<<"step", lane.step>>}}
          /\ fresh' \in {fresh, fresh \ {<<"step", lane.step>>}}
        BY <1>4 DEF WriteNow, Outcomes
    <2>3. \A j \in Nat : /\ <<"cmd", j>> \in unknown' => <<"cmd", j>> \in unknown
                         /\ <<"cmd", j>> \in fresh' => <<"cmd", j>> \in fresh
        BY <2>2
    <2> QED
        BY <1>1, <2>1, <2>3, CommandsFrame
<1>5. CASE UNCHANGED <<cmds, world, fresh, unknown>>
    BY <1>1, <1>5, CommandsFrame
<1>6. ASSUME ~Schedule, ~Cancel, ~\E o \in Outcomes, b \in BOOLEAN : WriteNow(o, b)
      PROVE  UNCHANGED <<cmds, world, fresh, unknown>>
    BY <1>6 DEF LaneStep, ClaimGoal, Yield, OutOfTurns, Conclude, BadContract, Read, ProviderError, CallTool,
           Fallback, MarkStep, EnterCapability, OutsideLane
<1> QED
    BY <1>2, <1>3, <1>4, <1>5, <1>6

\* The commands after every step of the system.
LEMMA CommandsStep ==
    ASSUME GoalInv, CommandsInv, WorldOK, [Next]_vars
    PROVE  CommandsInv'
<1>1. CASE LaneStep
    BY <1>1, LaneCommands
<1>2. CASE WorkerStep \/ (\E b \in BOOLEAN : StartCommand(b))
    <2>1. CASE ResumeGoal
        BY <2>1 DEF ResumeGoal, OutsideWorker, WorkerIdle, history, CommandsInv
    <2> QED
        BY <1>2, <2>1, ClaimCommands, StartCommands, EnterCommands, WriteCommands DEF WorkerStep
<1>3. CASE Reconcile
    <2>1. ASSUME NEW i \in DOMAIN steps, ReconcileStep(i) PROVE CommandsInv'
        <3>1. UNCHANGED <<cmds, world, fresh, snap, effect, doubled>> /\ unknown' = unknown \ {<<"step", i>>}
            BY <2>1 DEF ReconcileStep, OutsideWorker
        <3>2. CASE cw' = cw
            BY <3>1, <3>2, CommandsFrame
        <3>3. CASE cw' = [pc |-> "resume", queue |-> {}, seen |-> goal]
            BY <3>1, <3>3 DEF CommandsInv
        <3> QED
            BY <2>1, <3>2, <3>3 DEF ReconcileStep, Resume
    <2> QED
        BY <1>3, <2>1, ReconcileCommands DEF Reconcile
<1>4. ASSUME NEW i \in DOMAIN cmds, Expire(i) PROVE CommandsInv'
    <2> DEFINE row == [cmds[i] EXCEPT !.late = TRUE]
    <2>1. cmds[i] \in Command /\ cmds' = [cmds EXCEPT ![i] = row]
        BY <1>4, Tables DEF Expire, CommandsInv
    <2>2. row \in Command /\ row.status = cmds[i].status /\ row.marked = cmds[i].marked
        BY <2>1 DEF Command
    <2>3. UNCHANGED <<world, fresh, snap, effect, doubled, unknown, cw>>
        BY <1>4 DEF Expire, history
    <2> HIDE DEF row
    <2>4. <<"cmd", i>> \in unknown' \/ i \in effect' => Past(row)
        BY <2>2, <2>3, Tables DEF CommandsInv, Past
    <2> QED
        BY <2>1, <2>2, <2>3, <2>4, RowEdited
<1>5. ASSUME NEW r \in {"now", "later"}, NEW v \in {"base", "other"}, Edit(r, v) PROVE CommandsInv'
    <2>1. /\ UNCHANGED <<cmds, cw, doubled, snap, fresh, unknown>> /\ effect' \subseteq effect
          /\ effect' # {} => world'.later = world.later
        BY <1>5 DEF Edit, durable, WorldOK
    <2> QED
        BY <2>1, CommandsFrame
<1>6. CASE \E b, c \in BOOLEAN : Crash(b, c)
    BY <1>6, CrashCommands
<1>7. CASE Sync
    <2>1. /\ UNCHANGED <<cmds, cw, doubled, world, effect, unknown>> /\ snap' = world /\ fresh' = Uncertain
        BY <1>7 DEF Sync, durable, history
    <2>2. \A i : <<"cmd", i>> \in fresh' => cmds[i].status = "reconciling"
        BY <2>1 DEF Uncertain
    <2> QED
        BY <2>1, <2>2 DEF CommandsInv
<1>8. CASE UNCHANGED <<cmds, cw, doubled, snap, effect, world, unknown, fresh>>
    BY <1>8, CommandsFrame
<1>9. (\E b \in BOOLEAN : Confirm(b)) \/ SetFreeze => UNCHANGED <<cmds, cw, doubled, snap, effect, world, unknown, fresh>>
    BY DEF SetFreeze, Confirm, durable, history
<1> QED
    BY <1>1, <1>2, <1>3, <1>4, <1>5, <1>6, <1>7, <1>8, <1>9 DEF Next, Outside, vars, durable, history

-----------------------------------------------------------------------------
(* The theorems.                                                            *)

\* Every write leaves the managed resources at one of their values.
LEMMA WorldStep ==
    ASSUME WorldOK, [Next]_vars
    PROVE  WorldOK'
<1> DEFINE W == [now : Value, later : Value]
<1>1. \A r \in {"now", "later"}, b \in BOOLEAN : Written(b, r) \in W
    BY DEF Written, WorldOK, Value
<1>2. LaneStep => world' \in W /\ snap' = snap
    <2>1. ASSUME NEW o \in Outcomes, NEW b \in BOOLEAN, WriteNow(o, b) PROVE world' \in W /\ snap' = snap
        BY <1>1, <2>1 DEF WriteNow
    <2> QED
        BY <2>1 DEF LaneStep, ClaimGoal, Yield, OutOfTurns, Conclude, BadContract, Read, ProviderError, CallTool,
               Fallback, MarkStep, EnterCapability, Schedule, Cancel, OutsideLane, WorldOK
<1>3. WorkerStep \/ (\E b \in BOOLEAN : StartCommand(b)) \/ Reconcile => world' \in W /\ snap' = snap
    <2>1. ASSUME NEW o \in Outcomes \cup {"unrecorded"}, NEW b \in BOOLEAN, WriteLater(o, b)
          PROVE  world' \in W /\ snap' = snap
        BY <1>1, <2>1 DEF WriteLater, OutsideWorker
    <2> QED
        BY <2>1 DEF WorkerStep, ClaimDue, ResumeGoal, StartCommand, EnterCommand, Reconcile, ReconcileCommand,
               ReconcileStep, OutsideWorker, WorldOK
<1>4. ASSUME NEW b \in BOOLEAN, NEW c \in BOOLEAN, Crash(b, c) PROVE world' \in W /\ snap' = world'
    <2>1. Written(b, "now") \in W /\ Written(c, "later") \in W
        BY <1>1
    <2> QED
        BY <1>4, <2>1 DEF Crash
<1>5. ASSUME NEW r \in {"now", "later"}, NEW v \in {"base", "other"}, Edit(r, v) PROVE world' \in W /\ snap' = snap
    BY <1>5 DEF Edit, WorldOK, Value
<1>6. Sync => world' = world /\ snap' = world
    BY DEF Sync
<1>7. SetFreeze \/ (\E i \in DOMAIN cmds : Expire(i)) \/ (\E b \in BOOLEAN : Confirm(b)) => UNCHANGED <<world, snap>>
    BY DEF SetFreeze, Expire, Confirm
<1> QED
    BY <1>2, <1>3, <1>4, <1>5, <1>6, <1>7 DEF Next, Outside, WorldOK, vars

\* At the start nothing was written and nothing is confirmed.
LEMMA InitAgent ==
    ASSUME Init
    PROVE  IInv
<1>1. WorldOK /\ GrantInv
    BY DEF Init, WorldOK, Value, GrantInv
<1>2. GoalInv
    <2>1. \A st \in {"planned", "waiting"} : NewGoal(st) \in GoalRow /\ ~NewGoal(st).confirmed
        BY DEF NewGoal, GoalRow
    <2> QED
        BY <2>1 DEF Init, ChatGoal, GoalInv, LaneOK, WorkerOK, LaneIdle, WorkerIdle
<1>3. StepsInv
    BY DEF Init, StepsInv, LaneIdle, Busy
<1>4. CommandsInv
    BY DEF Init, CommandsInv, WorkerIdle
<1> QED
    BY <1>1, <1>2, <1>3, <1>4 DEF IInv

\* The inductive invariant of the agent runtime holds in every reachable state.
THEOREM AgentInductive == Spec => []IInv
<1>1. IInv /\ [Next]_vars => IInv'
    <2> SUFFICES ASSUME IInv, [Next]_vars PROVE IInv'
        OBVIOUS
    <2>1. WorldOK' /\ GrantInv'
        BY WorldStep, GrantStep DEF IInv
    <2>2. GoalInv'
        BY GoalStep DEF IInv, StepsInv, CommandsInv
    <2>3. StepsInv' /\ CommandsInv'
        BY StepsStep, CommandsStep DEF IInv
    <2> QED
        BY <2>1, <2>2, <2>3 DEF IInv
<1> QED
    BY <1>1, InitAgent, PTL DEF Spec

\* A scheduled command never takes effect twice while its first effect stands
\* (executeScheduledCommand, reconcileScheduledCommand).
THEOREM CommandsTakeEffectOnce == Spec => []EffectOnce
<1>1. IInv => EffectOnce
    BY DEF IInv, CommandsInv, EffectOnce
<1> QED
    BY <1>1, AgentInductive, PTL

\* ExecuteCapability is not entered for a readable call, or a command, whose outcome
\* is unknown.
THEOREM UnknownNotReplayed == Spec => []NoBlindReplay
<1>1. IInv => NoBlindReplay
    <2> SUFFICES ASSUME IInv PROVE NoBlindReplay
        OBVIOUS
    <2>1. ASSUME lane.pc = "call", Readable(steps[lane.step], env.class), NEW j \in DOMAIN steps,
                 steps[j].call = Current, <<"step", j>> \in unknown
          PROVE  FALSE
        <3>1. j \in Nat /\ steps[j].status # "reconciling"
            BY <2>1, Tables DEF IInv, StepsInv, Busy
        <3> QED
            BY <2>1, <3>1 DEF IInv, StepsInv, Readable, Current
    <2>2. cw.pc = "call" => <<"cmd", Head1>> \notin unknown
        BY HeadReady DEF IInv
    <2> QED
        BY <2>1, <2>2 DEF NoBlindReplay
<1> QED
    BY <1>1, AgentInductive, PTL

\* A grant authorises the writes of one step (ConsumeAdministratorGrant).
THEOREM GrantsSingleUse == Spec => []GrantSingleUse
<1>1. IInv => GrantSingleUse
    BY DEF IInv, GrantInv, GrantSingleUse
<1> QED
    BY <1>1, AgentInductive, PTL

\* A goal that needs a confirmation opens no gate before its token is consumed
\* (ConfirmAgentGoal, enforceChatIntentCapability).
THEOREM ConfirmedBeforeWrites == Spec => []ConfirmedFirst
<1>1. IInv => ConfirmedFirst
    BY DEF IInv, StepsInv, Unconfirmed, ConfirmedFirst
<1> QED
    BY <1>1, AgentInductive, PTL
=============================================================================
