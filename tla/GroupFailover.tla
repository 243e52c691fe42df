--------------------------- MODULE GroupFailover ---------------------------
(***************************************************************************)
(* Three-level failover of an upstream key: failover.Controller             *)
(* (internal/failover/controller.go) decides, GroupTransition executes, and *)
(* post-switch evidence confirms or refutes the tier that was entered.      *)
(* The agent's own switches (internal/agent/group_transition_guard.go) and  *)
(* the administrator's go through the same executor.                        *)
(*                                                                         *)
(* The controller reads the policies with their state rows once per cycle   *)
(* (`ctl.loc`) and stores whole rows; only evidence is stored with a        *)
(* comparison of transition and status.                                     *)
(***************************************************************************)
EXTENDS GroupTransition

CONSTANTS
    PropagationDelay,   \* GroupValidationPropagationDelay
    EvidenceTimeout,    \* GroupValidationEvidenceTimeout
    FailureThreshold,   \* FailoverMonitorFailures
    HumanTargets,       \* the tiers the administrator asks for
    ConsoleGroups,      \* the groups somebody selects in the upstream's console
    DryRun              \* the values FailoverDryRun takes

ASSUME GroupFailoverAssumption ==
    /\ {PropagationDelay, EvidenceTimeout, FailureThreshold} \subseteq Nat \ {0}
    /\ HumanTargets \subseteq Tier /\ ConsoleGroups \subseteq Groups /\ DryRun \subseteq BOOLEAN

VARIABLES
    ctl,                \* the controller's cycle
    ev                  \* ProcessFailoverEvidence, single flight

vars == <<policy, st, journal, log, live, late, cached, usable, frozenAll, up, lock, call, ref, now,
          faults, clobbered, strayed, lastManual, ctl, ev>>
controller == <<ctl, ev>>

\* the calls, the controller's cycle, the refresh and the evidence run under way
Overlap == \/ \E p \in Callers : call[p].pc # "idle"
           \/ <<ctl.pc, ref.pc, ev.pc>> # <<"idle", "idle", "idle">>
\* one that begins while another is under way counts as an event of the bound
Begin == IF Overlap THEN Fault ELSE UNCHANGED faults

Init ==
    /\ policy = [version |-> 1, confirmed |-> 1]
    /\ live = "gMain" /\ cached = "gMain" /\ late = {}
    /\ st = [NoState EXCEPT !.current = "main", !.observed = "gMain"]
    /\ journal = <<>> /\ log = <<>>
    /\ usable = TRUE /\ frozenAll = FALSE /\ up = "running" /\ lock = "free"
    /\ call = [p \in Callers |-> NoCall]
    /\ ref = [pc |-> "idle"] /\ ctl = [pc |-> "idle"] /\ ev = [pc |-> "idle"]
    /\ now = 0 /\ faults = 0
    /\ clobbered = FALSE /\ strayed = FALSE /\ lastManual = Nil

-----------------------------------------------------------------------------
(* The callers.  `outage` is assessPool's verdict on the pool, read afresh.  *)

\* httpserver.switchUpstreamKeyTier: a random idempotency key
HumanSwitch(t) ==
    /\ Call("human", Request(<<"web", Len(journal)>>, t, TRUE, FALSE, None, Nil)) /\ Begin
    /\ UNCHANGED <<policy, st, journal, world, up, lock, ref, now, history, controller>>

\* validateAutonomousGroupTransition and autonomousGroupTransitionFence: a retry
\* of the action carries the same key, the tier and the time of the last synchronisation
AgentSwitch(outage, seen) ==
    LET t == nextEnabledTier(st.current)
    IN  /\ usable /\ Confirmed /\ t \notin {None, "main"}
        /\ st.vs = "confirmed_failed" \/ outage
        /\ Call("agent", Request(<<"agent", t>>, t, FALSE, FALSE, st.current, seen)) /\ Begin
        /\ UNCHANGED <<policy, st, journal, world, up, lock, ref, now, history, controller>>

Settled == {"unknown", "confirmed_healthy", "confirmed_failed"}

\* RunOnce up to the assessment of the pool, and handleOutage's early returns: a
\* cycle that ends there leaves no trace.  An outage that is young enough to be
\* left to the agent (outageSince, FailoverAgentGraceSeconds) is none yet here.
ControllerCycle(outage) ==
    /\ up = "running" /\ ctl.pc = "idle" /\ call["controller"].pc = "idle"
    /\ ~frozenAll /\ Confirmed /\ usable /\ Begin
    /\ st.vs \in Settled /\ (st.vs = "confirmed_failed" \/ outage)
    /\ ~st.frozen /\ now >= st.hold
    /\ ctl' = [pc |-> "handle", loc |-> st, group |-> cached, at |-> now]
    /\ UNCHANGED <<policy, st, journal, world, up, lock, call, ref, now, history, ev>>

\* the rest of handleOutage, on the row the cycle loaded
HandleOutage(dry) ==
    LET s == [ctl.loc EXCEPT !.vs = "confirmed_failed"]
        current == tierForGroup(ctl.group)
        target == nextEnabledTier(current)
        cools == ctl.at < s.cool /\ ~(current = "backup" /\ target = "emergency")
        request == Request(<<"fallback", target, ctl.at>>, target, FALSE, dry, None, Nil)
        store(row) == IF row = ctl.loc THEN UNCHANGED <<st, clobbered>> ELSE SaveState(ctl.loc, row)
    IN  /\ ctl.pc = "handle" /\ ctl' = [pc |-> "idle"]
        /\ \/ /\ target = None
              /\ store([s EXCEPT !.vs = "exhausted", !.frozen = TRUE]) /\ UNCHANGED call
           \/ target # None /\ cools /\ store(s) /\ UNCHANGED call
           \/ /\ target # None /\ ~cools /\ LimitReached
              /\ store([s EXCEPT !.frozen = TRUE]) /\ UNCHANGED call
           \/ /\ target # None /\ ~cools /\ ~LimitReached
              /\ store(s)
              /\ IF Known(request.key) \/ ~Room THEN UNCHANGED call
                 ELSE Goto("controller", request)
        /\ UNCHANGED <<policy, journal, world, up, lock, ref, now, faults, strayed, lastManual, ev>>

-----------------------------------------------------------------------------
(* Evidence.                                                                *)

\* A record of a request that begins now, or of one that the key served in its
\* old group before the latest switch was sent and that ends only now.  Before
\* the first switch a record changes nothing.
MonitorRecorded(result, old) ==
    LET row == journal[Len(journal)]
    IN  /\ journal # <<>> /\ Spare
        /\ old => row.status # "pending"
        /\ log' = Append(log, IF old
                              THEN [started |-> row.created, group |-> row.from, result |-> result]
                              ELSE [started |-> now, group |-> live, result |-> result])
        /\ UNCHANGED <<policy, st, journal, live, late, cached, usable, frozenAll, up, lock, call, ref,
                       now, faults, history, controller>>

\* Slip: the record's own time is taken for the time of the request
Attributable_Slip(row, s) == row.started + PropagationDelay >= s.ev.verified
\* evidenceOccurrenceAt against validation_not_before
Attributable(row, s) == row.started >= s.ev.verified + PropagationDelay
Counted(s, from, upto, result) ==
    {i \in from..upto : log[i].result = result /\ Attributable(log[i], s)}

\* Slip: the cursor stays where it was
Evaluated_Slip(s) ==
    LET failures == Counted(s, s.ev.cursor + 1, Len(log), "failed")
    IN  [s EXCEPT !.ev.fail = @ + Cardinality(failures)]
\* the rows after the cursor, in order: a success confirms the tier, a failure
\* refutes it once the failures reach the threshold, the last of them stands
Evaluated(s) ==
    LET first == s.ev.cursor + 1
        successes == Counted(s, first, Len(log), "success")
        failures == Counted(s, first, Len(log), "failed")
        failedBy(i) == s.ev.fail + Cardinality({j \in failures : j <= i})
        decisive == successes \cup {i \in failures : failedBy(i) >= FailureThreshold}
        row == [s EXCEPT !.ev.cursor = Len(log), !.ev.succ = @ + Cardinality(successes),
                         !.ev.fail = @ + Cardinality(failures)]
    IN  IF decisive # {}
        THEN [row EXCEPT !.vs = IF Max(decisive) \in successes THEN "confirmed_healthy"
                                ELSE "confirmed_failed"]
        ELSE IF now >= s.ev.verified + EvidenceTimeout
        THEN [row EXCEPT !.vs = "uncertain"]
        ELSE row

EvidenceLoad ==
    /\ up = "running" /\ ev.pc = "idle" /\ policy.version > 0 /\ Begin
    /\ st.ev.verified # Nil /\ st.vs \in {"awaiting_evidence", "probing", "uncertain"}
    /\ Evaluated(st) # st
    /\ ev' = [pc |-> "save", expected |-> st, next |-> Evaluated(st)]
    /\ UNCHANGED <<policy, st, journal, world, up, lock, call, ref, now, history, ctl>>

\* CompareAndSaveGroupFailoverState compares the transition and its status
EvidenceSave ==
    /\ ev.pc = "save" /\ ev' = [pc |-> "idle"]
    /\ st' = IF st.tid = ev.expected.tid /\ st.vs = ev.expected.vs THEN ev.next ELSE st
    /\ UNCHANGED <<policy, journal, world, up, lock, call, ref, now, faults, history, ctl>>

-----------------------------------------------------------------------------
\* a cooldown or a protection outlasts every call and cycle that is under way
\* when it begins: minutes against requests with a timeout of seconds
Tick ==
    /\ now < MaxClock /\ now' = now + 1
    /\ ~Overlap
    /\ UNCHANGED <<policy, st, journal, world, up, lock, call, ref, faults, history, controller>>

Crash ==
    /\ up = "running" /\ Fault
    /\ up' = "recovering" /\ lock' = "free"
    /\ call' = [p \in Callers |-> NoCall]
    /\ ref' = [pc |-> "idle"] /\ ctl' = [pc |-> "idle"] /\ ev' = [pc |-> "idle"]
    /\ UNCHANGED <<policy, st, journal, world, now, history>>

Step(p) == \/ Acquire(p) \/ Fetch(p) \/ Mark(p) \/ AlreadyThere(p) \/ Send(p)
           \/ Verified(p) \/ Refused(p) \/ Restore(p) \/ Unsure(p)
Refresh == (RefreshFetch /\ Begin) \/ RefreshLoad \/ RefreshSettle
PolicyChange == \/ SaveGroupFailoverPolicy \/ InvalidatePolicy \/ DeleteGroupFailoverPolicy
                \/ \E v \in 1..MaxVersion : ConfirmGroupFailoverPolicy(v)
Outside == SourceChanges \/ FreezeChanges \/ (\E g \in ConsoleGroups : Console(g))
           \/ (\E g \in late : LateLands(g))

Next ==
    \/ (Recover \/ Refresh \/ PolicyChange \/ Outside) /\ UNCHANGED controller
    \/ \E p \in Callers : Step(p) /\ UNCHANGED controller
    \/ \E t \in HumanTargets : HumanSwitch(t)
    \/ \E outage \in BOOLEAN : ControllerCycle(outage) \/ \E seen \in 0..now : AgentSwitch(outage, seen)
    \/ \E dry \in DryRun : HandleOutage(dry)
    \/ \E r \in {"success", "failed"}, old \in BOOLEAN : MonitorRecorded(r, old)
    \/ EvidenceLoad \/ EvidenceSave
    \/ Tick \/ Crash

\* a call, a cycle and an evidence run end, start-up recovery runs, and the
\* balance centre's ticker refreshes for ever: strongly fair, since the bound on
\* overlaps may make a refresh wait for the end of what is under way
Fairness ==
    /\ \A p \in Callers : WF_vars(Step(p) /\ UNCHANGED controller)
    /\ WF_vars(\E dry \in DryRun : HandleOutage(dry))
    /\ WF_vars(EvidenceSave)
    /\ WF_vars(Recover /\ UNCHANGED controller)
    /\ SF_vars(Refresh /\ UNCHANGED controller)

Spec == Init /\ [][Next]_vars /\ Fairness

-----------------------------------------------------------------------------
\* AssertNoPendingGroupTransition and BeginGroupTierTransition are two
\* transactions: the key's lock is what keeps a second row from being reserved
\* between them, also after an uncertain answer, a restart or a refresh.
OnePending == Cardinality(PendingIds) <= 1

\* FailoverShortLimitCount: never more automatic switches within the window than
\* the limit, whoever asked for them and however they were completed.
SwitchBudget == Cardinality(Completed(now - SwitchWindow)) <= SwitchLimit

\* The evidence counters are those of the rows between the watermark and the
\* cursor that can be attributed to the switch: no row is counted twice or
\* skipped, whichever of the writers of the state row came last.
CountsMatchCursor ==
    st.ev.verified # Nil =>
        /\ st.ev.fail = Cardinality(Counted(st, st.ev.wm + 1, st.ev.cursor, "failed"))
        /\ st.ev.succ = Cardinality(Counted(st, st.ev.wm + 1, st.ev.cursor, "success"))

\* Every record that is counted for or against a tier is one of a request that
\* the switched key served in the group this transition switched it to, as long
\* as nobody else moved the key, no writer stored an outdated state row and no
\* refresh settled a journal row by an answer the key had outlived (`strayed`).
EvidenceAttribution ==
    ~strayed /\ ~clobbered /\ st.ev.verified # Nil =>
        \A i \in st.ev.wm + 1 .. st.ev.cursor :
            Attributable(log[i], st) => log[i].group = journal[st.tid].to

\* "The journal never stays open": a pending row is ended by its call, by the
\* recovery at start-up or by a later refresh, or goes with its policy, unless
\* the key itself is gone.
PendingResolved ==
    \A i \in 1..MaxRows : (i \in PendingIds) ~> (i \notin PendingIds \/ live = Gone)

\* README: switches obey manual protection.  No automatic write is sent within the
\* protection of a switch that a human made through the executor.
ManualProtection ==
    [][\A p \in Callers :
         /\ call[p].pc = "send" /\ ~call[p].manual
         /\ call'[p].pc \in {"verified", "unsure"}
         => lastManual = Nil \/ now >= lastManual + Protection]_vars
=============================================================================
