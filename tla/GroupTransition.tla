-------------------------- MODULE GroupTransition --------------------------
(***************************************************************************)
(* The only writer of an upstream key's group:                              *)
(* balance.Manager.TransitionGroupTier (internal/balance/failover.go), its  *)
(* journal, policy and validation-state rows (internal/store/failover.go),  *)
(* the recovery of pending rows at start-up, and the balance refresh, which *)
(* compares the same rows with the upstream without taking the key's lock.  *)
(*                                                                         *)
(* One controlled key of one source.  A call loads the validation-state row *)
(* once, under the key's lock, works on its copy and stores the whole copy: *)
(* `call[p].loc` is that copy.  Every step is one store transaction or one  *)
(* network exchange.                                                        *)
(***************************************************************************)
EXTENDS Integers, Sequences, FiniteSets, FiniteSetsExt

CONSTANTS
    Enabled,            \* the tiers the policy enables
    Protection,         \* FailoverManualProtectionMinutes, in clock units
    Cooldown,           \* FailoverSwitchCooldownMinutes
    SwitchLimit,        \* FailoverShortLimitCount
    SwitchWindow,       \* FailoverShortLimitWindowMinutes
    MaxClock,           \* bound on time
    MaxVersion,         \* bound on policy versions
    MaxRows,            \* bound on the journal
    MaxEvents           \* bound on rows, evidence records, faults and overlaps together

Tiers == <<"main", "backup", "emergency">>
Tier == {Tiers[i] : i \in 1..3}
GroupOf == [main |-> "gMain", backup |-> "gBackup", emergency |-> "gEmergency"]
Gone == "gone"                                  \* the key is not in the answer
Groups == {GroupOf[t] : t \in Tier} \cup {"gOther", Gone}
Callers == {"human", "controller", "agent"}
Nil == -1
None == "none"                                  \* the empty string: no tier, no group

ASSUME GroupTransitionAssumption ==
    /\ Enabled \subseteq Tier /\ Enabled # {}
    /\ {Protection, Cooldown, SwitchLimit, SwitchWindow} \subseteq Nat \ {0}
    /\ {MaxClock, MaxVersion, MaxRows, MaxEvents} \subseteq Nat

VARIABLES
    policy,             \* version (0: no policy) and the version that was confirmed
    st,                 \* upstream_group_failover_states
    journal,            \* upstream_group_transitions, by id
    log,                \* monitor_history_records, by row id
    live, late,         \* the key's group upstream; writes that may still land
    cached, usable,     \* the stored key rate; the source may be used automatically
    frozenAll,          \* FreezeState.AllAutomation
    up,                 \* "running", or "recovering" after a restart
    lock, call,         \* groupKeyLocks; the calls of TransitionGroupTier
    ref,                \* the balance refresh
    now, faults,        \* time; the faults and overlaps so far
    clobbered, strayed, lastManual  \* history, see the properties

world == <<log, live, late, cached, usable, frozenAll>>
history == <<clobbered, strayed, lastManual>>

Unverified == [verified |-> Nil, wm |-> 0, cursor |-> 0, succ |-> 0, fail |-> 0]
NoState == [current |-> None, observed |-> None, frozen |-> FALSE, hold |-> 0, cool |-> 0,
            vs |-> "unknown", tid |-> 0, ev |-> Unverified]
NoCall == [pc |-> "idle", key |-> <<>>, target |-> None, manual |-> FALSE, dry |-> FALSE,
           expect |-> None, cutoff |-> Nil, loc |-> NoState, known |-> None, tid |-> 0, prev |-> None]
Idle(p) == call' = [call EXCEPT ![p] = NoCall]
Goto(p, f) == call' = [call EXCEPT ![p] = f]

tierForGroup(g) == IF \E t \in Tier : GroupOf[t] = g
                   THEN CHOOSE t \in Tier : GroupOf[t] = g ELSE None
Index(t) == CHOOSE i \in 1..3 : Tiers[i] = t
\* nextEnabledTier, nextConfiguredAgentTier: the next enabled tier of the fixed chain
nextEnabledTier(t) ==
    LET later == {i \in 1..3 : t \in Tier /\ i > Index(t) /\ Tiers[i] \in Enabled}
    IN  IF later = {} THEN None ELSE Tiers[Min(later)]

Confirmed == policy.version > 0 /\ policy.confirmed = policy.version
Ids == DOMAIN journal
PendingIds == {i \in Ids : journal[i].status = "pending"}

\* the rows of the journal, and those that calls under way may still add
Rows == Len(journal) + Cardinality({q \in Callers : call[q].pc \in {"wait", "fetch"}})
Spare == Rows + Len(log) + faults < MaxEvents
Room == Rows < MaxRows /\ Spare
Fault == Spare /\ faults' = faults + 1

\* SaveGroupFailoverState stores the whole row, whatever it holds by now; the
\* foreign key refuses it once the policy is gone.
SaveState(loaded, new) ==
    /\ st' = IF policy.version = 0 THEN st ELSE new
    /\ clobbered' = (clobbered \/ (policy.version # 0 /\ st # loaded))

\* FailGroupTierTransition, CompleteGroupTierTransition: only a pending row ends
FailRow(id) ==
    journal' = IF id \in PendingIds
               THEN [journal EXCEPT ![id].status = "failed", ![id].done = now] ELSE journal
CompleteRow(id) == journal' = [journal EXCEPT ![id].status = "applied", ![id].done = now]

\* CountCompletedGroupTierTransitions
Completed(since) == {i \in Ids : journal[i].status = "applied" /\ ~journal[i].manual
                                 /\ journal[i].done >= since}
\* Slip: the limit itself is let through
LimitReached_Slip == Cardinality(Completed(now - SwitchWindow)) > SwitchLimit
LimitReached == Cardinality(Completed(now - SwitchWindow)) >= SwitchLimit

-----------------------------------------------------------------------------
(* TransitionGroupTier.                                                     *)

Request(key, target, manual, dry, expect, cutoff) ==
    [NoCall EXCEPT !.pc = "wait", !.key = key, !.target = target, !.manual = manual,
                   !.dry = dry, !.expect = expect, !.cutoff = cutoff]

\* the lookup by idempotency key, before the lock and again under it
Known(key) == \E i \in Ids : journal[i].key = key

Call(p, request) ==
    /\ up = "running" /\ call[p].pc = "idle"
    /\ ~Known(request.key) /\ Room
    /\ Goto(p, request)

\* everything that is read from the store before the upstream is asked
Eligible(c) == Confirmed /\ c.target \in Enabled /\ (c.manual \/ usable)

Acquire(p) ==
    LET c == call[p]
        loaded == [c EXCEPT !.pc = "fetch", !.loc = st, !.known = cached]
    IN  /\ c.pc = "wait" /\ lock = "free"
        /\ \/ /\ Known(c.key) \/ ~Eligible(c)
              /\ Idle(p) /\ UNCHANGED <<lock, st, clobbered>>
           \/ /\ ~Known(c.key) /\ Eligible(c) /\ ~c.manual /\ tierForGroup(cached) = None
              /\ SaveState(st, [st EXCEPT !.observed = cached, !.frozen = TRUE])
              /\ Idle(p) /\ UNCHANGED lock
           \/ /\ ~Known(c.key) /\ Eligible(c) /\ (c.manual \/ tierForGroup(cached) # None)
              /\ lock' = p /\ Goto(p, loaded) /\ UNCHANGED <<st, clobbered>>
        /\ UNCHANGED <<policy, journal, world, up, ref, now, faults, strayed, lastManual>>

\* the upstream's answer contradicts the stored key rate: somebody switched by hand
HandSwitch(s, g, t) ==
    IF t = None THEN [s EXCEPT !.observed = g, !.vs = "uncertain", !.frozen = TRUE]
    ELSE [s EXCEPT !.observed = g, !.vs = "uncertain", !.frozen = FALSE,
                   !.current = t, !.hold = now + Protection]

Escalation(c) == tierForGroup(live) = "backup" /\ c.target = "emergency"
\* Slip: the check is forgotten
NoPending_Slip == TRUE
\* AssertNoPendingGroupTransition
NoPending == PendingIds = {}
\* ExpectedFromTier, and HasAutomaticGroupTransitionInPoolSince the evidence
NotOutdated(c) ==
    /\ c.expect = None \/ c.expect = tierForGroup(live)
    /\ c.cutoff # Nil => ~\E i \in Ids : /\ ~journal[i].manual /\ ~journal[i].dry
                                         /\ journal[i].status \in {"pending", "applied"}
                                         /\ journal[i].created > c.cutoff
\* what only binds an automatic call; it reads the row the call loaded
AutomationAllowed(c) ==
    ~c.loc.frozen /\ now >= c.loc.hold /\ (now >= c.loc.cool \/ Escalation(c))

NewRow(c) == [key |-> c.key, from |-> live, to |-> GroupOf[c.target], manual |-> c.manual,
              dry |-> c.dry, created |-> now, done |-> now,
              status |-> IF c.dry THEN "simulated" ELSE "pending"]

\* the checks between the upstream's answer and the journal, in their order; the
\* foreign key refuses a row without a policy
Verdict(c) ==
    CASE live = Gone -> "gone"
      [] live # Gone /\ ~c.manual /\ live # c.known -> "moved"
      [] live # Gone /\ (c.manual \/ live = c.known) ->
           CASE ~NotOutdated(c) \/ (~c.manual /\ ~AutomationAllowed(c)) -> "rejected"
             [] OTHER -> IF ~c.manual /\ LimitReached THEN "limited"
                         ELSE IF NoPending /\ policy.version # 0 THEN "begin" ELSE "rejected"

Fetch(p) ==
    LET c == call[p]
        verdict == Verdict(c)
        return == Idle(p) /\ lock' = "free"
    IN  /\ c.pc = "fetch"
        /\ \/ return /\ UNCHANGED <<st, journal, clobbered>>       \* no answer
           \/ /\ verdict = "rejected"
              /\ return /\ UNCHANGED <<st, journal, clobbered>>
           \/ /\ verdict \in {"gone", "limited"}
              /\ SaveState(c.loc, [c.loc EXCEPT !.frozen = TRUE])
              /\ return /\ UNCHANGED journal
           \/ /\ verdict = "moved"
              /\ SaveState(c.loc, HandSwitch(c.loc, live, tierForGroup(live)))
              /\ return /\ UNCHANGED journal
           \/ /\ verdict = "begin"
              /\ journal' = Append(journal, NewRow(c))
              /\ IF c.dry THEN return
                 ELSE /\ Goto(p, [c EXCEPT !.pc = "mark", !.tid = Len(journal) + 1,
                                           !.prev = c.loc.vs])
                      /\ UNCHANGED lock
              /\ UNCHANGED <<st, clobbered>>
        /\ UNCHANGED <<policy, world, up, ref, now, faults, strayed, lastManual>>

\* GetFailoverEvidenceWatermarks and the row that says "transitioning"
Transitioning(s, id, watermark) ==
    [s EXCEPT !.vs = "transitioning", !.tid = id,
              !.ev = [Unverified EXCEPT !.wm = watermark, !.cursor = watermark]]

Mark(p) ==
    LET c == call[p]
        row == journal[c.tid]
        s == Transitioning(c.loc, c.tid, Len(log))
        next == IF row.from = row.to THEN "already" ELSE "send"
    IN  /\ c.pc = "mark"
        /\ SaveState(c.loc, s)
        /\ IF policy.version = 0 THEN Idle(p) /\ lock' = "free"      \* the row is gone as well
           ELSE Goto(p, [c EXCEPT !.pc = next, !.loc = s]) /\ UNCHANGED lock
        /\ UNCHANGED <<policy, journal, world, up, ref, now, faults, strayed, lastManual>>

\* CompleteGroupTierTransition: the journal and the state in one transaction, or an error
Complete(loaded, id, s) ==
    IF id \in PendingIds
    THEN CompleteRow(id) /\ SaveState(loaded, s)
    ELSE UNCHANGED <<journal, st, clobbered>>

\* the key is in the target group already: the previous validation status returns,
\* the boundary that belonged to it does not
AlreadyThere(p) ==
    LET c == call[p]
    IN  /\ c.pc = "already"
        /\ Complete(c.loc, c.tid, [c.loc EXCEPT !.vs = c.prev, !.current = c.target,
                                                !.observed = GroupOf[c.target]])
        /\ Idle(p) /\ lock' = "free"
        /\ UNCHANGED <<policy, world, up, ref, now, faults, strayed, lastManual>>

\* executeGroupTransport: an automatic write holds a barrier lease and is refused
\* while automation is frozen.  SwitchGroup answers with the target group read
\* back, a refusal, or an error after which the write may or may not have landed.
Send(p) ==
    LET c == call[p]
        to == GroupOf[c.target]
        then(pc) == Goto(p, [c EXCEPT !.pc = pc])
    IN  /\ c.pc = "send"
        /\ \/ then("refused") /\ UNCHANGED <<live, late, faults>>
           \/ /\ c.manual \/ ~frozenAll
              /\ live # Gone
              /\ \/ live' = to /\ then("verified") /\ UNCHANGED <<late, faults>>
                 \/ /\ Fault /\ then("unsure")
                    /\ \/ live' = to /\ UNCHANGED late
                       \/ late' = late \cup {to} /\ UNCHANGED live
        /\ UNCHANGED <<policy, st, journal, log, cached, usable, frozenAll, up, lock, ref, now, history>>

\* the state of a verified switch
Applied(s, t, manual) ==
    [s EXCEPT !.current = t, !.observed = GroupOf[t], !.frozen = FALSE, !.vs = "awaiting_evidence",
              !.ev.verified = now, !.cool = now + Cooldown,
              !.hold = IF manual THEN now + Protection ELSE @]

Verified(p) ==
    LET c == call[p]
    IN  /\ c.pc = "verified"
        /\ Complete(c.loc, c.tid, Applied(c.loc, c.target, c.manual))
        /\ cached' = IF c.tid \in PendingIds THEN GroupOf[c.target] ELSE cached  \* applySuccess
        /\ lastManual' = IF c.manual /\ c.tid \in PendingIds THEN now ELSE lastManual
        /\ Idle(p) /\ lock' = "free"
        /\ UNCHANGED <<policy, log, live, late, usable, frozenAll, up, ref, now, faults, strayed>>

\* a refused write: the journal first, then the state in a transaction of its own
Refused(p) ==
    LET c == call[p]
    IN  /\ c.pc = "refused"
        /\ FailRow(c.tid) /\ Goto(p, [c EXCEPT !.pc = "restore"])
        /\ UNCHANGED <<policy, st, world, up, lock, ref, now, faults, history>>

Restore(p) ==
    LET c == call[p]
    IN  /\ c.pc = "restore"
        /\ SaveState(c.loc, [c.loc EXCEPT !.vs = c.prev])
        /\ Idle(p) /\ lock' = "free"
        /\ UNCHANGED <<policy, journal, world, up, ref, now, faults, strayed, lastManual>>

\* MarkGroupTierTransitionUncertain keeps the row pending: it only notes the error
Unsure(p) ==
    LET c == call[p]
    IN  /\ c.pc = "unsure"
        /\ SaveState(c.loc, [c.loc EXCEPT !.vs = "uncertain"])
        /\ Idle(p) /\ lock' = "free"
        /\ UNCHANGED <<policy, journal, world, up, ref, now, faults, strayed, lastManual>>

-----------------------------------------------------------------------------
(* Restart, recovery and refresh.                                           *)

\* a pending row turns out to be applied: with the boundary it was sent with, or without
Adopted(s, id) ==
    LET t == tierForGroup(journal[id].to)
        base == [s EXCEPT !.current = t, !.observed = journal[id].to]
    IN  IF s.tid = id /\ s.vs = "transitioning"
        THEN [base EXCEPT !.vs = "awaiting_evidence", !.ev.verified = now]
        ELSE [base EXCEPT !.vs = "uncertain"]

\* RecoverGroupTransitions runs before anything else of the process starts
Recover ==
    /\ up = "recovering" /\ up' = "running"
    /\ \/ UNCHANGED <<journal, st, clobbered>>      \* nothing pending, no answer, another group
       \/ \E id \in PendingIds :
            \/ live = journal[id].from /\ FailRow(id) /\ UNCHANGED <<st, clobbered>>
            \/ /\ live = journal[id].to /\ live # journal[id].from
               /\ Complete(st, id, [Adopted(st, id) EXCEPT !.frozen = FALSE])
    /\ UNCHANGED <<policy, world, lock, call, ref, now, faults, strayed, lastManual>>

\* refreshLocked asks the upstream ...
RefreshFetch ==
    /\ up = "running" /\ ref.pc = "idle"
    /\ ref' = [pc |-> "load", group |-> live]
    /\ UNCHANGED <<policy, st, journal, world, up, lock, call, now, history>>

\* ... the answer becomes the stored key rate, by then perhaps an old one, and
\* reconcileGroupFailoverStates reads the policies with their state rows
RefreshLoad ==
    /\ ref.pc = "load"
    /\ cached' = ref.group
    /\ ref' = IF policy.version = 0 THEN [pc |-> "idle"]
              ELSE [pc |-> "settle", loc |-> st, group |-> ref.group]
    /\ UNCHANGED <<policy, st, journal, log, live, late, usable, frozenAll, up, lock, call, now, faults,
                   history>>

\* what it stores when no row was pending
Observed(s, g) ==
    LET t == tierForGroup(g)
    IN  IF g = Gone THEN [s EXCEPT !.frozen = TRUE]
        ELSE IF t = None THEN [s EXCEPT !.frozen = TRUE, !.observed = g]
        ELSE IF s.observed \notin {None, g} THEN HandSwitch(s, g, t)
        ELSE [s EXCEPT !.current = t, !.frozen = FALSE, !.observed = g]

\* Slip: a row whose write did not land is left alone
SettleRow_Slip(id, g) ==
    IF g = journal[id].to
    THEN [row |-> "applied", state |-> [Adopted(ref.loc, id) EXCEPT !.cool = now + Cooldown]]
    ELSE [row |-> "pending", state |-> ref.loc]
\* it settles the pending rows by the stored key rate, and stores the states
SettleRow(id, g) ==
    IF g = journal[id].to
    THEN [row |-> "applied", state |-> [Adopted(ref.loc, id) EXCEPT !.cool = now + Cooldown]]
    ELSE [row |-> "failed", state |-> ref.loc]

RefreshSettle ==
    /\ ref.pc = "settle"
    /\ ref' = [pc |-> "idle"]
    /\ \/ /\ ref.group = Gone \/ PendingIds = {}
          /\ SaveState(ref.loc, Observed(ref.loc, ref.group)) /\ UNCHANGED <<journal, strayed>>
       \/ /\ ref.group # Gone
          /\ \E id \in PendingIds :
               LET r == SettleRow(id, ref.group)
               IN  /\ journal' = [journal EXCEPT ![id].status = r.row, ![id].done = now]
                   /\ SaveState(ref.loc, Observed(r.state, ref.group))
          /\ strayed' = (strayed \/ ref.group # live)
    /\ UNCHANGED <<policy, world, up, lock, call, now, faults, lastManual>>

-----------------------------------------------------------------------------
(* Policies: every operation holds runMu, as the refresh does.              *)

SaveGroupFailoverPolicy ==
    /\ up = "running" /\ ref.pc = "idle" /\ usable /\ cached # Gone
    /\ policy.version < MaxVersion
    /\ policy' = [version |-> policy.version + 1, confirmed |-> 0]
    /\ st' = [st EXCEPT !.observed = cached, !.current = tierForGroup(cached),
                        !.frozen = (tierForGroup(cached) = None)]
    /\ UNCHANGED <<journal, world, up, lock, call, ref, now, faults, history>>

\* the administrator confirms the version on the screen: it must be the stored one
ConfirmGroupFailoverPolicy(version) ==
    /\ up = "running" /\ ref.pc = "idle" /\ usable
    /\ version > 0 /\ version = policy.version
    /\ tierForGroup(cached) # None
    /\ policy' = [policy EXCEPT !.confirmed = version]
    /\ UNCHANGED <<st, journal, world, up, lock, call, ref, now, faults, history>>

\* UpdateUpstreamSourceWithPolicyInvalidation: the login identity changed
InvalidatePolicy ==
    /\ up = "running" /\ ref.pc = "idle" /\ policy.version > 0 /\ Fault
    /\ policy' = [policy EXCEPT !.confirmed = 0]
    /\ st' = [st EXCEPT !.frozen = TRUE, !.hold = 0]
    /\ UNCHANGED <<journal, world, up, lock, call, ref, now, history>>

\* the foreign keys take the state and the journal rows along
DeleteGroupFailoverPolicy ==
    /\ up = "running" /\ ref.pc = "idle" /\ policy.version > 0 /\ Fault
    /\ policy' = [version |-> 0, confirmed |-> 0]
    /\ st' = NoState
    /\ journal' = [i \in Ids |-> [journal[i] EXCEPT !.status = "deleted"]]
    /\ UNCHANGED <<world, up, lock, call, ref, now, history>>

-----------------------------------------------------------------------------
(* The world around.                                                        *)

Console(g) ==           \* somebody uses the upstream's own console
    /\ Fault
    /\ g # live /\ live' = g /\ strayed' = TRUE
    /\ UNCHANGED <<policy, st, journal, log, late, cached, usable, frozenAll, up, lock, call, ref, now,
                   clobbered, lastManual>>

LateLands(g) ==
    /\ g \in late /\ late' = late \ {g}
    /\ live' = g /\ strayed' = TRUE
    /\ UNCHANGED <<policy, st, journal, log, cached, usable, frozenAll, up, lock, call, ref, now, faults,
                   clobbered, lastManual>>

SourceChanges ==        \* stale data, a balance lock, a migration: or none of them any more
    /\ Fault
    /\ usable' = ~usable
    /\ UNCHANGED <<policy, st, journal, log, live, late, cached, frozenAll, up, lock, call, ref, now,
                   history>>

FreezeChanges ==
    /\ Fault
    /\ frozenAll' = ~frozenAll
    /\ UNCHANGED <<policy, st, journal, log, live, late, cached, usable, up, lock, call, ref, now, history>>
=============================================================================
