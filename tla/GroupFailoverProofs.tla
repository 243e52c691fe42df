------------------------ MODULE GroupFailoverProofs ------------------------
(***************************************************************************)
(* Proofs about the three-level failover, for any number of journal rows,   *)
(* evidence records, policy versions, calls and disturbances.               *)
(***************************************************************************)
EXTENDS GroupFailover, FiniteSetTheorems, TLAPS

(* Rows are records whose fields are known and whose don't-care fields have  *)
(* any value; tables are sequences of whatever rows they hold.               *)
HasFields(r, F) == r = [f \in F |-> r[f]]
TableOK(t) == t \in Seq({t[i] : i \in DOMAIN t})

JournalFields == {"key", "from", "to", "manual", "dry", "created", "done", "status"}
JournalOK ==
    /\ now \in Nat
    /\ TableOK(journal)
    /\ \A i \in Ids : /\ HasFields(journal[i], JournalFields)
                      /\ journal[i].created \in Nat /\ journal[i].done \in Nat
                      /\ journal[i].created <= now

\* Nothing is reserved while a row is pending: a pending row is the newest.
PendingIsLast == \A i \in PendingIds : i = Len(journal)

\* A pending row is charged to the budget before it is completed.
Charged(since) == {i \in Ids : /\ ~journal[i].manual
                               /\ \/ journal[i].status = "pending"
                                  \/ journal[i].status = "applied" /\ journal[i].done >= since}
ChargeInv == Cardinality(Charged(now - SwitchWindow)) <= SwitchLimit

JournalInv == JournalOK /\ PendingIsLast /\ ChargeInv

-----------------------------------------------------------------------------
(* Tables and the journal.                                                  *)

\* Editing, adding and rewriting rows of a table.
LEMMA Tables ==
    ASSUME NEW t, TableOK(t)
    PROVE  /\ Len(t) \in Nat /\ DOMAIN t = 1..Len(t)
           /\ \A i \in DOMAIN t : \A r : /\ TableOK([t EXCEPT ![i] = r]) /\ DOMAIN [t EXCEPT ![i] = r] = DOMAIN t
                                         /\ Len([t EXCEPT ![i] = r]) = Len(t)
                                         /\ [t EXCEPT ![i] = r][i] = r
                                         /\ \A j \in DOMAIN t : j # i => [t EXCEPT ![i] = r][j] = t[j]
           /\ \A r : /\ TableOK(Append(t, r)) /\ Len(Append(t, r)) = Len(t) + 1
                     /\ DOMAIN Append(t, r) = 1..(Len(t) + 1)
                     /\ Append(t, r)[Len(t) + 1] = r
                     /\ \A j \in 1..Len(t) : Append(t, r)[j] = t[j]
           /\ \A f : f = [i \in DOMAIN t |-> f[i]] => TableOK(f) /\ DOMAIN f = DOMAIN t /\ Len(f) = Len(t)
<1>1. Len(t) \in Nat /\ DOMAIN t = 1..Len(t)
    BY DEF TableOK
<1>2. \A f : f = [i \in DOMAIN t |-> f[i]] => TableOK(f) /\ DOMAIN f = DOMAIN t /\ Len(f) = Len(t)
    <2> SUFFICES ASSUME NEW f, f = [i \in DOMAIN t |-> f[i]] PROVE TableOK(f) /\ DOMAIN f = DOMAIN t /\ Len(f) = Len(t)
        OBVIOUS
    <2>1. DOMAIN f = 1..Len(t)
        BY <1>1
    <2> DEFINE S == {f[i] : i \in DOMAIN f}
    <2>2. f \in [1..Len(t) -> S]
        BY <2>1
    <2> HIDE DEF S
    <2>3. f \in Seq(S)
        BY <1>1, <2>2
    <2> QED
        BY <1>1, <2>1, <2>3 DEF TableOK, S
<1>3. ASSUME NEW i \in DOMAIN t, NEW r
      PROVE  /\ TableOK([t EXCEPT ![i] = r]) /\ DOMAIN [t EXCEPT ![i] = r] = DOMAIN t
             /\ Len([t EXCEPT ![i] = r]) = Len(t)
             /\ [t EXCEPT ![i] = r][i] = r
             /\ \A j \in DOMAIN t : j # i => [t EXCEPT ![i] = r][j] = t[j]
    <2> DEFINE f == [t EXCEPT ![i] = r]
    <2>1. f = [k \in DOMAIN t |-> f[k]] /\ f[i] = r /\ \A j \in DOMAIN t : j # i => f[j] = t[j]
        OBVIOUS
    <2> HIDE DEF f
    <2>2. TableOK(f) /\ DOMAIN f = DOMAIN t /\ Len(f) = Len(t)
        BY <1>2, <2>1
    <2> QED
        BY <2>1, <2>2 DEF f
<1>4. ASSUME NEW r
      PROVE  /\ TableOK(Append(t, r)) /\ Len(Append(t, r)) = Len(t) + 1
             /\ DOMAIN Append(t, r) = 1..(Len(t) + 1)
             /\ Append(t, r)[Len(t) + 1] = r
             /\ \A j \in 1..Len(t) : Append(t, r)[j] = t[j]
    <2> DEFINE S == {t[i] : i \in DOMAIN t} \cup {r}
               u == Append(t, r)
    <2>1. t \in Seq(S) /\ r \in S
        BY DEF TableOK
    <2> HIDE DEF S
    <2>2. /\ u \in Seq(S) /\ Len(u) = Len(t) + 1 /\ DOMAIN u = 1..(Len(t) + 1)
          /\ u[Len(t) + 1] = r /\ \A j \in 1..Len(t) : u[j] = t[j]
        BY <2>1
    <2> HIDE DEF u
    <2> DEFINE R == {u[i] : i \in DOMAIN u}
    <2>3. u \in [1..Len(u) -> R] /\ Len(u) \in Nat
        BY <1>1, <2>2
    <2> HIDE DEF R
    <2>4. u \in Seq(R)
        BY <2>3
    <2> QED
        BY <2>2, <2>4 DEF TableOK, R, u
<1> QED
    BY <1>1, <1>2, <1>3, <1>4
\* What a step may do to a row that exists: end a pending one, or delete it.
RowMove(i) ==
    /\ journal'[i].from = journal[i].from /\ journal'[i].to = journal[i].to
    /\ journal'[i].manual = journal[i].manual /\ journal'[i].created = journal[i].created
    /\ \/ journal'[i].status = journal[i].status /\ journal'[i].done = journal[i].done
       \/ /\ journal[i].status = "pending" /\ journal'[i].status \in {"failed", "applied"}
          /\ journal'[i].done = now
       \/ journal'[i].status = "deleted" /\ journal'[i].done = journal[i].done
RowsMoved ==
    /\ TableOK(journal') /\ Ids' = Ids /\ Len(journal') = Len(journal)
    /\ \A i \in Ids : /\ HasFields(journal'[i], JournalFields) /\ RowMove(i)
                      /\ journal'[i].done \in Nat

\* A pending row is ended.
LEMMA RowEnded ==
    ASSUME JournalOK, NEW id \in PendingIds, NEW status \in {"failed", "applied"},
           journal' = [journal EXCEPT ![id].status = status, ![id].done = now]
    PROVE  RowsMoved
<1> DEFINE row == [journal[id] EXCEPT !.status = status, !.done = now]
<1>1. id \in Ids /\ journal[id].status = "pending" /\ HasFields(journal[id], JournalFields) /\ TableOK(journal)
    BY DEF PendingIds, JournalOK
<1>2. journal' = [journal EXCEPT ![id] = row]
    OBVIOUS
<1>3. /\ HasFields(row, JournalFields) /\ row.status = status /\ row.done = now
      /\ row.from = journal[id].from /\ row.to = journal[id].to
      /\ row.manual = journal[id].manual /\ row.created = journal[id].created
    BY <1>1 DEF HasFields, JournalFields
<1> HIDE DEF row
<1>4. /\ TableOK(journal') /\ Ids' = Ids /\ Len(journal') = Len(journal)
      /\ journal'[id] = row /\ \A j \in Ids : j # id => journal'[j] = journal[j]
    <2>1. journal' = [i \in DOMAIN journal |-> journal'[i]]
        BY <1>1, <1>2
    <2>2. TableOK(journal') /\ DOMAIN journal' = DOMAIN journal /\ Len(journal') = Len(journal)
        BY <1>1, <2>1, Tables
    <2> QED
        BY <1>1, <1>2, <2>2 DEF Ids
<1> QED
    BY <1>1, <1>3, <1>4 DEF RowsMoved, RowMove, JournalOK

\* Every step leaves the rows, ends a pending one, deletes all, or reserves the next.
LEMMA JournalMoves ==
    ASSUME JournalOK, [Next]_vars
    PROVE  \/ RowsMoved
           \/ \E p \in Callers : /\ Fetch(p) /\ UNCHANGED controller /\ call[p].pc = "fetch"
                                 /\ Verdict(call[p]) = "begin" /\ journal' = Append(journal, NewRow(call[p]))
<1>0. now \in Nat /\ TableOK(journal)
    BY DEF JournalOK
<1>1. ASSUME UNCHANGED journal PROVE RowsMoved
    BY <1>1 DEF RowsMoved, RowMove, JournalOK, Ids
<1>2. ASSUME NEW id \in PendingIds, FailRow(id) PROVE RowsMoved
    BY <1>2, RowEnded DEF FailRow
<1>3. ASSUME NEW id, FailRow(id) PROVE RowsMoved
    BY <1>1, <1>2, <1>3 DEF FailRow
<1>4. ASSUME NEW loaded, NEW id, NEW s, Complete(loaded, id, s) PROVE RowsMoved
    <2>1. CASE id \in PendingIds
        BY <1>4, <2>1, RowEnded DEF Complete, CompleteRow
    <2>2. CASE id \notin PendingIds
        BY <1>1, <1>4, <2>2 DEF Complete
    <2> QED
        BY <2>1, <2>2
<1>5. Recover => RowsMoved
    BY <1>1, <1>3, <1>4 DEF Recover
<1>6. Refresh => RowsMoved
    <2>1. ASSUME RefreshSettle, NEW id \in PendingIds,
                 journal' = [journal EXCEPT ![id].status = SettleRow(id, ref.group).row, ![id].done = now]
          PROVE  RowsMoved
        <3>1. SettleRow(id, ref.group).row \in {"failed", "applied"}
            BY DEF SettleRow
        <3> QED
            BY <2>1, <3>1, RowEnded
    <2> QED
        BY <1>1, <2>1 DEF Refresh, RefreshFetch, RefreshLoad, RefreshSettle
<1>7. DeleteGroupFailoverPolicy => RowsMoved
    <2> SUFFICES ASSUME DeleteGroupFailoverPolicy PROVE RowsMoved
        OBVIOUS
    <2>1. journal' = [i \in DOMAIN journal |-> [journal[i] EXCEPT !.status = "deleted"]]
        BY DEF DeleteGroupFailoverPolicy, Ids
    <2>2. \A i \in Ids : journal'[i] = [journal[i] EXCEPT !.status = "deleted"]
        BY <2>1 DEF Ids
    <2>3. journal' = [i \in DOMAIN journal |-> journal'[i]]
        BY <2>1
    <2>4. TableOK(journal') /\ Ids' = Ids /\ Len(journal') = Len(journal)
        BY <1>0, <2>3, Tables DEF Ids
    <2>5. ASSUME NEW i \in Ids
          PROVE  HasFields(journal'[i], JournalFields) /\ RowMove(i) /\ journal'[i].done \in Nat
        <3>1. HasFields(journal[i], JournalFields) /\ journal[i].done \in Nat
            BY DEF JournalOK
        <3> QED
            BY <2>2, <3>1 DEF HasFields, JournalFields, RowMove
    <2> QED
        BY <2>4, <2>5 DEF RowsMoved
<1>8. PolicyChange => RowsMoved
    BY <1>1, <1>7 DEF PolicyChange, SaveGroupFailoverPolicy, InvalidatePolicy, ConfirmGroupFailoverPolicy
<1>9. Outside => RowsMoved
    BY <1>1 DEF Outside, SourceChanges, FreezeChanges, Console, LateLands
<1>10. ASSUME NEW p \in Callers, Step(p), UNCHANGED controller
       PROVE  \/ RowsMoved
              \/ /\ Fetch(p) /\ UNCHANGED controller /\ call[p].pc = "fetch" /\ Verdict(call[p]) = "begin"
                 /\ journal' = Append(journal, NewRow(call[p]))
    <2>1. Acquire(p) \/ Mark(p) \/ Send(p) \/ Restore(p) \/ Unsure(p) => UNCHANGED journal
        BY DEF Acquire, Mark, Send, Restore, Unsure
    <2>2. AlreadyThere(p) => RowsMoved
        BY <1>4 DEF AlreadyThere
    <2>3. Verified(p) => RowsMoved
        BY <1>4 DEF Verified
    <2>4. Refused(p) => RowsMoved
        BY <1>3 DEF Refused
    <2>5. Fetch(p) => UNCHANGED journal \/ (call[p].pc = "fetch" /\ Verdict(call[p]) = "begin"
                                           /\ journal' = Append(journal, NewRow(call[p])))
        BY DEF Fetch
    <2> QED
        BY <1>1, <1>10, <2>1, <2>2, <2>3, <2>4, <2>5 DEF Step
<1>11. (\E t \in HumanTargets : HumanSwitch(t))
       \/ (\E outage \in BOOLEAN : ControllerCycle(outage) \/ \E seen \in 0..now : AgentSwitch(outage, seen))
       \/ (\E dry \in DryRun : HandleOutage(dry))
       \/ (\E r \in {"success", "failed"}, old \in BOOLEAN : MonitorRecorded(r, old))
       \/ EvidenceLoad \/ EvidenceSave \/ Tick \/ Crash \/ UNCHANGED vars => UNCHANGED journal
    BY DEF HumanSwitch, ControllerCycle, AgentSwitch, HandleOutage, MonitorRecorded, EvidenceLoad, EvidenceSave, Tick,
           Crash, vars
<1> QED
    BY <1>1, <1>5, <1>6, <1>8, <1>9, <1>10, <1>11 DEF Next

\* Time passes only while nothing else moves.
LEMMA Clock ==
    ASSUME [Next]_vars
    PROVE  now' = now \/ (now' = now + 1 /\ UNCHANGED <<journal, st, log, live, call, ref, ctl, ev, clobbered, strayed>>)
<1>1. \A p \in Callers : Step(p) => now' = now
    BY DEF Step, Acquire, Fetch, Mark, AlreadyThere, Send, Verified, Refused, Restore, Unsure
<1>2. Recover \/ Refresh \/ PolicyChange \/ Outside => now' = now
    BY DEF Recover, Refresh, RefreshFetch, RefreshLoad, RefreshSettle, PolicyChange, SaveGroupFailoverPolicy,
           InvalidatePolicy, DeleteGroupFailoverPolicy, ConfirmGroupFailoverPolicy, Outside, SourceChanges,
           FreezeChanges, Console, LateLands
<1>3. Tick => now' = now + 1 /\ UNCHANGED <<journal, st, log, live, call, ref, ctl, ev, clobbered, strayed>>
    BY DEF Tick, world, history, controller
<1>4. (\E t \in HumanTargets : HumanSwitch(t))
       \/ (\E outage \in BOOLEAN : ControllerCycle(outage) \/ \E seen \in 0..now : AgentSwitch(outage, seen))
       \/ (\E dry \in DryRun : HandleOutage(dry))
       \/ (\E r \in {"success", "failed"}, old \in BOOLEAN : MonitorRecorded(r, old))
       \/ EvidenceLoad \/ EvidenceSave \/ Crash \/ UNCHANGED vars => now' = now
    BY DEF HumanSwitch, ControllerCycle, AgentSwitch, HandleOutage, MonitorRecorded, EvidenceLoad, EvidenceSave,
           Crash, vars
<1> QED
    BY <1>1, <1>2, <1>3, <1>4 DEF Next

\* The newest row: no pending row before it, and within the budget if it is automatic.
LEMMA BeginChecked ==
    ASSUME NEW c, Verdict(c) = "begin"
    PROVE  NoPending /\ (~c.manual => ~LimitReached) /\ live # Gone
BY DEF Verdict
\* A finite set with one more element.
LEMMA OneMore ==
    ASSUME NEW S, IsFiniteSet(S), NEW x
    PROVE  /\ IsFiniteSet(S \cup {x}) /\ Cardinality(S) \in Nat /\ Cardinality(S \cup {x}) \in Nat
           /\ Cardinality(S \cup {x}) <= Cardinality(S) + 1
<1>1. Cardinality(S) \in Nat
    BY FS_CardinalityType
<1>2. CASE x \in S
    <2> DEFINE T == S \cup {x}
    <2>1. T = S
        BY <1>2
    <2> HIDE DEF T
    <2>2. IsFiniteSet(T) /\ Cardinality(T) \in Nat /\ Cardinality(T) <= Cardinality(S) + 1
        BY <1>1, <2>1
    <2> QED
        BY <1>1, <2>2 DEF T
<1>3. CASE x \notin S
    BY <1>1, <1>3, FS_AddElement
<1> QED
    BY <1>2, <1>3

\* The journal stays in order, and within the budget, after every step.
LEMMA JournalStep ==
    ASSUME JournalInv, [Next]_vars
    PROVE  JournalInv'
<1>0. now \in Nat /\ now' \in Nat /\ now <= now' /\ TableOK(journal) /\ Len(journal) \in Nat /\ Ids = 1..Len(journal)
    BY Clock, Tables DEF JournalInv, JournalOK, Ids
<1>a. SwitchWindow \in Nat /\ SwitchLimit \in Nat
    BY GroupTransitionAssumption
<1>b. IsFiniteSet(Ids) /\ Charged(now - SwitchWindow) \subseteq Ids
    BY <1>0, FS_Interval DEF Charged
<1>c. IsFiniteSet(Charged(now - SwitchWindow)) /\ Cardinality(Charged(now - SwitchWindow)) \in Nat
    BY <1>b, FS_Subset, FS_CardinalityType
<1>1. CASE RowsMoved
    <2>1. JournalOK'
        BY <1>0, <1>1 DEF JournalInv, JournalOK, RowsMoved, RowMove
    <2>2. PendingIsLast'
        BY <1>1 DEF JournalInv, PendingIsLast, PendingIds, RowsMoved, RowMove
    <2>3. Charged(now - SwitchWindow)' \subseteq Charged(now - SwitchWindow)
        <3>1. ASSUME NEW i \in Charged(now - SwitchWindow)' PROVE i \in Charged(now - SwitchWindow)
            <4>1. i \in Ids /\ journal[i].done \in Nat /\ journal'[i].done \in Nat /\ RowMove(i)
                BY <1>1, <3>1 DEF Charged, RowsMoved, JournalInv, JournalOK
            <4>2. ~journal'[i].manual /\ (journal'[i].status = "pending" \/
                      (journal'[i].status = "applied" /\ journal'[i].done >= now' - SwitchWindow))
                BY <3>1 DEF Charged
            <4>3. journal'[i].done >= now' - SwitchWindow => journal'[i].done >= now - SwitchWindow
                BY <1>0, <1>a, <4>1
            <4> QED
                BY <4>1, <4>2, <4>3 DEF Charged, RowMove
        <3> QED
            BY <3>1
    <2>4. ChargeInv'
        <3> DEFINE new == Charged(now - SwitchWindow)'
                   old == Charged(now - SwitchWindow)
        <3>1. Cardinality(new) <= Cardinality(old) /\ Cardinality(new) \in Nat
            <4>1. new \subseteq old /\ IsFiniteSet(old)
                BY <1>c, <2>3
            <4> HIDE DEF new, old
            <4> QED
                BY <4>1, FS_Subset, FS_CardinalityType
        <3>2. Cardinality(old) <= SwitchLimit /\ Cardinality(old) \in Nat
            BY <1>c DEF JournalInv, ChargeInv
        <3> HIDE DEF new, old
        <3>3. Cardinality(new) <= SwitchLimit
            BY <1>a, <3>1, <3>2
        <3> QED
            BY <3>3 DEF ChargeInv, new
    <2> QED
        BY <2>1, <2>2, <2>4 DEF JournalInv
<1>2. ASSUME NEW p \in Callers, Fetch(p), Verdict(call[p]) = "begin", journal' = Append(journal, NewRow(call[p]))
      PROVE  JournalInv'
    <2> DEFINE c == call[p]
               n == Len(journal) + 1
               row == NewRow(c)
    <2>1. NoPending /\ (~c.manual => ~LimitReached)
        BY <1>2, BeginChecked
    <2>2. now' = now
        BY <1>2 DEF Fetch
    <2>3. /\ HasFields(row, JournalFields) /\ row.created = now /\ row.done = now /\ row.manual = c.manual
        BY DEF NewRow, HasFields, JournalFields
    <2> HIDE DEF row
    <2>4. /\ TableOK(journal') /\ Len(journal') = n /\ Ids' = 1..n
          /\ journal'[n] = row /\ \A j \in Ids : journal'[j] = journal[j]
        <3> DEFINE t == Append(journal, row)
        <3>1. /\ TableOK(t) /\ Len(t) = n /\ DOMAIN t = 1..n
              /\ t[n] = row /\ \A j \in Ids : t[j] = journal[j]
            BY <1>0, Tables
        <3> HIDE DEF t
        <3>2. journal' = t
            BY <1>2 DEF t, row
        <3> QED
            BY <3>1, <3>2 DEF Ids
    <2>5. JournalOK'
        BY <1>0, <2>2, <2>3, <2>4 DEF JournalInv, JournalOK
    <2>6. PendingIsLast'
        BY <1>0, <2>1, <2>4 DEF PendingIsLast, NoPending, PendingIds
    <2>7. Charged(now - SwitchWindow) = Completed(now - SwitchWindow)
        BY <2>1 DEF Charged, Completed, NoPending, PendingIds
    <2>8. Charged(now - SwitchWindow)' \subseteq Charged(now - SwitchWindow) \cup {n}
        BY <1>0, <2>2, <2>4 DEF Charged
    <2>9. ASSUME c.manual PROVE Charged(now - SwitchWindow)' \subseteq Charged(now - SwitchWindow)
        <3>1. journal'[n].manual
            BY <2>3, <2>4, <2>9
        <3>2. n \notin Charged(now - SwitchWindow)'
            BY <3>1 DEF Charged
        <3> QED
            BY <2>8, <3>2
    <2>10. ChargeInv'
        <3> DEFINE new == Charged(now - SwitchWindow)'
                   old == Charged(now - SwitchWindow)
        <3>1. Cardinality(old) <= SwitchLimit /\ Cardinality(old) \in Nat /\ IsFiniteSet(old)
            BY <1>c DEF JournalInv, ChargeInv
        <3>2. ~c.manual => Cardinality(old) < SwitchLimit
            BY <1>a, <1>c, <2>1, <2>7 DEF LimitReached
        <3>3. new \subseteq old \cup {n} /\ (c.manual => new \subseteq old)
            BY <2>8, <2>9
        <3> HIDE DEF new, old
        <3>4. IsFiniteSet(old \cup {n}) /\ Cardinality(old \cup {n}) <= Cardinality(old) + 1 /\ Cardinality(old \cup {n}) \in Nat
            <4> HIDE DEF n
            <4> QED
                BY <3>1, OneMore
        <3>5. c.manual => Cardinality(new) <= Cardinality(old) /\ Cardinality(new) \in Nat
            BY <3>1, <3>3, FS_Subset, FS_CardinalityType
        <3>6. Cardinality(new) <= Cardinality(old \cup {n}) /\ Cardinality(new) \in Nat
            BY <3>3, <3>4, FS_Subset, FS_CardinalityType
        <3>7. Cardinality(new) <= SwitchLimit
            BY <1>a, <3>1, <3>2, <3>4, <3>5, <3>6
        <3> QED
            BY <3>7 DEF ChargeInv, new
    <2> QED
        BY <2>5, <2>6, <2>10 DEF JournalInv
<1> QED
    BY <1>1, <1>2, JournalMoves DEF JournalInv
\* The start: an empty journal.
LEMMA InitJournal ==
    ASSUME Init
    PROVE  JournalInv
<1>1. JournalOK /\ PendingIsLast
    BY DEF Init, JournalOK, PendingIsLast, PendingIds, Ids, TableOK
<1>2. Charged(now - SwitchWindow) = {}
    BY DEF Init, Charged, Ids
<1>3. Cardinality(Charged(now - SwitchWindow)) = 0
    BY <1>2, FS_EmptySet
<1> QED
    BY <1>1, <1>3, GroupTransitionAssumption DEF JournalInv, ChargeInv

\* The journal invariant holds in every reachable state.
THEOREM JournalInductive == Spec => []JournalInv
BY InitJournal, JournalStep, PTL DEF Spec

\* At most one row is pending (AssertNoPendingGroupTransition, BeginGroupTierTransition).
THEOREM OnePendingRow == Spec => []OnePending
<1>1. JournalInv => OnePending
    <2> SUFFICES ASSUME JournalInv PROVE OnePending
        OBVIOUS
    <2> DEFINE S == {Len(journal)}
    <2>1. PendingIds \subseteq S
        BY DEF JournalInv, PendingIsLast
    <2>2. IsFiniteSet(S) /\ Cardinality(S) = 1
        BY FS_Singleton
    <2> HIDE DEF S
    <2>3. IsFiniteSet(PendingIds) /\ Cardinality(PendingIds) <= Cardinality(S)
        BY <2>1, <2>2, FS_Subset
    <2>4. Cardinality(PendingIds) \in Nat
        BY <2>3, FS_CardinalityType
    <2> QED
        BY <2>2, <2>3, <2>4 DEF OnePending
<1> QED
    BY <1>1, JournalInductive, PTL

\* The automatic switches within the window never exceed the limit
\* (CountCompletedGroupTierTransitions, FailoverShortLimitCount).
THEOREM SwitchesWithinBudget == Spec => []SwitchBudget
<1>1. JournalInv => SwitchBudget
    <2> SUFFICES ASSUME JournalInv PROVE SwitchBudget
        OBVIOUS
    <2> DEFINE C == Charged(now - SwitchWindow)
               D == Completed(now - SwitchWindow)
    <2>1. Ids = 1..Len(journal) /\ Len(journal) \in Nat
        BY Tables DEF JournalInv, JournalOK, Ids
    <2>2. D \subseteq C /\ C \subseteq Ids
        BY DEF Completed, Charged
    <2>3. Cardinality(C) <= SwitchLimit /\ SwitchLimit \in Nat
        BY GroupTransitionAssumption DEF JournalInv, ChargeInv
    <2> HIDE DEF C, D
    <2>4. IsFiniteSet(C)
        <3>1. IsFiniteSet(Ids)
            BY <2>1, FS_Interval
        <3> QED
            BY <2>2, <3>1, FS_Subset
    <2>5. Cardinality(D) \in Nat /\ Cardinality(C) \in Nat /\ Cardinality(D) <= Cardinality(C)
        BY <2>2, <2>4, FS_Subset, FS_CardinalityType
    <2>6. Cardinality(D) <= SwitchLimit
        BY <2>3, <2>5
    <2> QED
        BY <2>6 DEF SwitchBudget, D
<1> QED
    BY <1>1, JournalInductive, PTL
-----------------------------------------------------------------------------
(* The validation state and its copies.                                     *)

StateFields == {"current", "observed", "frozen", "hold", "cool", "vs", "tid", "ev"}
CallFields == {"pc", "key", "target", "manual", "dry", "expect", "cutoff", "loc", "known", "tid", "prev"}
Evidence == [verified : Nat \cup {Nil}, wm : Nat, cursor : Nat, succ : Nat, fail : Nat]

LogOK == TableOK(log) /\ \A i \in DOMAIN log : log[i].started \in Nat /\ log[i].started <= now

\* Counted, on any log.
CountedIn(l, s, from, upto, result) == {i \in from..upto : l[i].result = result /\ Attributable(l[i], s)}

\* A state row whose counters are those of the records between watermark and cursor;
\* without a verified switch it has counted nothing.
Good(s, l) ==
    /\ HasFields(s, StateFields) /\ s.ev \in Evidence
    /\ s.ev.wm <= s.ev.cursor /\ s.ev.cursor <= Len(l)
    /\ s.vs = "transitioning" => s.ev.verified = Nil
    /\ s.ev.verified = Nil => s.ev.cursor = s.ev.wm /\ s.ev.succ = 0 /\ s.ev.fail = 0
    /\ s.ev.verified # Nil =>
           /\ s.ev.fail = Cardinality(CountedIn(l, s, s.ev.wm + 1, s.ev.cursor, "failed"))
           /\ s.ev.succ = Cardinality(CountedIn(l, s, s.ev.wm + 1, s.ev.cursor, "success"))

\* The calls that have stored the row that says "transitioning".
Sending == {"already", "send", "verified", "refused", "restore", "unsure"}
CallOK(c, l) ==
    /\ HasFields(c, CallFields) /\ Good(c.loc, l)
    /\ c.pc \in Sending => c.loc.ev.verified = Nil /\ c.loc.tid = c.tid
CallsOK == call = [p \in Callers |-> call[p]] /\ \A p \in Callers : CallOK(call[p], log)

StatesInv ==
    /\ LogOK /\ Good(st, log) /\ CallsOK
    /\ ref.pc = "settle" => Good(ref.loc, log)
    /\ ctl.pc = "handle" => Good(ctl.loc, log)
    /\ ev.pc = "save" => Good(ev.next, log)

\* A row that has counted nothing is good.
LEMMA GoodEmpty ==
    ASSUME NEW s, NEW l, HasFields(s, StateFields), Len(l) \in Nat, NEW w \in Nat, w <= Len(l),
           s.ev = [verified |-> Nil, wm |-> w, cursor |-> w, succ |-> 0, fail |-> 0]
    PROVE  Good(s, l)
BY DEF Good, Evidence, Nil

\* A row with the evidence of a good one is good.
LEMMA GoodSame ==
    ASSUME NEW s, NEW r, NEW l, Good(s, l), HasFields(r, StateFields), r.ev = s.ev,
           r.vs = "transitioning" => s.vs = "transitioning" \/ s.ev.verified = Nil
    PROVE  Good(r, l)
<1>1. \A a, b, x : CountedIn(l, r, a, b, x) = CountedIn(l, s, a, b, x)
    BY DEF CountedIn, Attributable
<1> QED
    BY <1>1 DEF Good

\* A switch is verified: nothing was counted before.
LEMMA GoodVerified ==
    ASSUME NEW s, NEW r, NEW l, Good(s, l), s.ev.verified = Nil, HasFields(r, StateFields), NEW t \in Nat,
           r.ev = [s.ev EXCEPT !.verified = t], r.vs # "transitioning"
    PROVE  Good(r, l)
<1>1. /\ r.ev \in Evidence /\ r.ev.verified = t /\ t # Nil /\ r.ev.wm = s.ev.wm /\ r.ev.cursor = s.ev.wm
      /\ r.ev.succ = 0 /\ r.ev.fail = 0 /\ s.ev.wm \in Nat /\ r.ev.cursor <= Len(l)
    BY DEF Good, Evidence, Nil
<1>2. \A x : CountedIn(l, r, r.ev.wm + 1, r.ev.cursor, x) = {}
    BY <1>1 DEF CountedIn
<1>3. \A x : Cardinality(CountedIn(l, r, r.ev.wm + 1, r.ev.cursor, x)) = 0
    BY <1>2, FS_EmptySet
<1> QED
    BY <1>1, <1>3 DEF Good

\* A record more, after every cursor.
LEMMA GoodMore ==
    ASSUME NEW s, NEW l, NEW x, Good(s, l), TableOK(l)
    PROVE  Good(s, Append(l, x))
<1> DEFINE m == Append(l, x)
<1>1. /\ Len(l) \in Nat /\ Len(m) = Len(l) + 1 /\ \A j \in 1..Len(l) : m[j] = l[j]
    BY Tables
<1> HIDE DEF m
<1>2. s.ev.wm \in Nat /\ s.ev.cursor \in Nat /\ s.ev.cursor <= Len(l)
    BY DEF Good, Evidence
<1>3. s.ev.wm + 1 .. s.ev.cursor \subseteq 1..Len(l)
    BY <1>1, <1>2
<1>4. \A r : CountedIn(m, s, s.ev.wm + 1, s.ev.cursor, r) = CountedIn(l, s, s.ev.wm + 1, s.ev.cursor, r)
    BY <1>1, <1>3 DEF CountedIn
<1> QED
    BY <1>1, <1>2, <1>4 DEF Good, m

\* The records of two adjacent ranges.
LEMMA CountedAdds ==
    ASSUME NEW l, NEW s, NEW a \in Nat, NEW b \in Nat, NEW c \in Nat, a <= b, b <= c, NEW x
    PROVE  Cardinality(CountedIn(l, s, a + 1, c, x))
             = Cardinality(CountedIn(l, s, a + 1, b, x)) + Cardinality(CountedIn(l, s, b + 1, c, x))
<1> DEFINE A == CountedIn(l, s, a + 1, b, x)
           B == CountedIn(l, s, b + 1, c, x)
<1>1. CountedIn(l, s, a + 1, c, x) = A \cup B
    BY DEF CountedIn
<1>2. A \cap B = {}
    BY DEF CountedIn
<1>3. A \subseteq a + 1 .. b /\ B \subseteq b + 1 .. c
    BY DEF CountedIn
<1> HIDE DEF A, B
<1>4. IsFiniteSet(a + 1 .. b) /\ IsFiniteSet(b + 1 .. c)
    BY FS_Interval
<1>5. IsFiniteSet(A) /\ IsFiniteSet(B)
    BY <1>3, <1>4, FS_Subset
<1>6. Cardinality(A \cap B) = 0 /\ Cardinality(A) \in Nat /\ Cardinality(B) \in Nat
    BY <1>2, <1>5, FS_EmptySet, FS_CardinalityType
<1>7. Cardinality(A \cup B) = Cardinality(A) + Cardinality(B) - Cardinality(A \cap B)
    BY <1>5, FS_Union
<1>8. Cardinality(A \cup B) = Cardinality(A) + Cardinality(B)
    BY <1>6, <1>7
<1> QED
    BY <1>1, <1>8 DEF A, B

\* An evaluation counts every record after the cursor once, and moves the cursor.
LEMMA GoodEvaluated ==
    ASSUME NEW s, Good(s, log), LogOK, s.ev.verified # Nil
    PROVE  /\ Good(Evaluated(s), log) /\ Evaluated(s).tid = s.tid
           /\ Evaluated(s).ev.verified = s.ev.verified /\ Evaluated(s).ev.wm = s.ev.wm
<1> DEFINE first == s.ev.cursor + 1
           S == Counted(s, first, Len(log), "success")
           F == Counted(s, first, Len(log), "failed")
           row == [s EXCEPT !.ev.cursor = Len(log), !.ev.succ = @ + Cardinality(S),
                            !.ev.fail = @ + Cardinality(F)]
<1>1. Evaluated(s) = row \/ \E v \in {"confirmed_healthy", "confirmed_failed", "uncertain"} : Evaluated(s) = [row EXCEPT !.vs = v]
    BY DEF Evaluated
<1>2. Len(log) \in Nat /\ s.ev \in Evidence /\ HasFields(s, StateFields)
    BY Tables DEF LogOK, Good
<1>3. S = CountedIn(log, s, s.ev.cursor + 1, Len(log), "success") /\ F = CountedIn(log, s, s.ev.cursor + 1, Len(log), "failed")
    BY DEF Counted, CountedIn
<1>4. Cardinality(S) \in Nat /\ Cardinality(F) \in Nat
    <2>1. S \subseteq first..Len(log) /\ F \subseteq first..Len(log)
        BY DEF Counted
    <2>2. first \in Int /\ Len(log) \in Int
        BY <1>2 DEF Evidence
    <2> HIDE DEF S, F, first
    <2>4. IsFiniteSet(first..Len(log))
        BY <2>2, FS_Interval
    <2>3. IsFiniteSet(S) /\ IsFiniteSet(F)
        BY <2>1, <2>4, FS_Subset
    <2> QED
        BY <2>3, FS_CardinalityType
<1> HIDE DEF S, F
<1>5. /\ row.ev = [verified |-> s.ev.verified, wm |-> s.ev.wm, cursor |-> Len(log),
                    succ |-> s.ev.succ + Cardinality(S), fail |-> s.ev.fail + Cardinality(F)]
      /\ HasFields(row, StateFields) /\ row.tid = s.tid /\ row.vs = s.vs
    <2> DEFINE e1 == [s.ev EXCEPT !.cursor = Len(log)]
               e2 == [e1 EXCEPT !.succ = @ + Cardinality(S)]
               e3 == [e2 EXCEPT !.fail = @ + Cardinality(F)]
               r1 == [s EXCEPT !.ev = e1]
               r2 == [r1 EXCEPT !.ev = e2]
               r3 == [r2 EXCEPT !.ev = e3]
    <2>1. r1.ev = e1 /\ r2.ev = e2 /\ HasFields(r3, StateFields) /\ r3.ev = e3 /\ r3.tid = s.tid /\ r3.vs = s.vs
        <3> HIDE DEF e1, e2, e3
        <3> QED
            BY <1>2 DEF HasFields, StateFields
    <2>2. e3 = [verified |-> s.ev.verified, wm |-> s.ev.wm, cursor |-> Len(log),
                succ |-> s.ev.succ + Cardinality(S), fail |-> s.ev.fail + Cardinality(F)]
        <3>1. s.ev = [verified |-> s.ev.verified, wm |-> s.ev.wm, cursor |-> s.ev.cursor, succ |-> s.ev.succ, fail |-> s.ev.fail]
            BY <1>2 DEF Evidence
        <3>2. e1 = [verified |-> s.ev.verified, wm |-> s.ev.wm, cursor |-> Len(log), succ |-> s.ev.succ, fail |-> s.ev.fail]
            BY <3>1
        <3> HIDE DEF e1
        <3>3. e2 = [verified |-> s.ev.verified, wm |-> s.ev.wm, cursor |-> Len(log),
                    succ |-> s.ev.succ + Cardinality(S), fail |-> s.ev.fail]
            BY <3>2
        <3> HIDE DEF e2
        <3> QED
            BY <3>3
    <2>3. row = [[[s EXCEPT !.ev.cursor = Len(log)] EXCEPT !.ev.succ = @ + Cardinality(S)] EXCEPT !.ev.fail = @ + Cardinality(F)]
        OBVIOUS
    <2>4. [r1 EXCEPT !.ev.succ = @ + Cardinality(S)] = r2
        BY <2>1
    <2>5. [r2 EXCEPT !.ev.fail = @ + Cardinality(F)] = r3
        BY <2>1
    <2>6. row = r3
        BY <2>3, <2>4, <2>5
    <2> HIDE DEF e1, e2, e3, r1, r2, r3, row
    <2> QED
        BY <2>1, <2>2, <2>6
<1>6. /\ row.ev \in Evidence /\ row.ev.verified = s.ev.verified /\ row.ev.wm = s.ev.wm /\ row.ev.cursor = Len(log)
      /\ row.ev.succ = s.ev.succ + Cardinality(S) /\ row.ev.fail = s.ev.fail + Cardinality(F)
    <2> HIDE DEF row
    <2>1. s.ev.verified \in Nat \cup {Nil} /\ s.ev.wm \in Nat /\ s.ev.succ \in Nat /\ s.ev.fail \in Nat
        BY <1>2 DEF Evidence
    <2>2. s.ev.succ + Cardinality(S) \in Nat /\ s.ev.fail + Cardinality(F) \in Nat
        BY <1>4, <2>1
    <2> QED
        BY <1>2, <1>5, <2>1, <2>2 DEF Evidence
<1> HIDE DEF row
<1>7. \A a, b, x : CountedIn(log, row, a, b, x) = CountedIn(log, s, a, b, x)
    BY <1>6 DEF CountedIn, Attributable
<1>8. s.ev.wm \in Nat /\ s.ev.cursor \in Nat /\ s.ev.wm <= s.ev.cursor /\ s.ev.cursor <= Len(log)
    BY <1>2 DEF Good, Evidence
<1>9. /\ row.ev.succ = Cardinality(CountedIn(log, row, row.ev.wm + 1, row.ev.cursor, "success"))
      /\ row.ev.fail = Cardinality(CountedIn(log, row, row.ev.wm + 1, row.ev.cursor, "failed"))
    BY <1>2, <1>3, <1>6, <1>7, <1>8, CountedAdds DEF Good
<1>10. Good(row, log)
    BY <1>2, <1>5, <1>6, <1>8, <1>9 DEF Good
<1>11. ASSUME NEW v \in {"confirmed_healthy", "confirmed_failed", "uncertain"}, Evaluated(s) = [row EXCEPT !.vs = v]
       PROVE  Good(Evaluated(s), log) /\ Evaluated(s).tid = s.tid /\ Evaluated(s).ev = row.ev
    <2>1. HasFields(Evaluated(s), StateFields) /\ Evaluated(s).ev = row.ev /\ Evaluated(s).tid = row.tid /\ Evaluated(s).vs = v
        BY <1>5, <1>11 DEF HasFields, StateFields
    <2> QED
        BY <1>5, <1>10, <2>1, GoodSame
<1> QED
    BY <1>1, <1>5, <1>6, <1>10, <1>11

\* An edited row: the evidence and the transition stay.
Edited(r, s) == /\ HasFields(r, StateFields) /\ r.ev = s.ev /\ r.tid = s.tid
                /\ r.vs = s.vs \/ r.vs # "transitioning"

LEMMA GoodEdited ==
    ASSUME NEW s, NEW r, NEW l, Good(s, l), Edited(r, s)
    PROVE  Good(r, l)
BY GoodSame DEF Edited

LEMMA HandSwitchEdits ==
    ASSUME NEW s, NEW r, Edited(r, s), NEW g, NEW t
    PROVE  Edited(HandSwitch(r, g, t), s)
<1>1. ASSUME NEW q, q = [r EXCEPT !.observed = g, !.vs = "uncertain", !.frozen = TRUE] PROVE Edited(q, s)
    BY <1>1 DEF Edited, HasFields, StateFields
<1>2. ASSUME NEW q, q = [r EXCEPT !.observed = g, !.vs = "uncertain", !.frozen = FALSE,
                                  !.current = t, !.hold = now + Protection] PROVE Edited(q, s)
    BY <1>2 DEF Edited, HasFields, StateFields
<1>3. CASE t = None
    <2> DEFINE q == HandSwitch(r, g, t)
    <2>1. q = [r EXCEPT !.observed = g, !.vs = "uncertain", !.frozen = TRUE]
        BY <1>3 DEF HandSwitch
    <2> HIDE DEF q
    <2> QED
        BY <1>1, <2>1 DEF q
<1>4. CASE t # None
    <2> DEFINE q == HandSwitch(r, g, t)
    <2>1. q = [r EXCEPT !.observed = g, !.vs = "uncertain", !.frozen = FALSE, !.current = t, !.hold = now + Protection]
        BY <1>4 DEF HandSwitch
    <2> HIDE DEF q
    <2> QED
        BY <1>2, <2>1 DEF q
<1> QED
    BY <1>3, <1>4

LEMMA ObservedEdits ==
    ASSUME NEW s, HasFields(s, StateFields), NEW g
    PROVE  Edited(Observed(s, g), s)
<1>0. Edited(s, s)
    BY DEF Edited
<1>1. ASSUME NEW q, q = [s EXCEPT !.frozen = TRUE] PROVE Edited(q, s)
    BY <1>1 DEF Edited, HasFields, StateFields
<1>2. ASSUME NEW q, q = [s EXCEPT !.frozen = TRUE, !.observed = g] PROVE Edited(q, s)
    BY <1>2 DEF Edited, HasFields, StateFields
<1> DEFINE t == tierForGroup(g)
           o == Observed(s, g)
<1>3. ASSUME NEW q, q = [s EXCEPT !.current = t, !.frozen = FALSE, !.observed = g] PROVE Edited(q, s)
    BY <1>3 DEF Edited, HasFields, StateFields
<1>4. \/ o = [s EXCEPT !.frozen = TRUE] \/ o = [s EXCEPT !.frozen = TRUE, !.observed = g]
      \/ o = HandSwitch(s, g, t) \/ o = [s EXCEPT !.current = t, !.frozen = FALSE, !.observed = g]
    <2> HIDE DEF t
    <2> QED
        BY DEF Observed, t
<1> HIDE DEF o, t
<1> QED
    <2>1. CASE o = [s EXCEPT !.frozen = TRUE]
        BY <1>1, <2>1 DEF o
    <2>2. CASE o = [s EXCEPT !.frozen = TRUE, !.observed = g]
        BY <1>2, <2>2 DEF o
    <2>3. CASE o = HandSwitch(s, g, t)
        BY <1>0, <2>3, HandSwitchEdits DEF o
    <2>4. CASE o = [s EXCEPT !.current = t, !.frozen = FALSE, !.observed = g]
        BY <1>3, <2>4 DEF o
    <2> QED
        BY <1>4, <2>1, <2>2, <2>3, <2>4

\* What is adopted keeps the transition; it verifies a row that says "transitioning".
LEMMA AdoptedGood ==
    ASSUME NEW s, Good(s, log), NEW id, now \in Nat
    PROVE  /\ Good(Adopted(s, id), log) /\ Adopted(s, id).tid = s.tid
<1> DEFINE g == journal[id].to
           base == [s EXCEPT !.current = tierForGroup(g), !.observed = g]
           a == Adopted(s, id)
<1>1. Edited(base, s)
    BY DEF Good, Edited, HasFields, StateFields
<1>2. a = IF s.tid = id /\ s.vs = "transitioning" THEN [base EXCEPT !.vs = "awaiting_evidence", !.ev.verified = now]
                 ELSE [base EXCEPT !.vs = "uncertain"]
    BY DEF Adopted
<1> HIDE DEF base, a
<1>3. CASE s.tid = id /\ s.vs = "transitioning"
    <2>1. a = [base EXCEPT !.vs = "awaiting_evidence", !.ev.verified = now]
        BY <1>2, <1>3
    <2>2. HasFields(a, StateFields) /\ a.ev = [s.ev EXCEPT !.verified = now] /\ a.tid = s.tid /\ a.vs # "transitioning"
        BY <1>1, <2>1 DEF Edited, HasFields, StateFields
    <2>3. s.ev.verified = Nil
        BY <1>3 DEF Good
    <2>4. Good(a, log)
        BY <2>2, <2>3, GoodVerified
    <2> QED
        BY <2>2, <2>4 DEF a
<1>4. CASE ~(s.tid = id /\ s.vs = "transitioning")
    <2>1. a = [base EXCEPT !.vs = "uncertain"]
        BY <1>2, <1>4
    <2>2. Edited(a, s)
        BY <1>1, <2>1 DEF Edited, HasFields, StateFields
    <2> QED
        BY <2>2, GoodEdited DEF Edited, a
<1> QED
    BY <1>3, <1>4

\* SaveGroupFailoverState.
LEMMA SaveGood ==
    ASSUME NEW loaded, NEW s, SaveState(loaded, s), Good(st, log), Good(s, log)
    PROVE  Good(st', log)
BY DEF SaveState

\* The row of no policy, and a call before it has loaded one.
LEMMA NothingGood ==
    ASSUME LogOK
    PROVE  /\ Good(NoState, log) /\ CallOK(NoCall, log)
           /\ \A key, t, m, d, x, c : CallOK(Request(key, t, m, d, x, c), log)
<1>1. Len(log) \in Nat
    BY Tables DEF LogOK
<1>2. HasFields(NoState, StateFields) /\ NoState.ev = [verified |-> Nil, wm |-> 0, cursor |-> 0, succ |-> 0, fail |-> 0]
    <2>1. NoState.ev = Unverified
        BY DEF NoState
    <2>2. HasFields(NoState, StateFields)
        BY DEF HasFields, NoState, StateFields
    <2> QED
        BY <2>1, <2>2 DEF Unverified
<1>3. Good(NoState, log)
    <2> DEFINE s == NoState
    <2> HIDE DEF s
    <2> QED
        BY <1>1, <1>2, GoodEmpty DEF s
<1>4. HasFields(NoCall, CallFields) /\ NoCall.pc = "idle" /\ NoCall.loc = NoState
    <2>1. NoCall.pc = "idle" /\ NoCall.loc = NoState
        BY DEF NoCall
    <2>2. HasFields(NoCall, CallFields)
        BY DEF HasFields, NoCall, CallFields
    <2> QED
        BY <2>1, <2>2
<1>5. ASSUME NEW key, NEW t, NEW m, NEW d, NEW x, NEW c
      PROVE  CallOK(Request(key, t, m, d, x, c), log)
    <2> DEFINE q == Request(key, t, m, d, x, c)
    <2>1. HasFields(q, CallFields) /\ q.pc = "wait" /\ q.loc = NoState
        BY DEF Request, NoCall, HasFields, CallFields
    <2> HIDE DEF q
    <2> QED
        BY <1>3, <2>1 DEF CallOK, Sending, q
<1> QED
    BY <1>3, <1>4, <1>5 DEF CallOK, Sending

\* One call moves.
LEMMA OneCall ==
    ASSUME CallsOK, log' = log, NEW p \in Callers, NEW c, CallOK(c, log), Goto(p, c)
    PROVE  CallsOK'
BY DEF CallsOK, Goto

\* After a step that adds no record.
Kept == /\ log' = log /\ Good(st', log) /\ CallsOK'
        /\ ref'.pc = "settle" => Good(ref'.loc, log)
        /\ ctl'.pc = "handle" => Good(ctl'.loc, log)
        /\ ev'.pc = "save" => Good(ev'.next, log)

\* Complete stores nothing or the row it is given.
LEMMA CompleteGood ==
    ASSUME NEW loaded, NEW id, NEW s, Complete(loaded, id, s), Good(st, log), Good(s, log)
    PROVE  Good(st', log)
BY SaveGood DEF Complete

\* The steps of a call.
LEMMA StepKeeps ==
    ASSUME StatesInv, now \in Nat, NEW p \in Callers, Step(p), UNCHANGED controller
    PROVE  Kept
<1> DEFINE c == call[p]
<1>0. /\ LogOK /\ Good(st, log) /\ CallsOK /\ HasFields(st, StateFields)
      /\ HasFields(c, CallFields) /\ Good(c.loc, log) /\ HasFields(c.loc, StateFields)
      /\ c.pc \in Sending => c.loc.ev.verified = Nil /\ c.loc.tid = c.tid
    BY DEF StatesInv, CallsOK, CallOK, Good
<1>1. Len(log) \in Nat
    BY <1>0, Tables DEF LogOK
<1> DEFINE Rest == /\ log' = log /\ UNCHANGED <<ref, ctl, ev>>
<1>2. ASSUME Rest, Good(st', log), CallsOK' PROVE Kept
    BY <1>2 DEF Kept, StatesInv
<1>3. ASSUME log' = log, Idle(p) PROVE CallsOK'
    BY <1>0, <1>3, OneCall, NothingGood DEF Idle, Goto
<1>4. ASSUME log' = log, NEW r, CallOK(r, log), Goto(p, r) PROVE CallsOK'
    BY <1>0, <1>4, OneCall
<1>5. ASSUME NEW r, NEW pc, r = [c EXCEPT !.pc = pc], pc \in Sending => c.pc \in Sending PROVE CallOK(r, log)
    <2>1. HasFields(r, CallFields) /\ r.pc = pc /\ r.loc = c.loc /\ r.tid = c.tid
        BY <1>0, <1>5 DEF HasFields, CallFields
    <2> QED
        BY <1>0, <1>5, <2>1 DEF CallOK
<1> HIDE DEF Rest
<1>11. CASE Acquire(p)
    <2>0. Rest
        BY <1>11 DEF Acquire, Rest, world, controller
    <2>1. log' = log
        BY <2>0 DEF Rest
    <2> DEFINE r == [c EXCEPT !.pc = "fetch", !.loc = st, !.known = cached]
               s == [st EXCEPT !.observed = cached, !.frozen = TRUE]
    <2>2. CallOK(r, log)
        <3>1. HasFields(r, CallFields) /\ r.pc = "fetch" /\ r.loc = st
            BY <1>0 DEF HasFields, CallFields
        <3> HIDE DEF r
        <3> QED
            BY <1>0, <3>1 DEF CallOK, Sending
    <2>3. Good(s, log)
        <3>1. Edited(s, st)
            BY <1>0 DEF Edited, HasFields, StateFields
        <3> HIDE DEF s
        <3> QED
            BY <1>0, <3>1, GoodEdited
    <2>4. (UNCHANGED st \/ SaveState(st, s)) /\ (Idle(p) \/ Goto(p, r))
        BY <1>11 DEF Acquire
    <2> HIDE DEF r, s
    <2> QED
        BY <1>0, <1>2, <1>3, <1>4, <2>0, <2>1, <2>2, <2>3, <2>4, SaveGood
<1>12. CASE Fetch(p)
    <2>0. Rest
        BY <1>12 DEF Fetch, Rest, world, controller
    <2>1. log' = log
        BY <2>0 DEF Rest
    <2> DEFINE r == [c EXCEPT !.pc = "mark", !.tid = Len(journal) + 1, !.prev = c.loc.vs]
               s == [c.loc EXCEPT !.frozen = TRUE]
               h == HandSwitch(c.loc, live, tierForGroup(live))
    <2>2. CallOK(r, log)
        <3>1. HasFields(r, CallFields) /\ r.pc = "mark" /\ r.loc = c.loc
            BY <1>0 DEF HasFields, CallFields
        <3> HIDE DEF r
        <3> QED
            BY <1>0, <3>1 DEF CallOK, Sending
    <2>3. Good(s, log)
        <3>1. Edited(s, c.loc)
            BY <1>0 DEF Edited, HasFields, StateFields
        <3> HIDE DEF s
        <3> QED
            BY <1>0, <3>1, GoodEdited
    <2>4. Good(h, log)
        <3>1. Edited(c.loc, c.loc)
            BY <1>0 DEF Edited
        <3> QED
            BY <1>0, <3>1, HandSwitchEdits, GoodEdited
    <2>5. (UNCHANGED st \/ SaveState(c.loc, s) \/ SaveState(c.loc, h)) /\ (Idle(p) \/ Goto(p, r))
        BY <1>12 DEF Fetch
    <2> HIDE DEF r, s, h
    <2> QED
        BY <1>0, <1>2, <1>3, <1>4, <2>0, <2>1, <2>2, <2>3, <2>4, <2>5, SaveGood
<1>13. CASE Mark(p)
    <2>0. Rest
        BY <1>13 DEF Mark, Rest, world, controller
    <2>1. log' = log
        BY <2>0 DEF Rest
    <2> DEFINE s == Transitioning(c.loc, c.tid, Len(log))
               next == IF journal[c.tid].from = journal[c.tid].to THEN "already" ELSE "send"
               r == [c EXCEPT !.pc = next, !.loc = s]
    <2>2. HasFields(s, StateFields) /\ s.tid = c.tid
          /\ s.ev = [verified |-> Nil, wm |-> Len(log), cursor |-> Len(log), succ |-> 0, fail |-> 0]
        BY <1>0 DEF Transitioning, Unverified, HasFields, StateFields
    <2>3. SaveState(c.loc, s) /\ (Idle(p) \/ Goto(p, r))
        BY <1>13 DEF Mark
    <2> HIDE DEF s
    <2>4. Good(s, log)
        BY <1>1, <2>2, GoodEmpty
    <2>5. CallOK(r, log)
        <3>1. HasFields(r, CallFields) /\ r.loc = s /\ r.tid = c.tid
            BY <1>0 DEF HasFields, CallFields
        <3> HIDE DEF r
        <3> QED
            BY <2>2, <2>4, <3>1 DEF CallOK
    <2> HIDE DEF r
    <2> QED
        BY <1>0, <1>2, <1>3, <1>4, <2>0, <2>1, <2>3, <2>4, <2>5, SaveGood
<1>14. CASE AlreadyThere(p)
    <2>0. Rest
        BY <1>14 DEF AlreadyThere, Rest, world, controller
    <2>1. log' = log
        BY <2>0 DEF Rest
    <2> DEFINE s == [c.loc EXCEPT !.vs = c.prev, !.current = c.target, !.observed = GroupOf[c.target]]
    <2>2. c.loc.ev.verified = Nil /\ Complete(c.loc, c.tid, s) /\ Idle(p)
        BY <1>0, <1>14 DEF AlreadyThere, Sending
    <2>3. HasFields(s, StateFields) /\ s.ev = c.loc.ev
        BY <1>0 DEF HasFields, StateFields
    <2> HIDE DEF s
    <2>4. Good(s, log)
        BY <1>0, <2>2, <2>3, GoodSame
    <2> QED
        BY <1>0, <1>2, <1>3, <2>0, <2>1, <2>2, <2>4, CompleteGood
<1>15. CASE Send(p)
    <2>0. Rest /\ UNCHANGED st
        BY <1>15 DEF Send, Rest, history, controller
    <2>1. log' = log
        BY <2>0 DEF Rest
    <2>2. PICK pc \in {"refused", "verified", "unsure"} : Goto(p, [c EXCEPT !.pc = pc])
        BY <1>15 DEF Send
    <2> DEFINE r == [c EXCEPT !.pc = pc]
    <2>3. CallOK(r, log)
        BY <1>5, <1>15 DEF Send, Sending
    <2> HIDE DEF r
    <2> QED
        BY <1>0, <1>2, <1>4, <2>0, <2>1, <2>2, <2>3 DEF r
<1>16. CASE Verified(p)
    <2>0. Rest
        BY <1>16 DEF Verified, Rest, controller
    <2>1. log' = log
        BY <2>0 DEF Rest
    <2> DEFINE s == Applied(c.loc, c.target, c.manual)
    <2>2. c.loc.ev.verified = Nil /\ Complete(c.loc, c.tid, s) /\ Idle(p)
        BY <1>0, <1>16 DEF Verified, Sending
    <2>3. HasFields(s, StateFields) /\ s.ev = [c.loc.ev EXCEPT !.verified = now] /\ s.vs # "transitioning"
        BY <1>0 DEF HasFields, StateFields, Applied
    <2> HIDE DEF s
    <2>4. Good(s, log)
        BY <1>0, <2>2, <2>3, GoodVerified
    <2> QED
        BY <1>0, <1>2, <1>3, <2>0, <2>1, <2>2, <2>4, CompleteGood
<1>17. CASE Refused(p)
    <2>0. Rest /\ UNCHANGED st
        BY <1>17 DEF Refused, Rest, world, history, controller
    <2>1. log' = log
        BY <2>0 DEF Rest
    <2> DEFINE r == [c EXCEPT !.pc = "restore"]
    <2>2. Goto(p, r)
        BY <1>17 DEF Refused
    <2>3. CallOK(r, log)
        BY <1>5, <1>17 DEF Refused, Sending
    <2> HIDE DEF r
    <2> QED
        BY <1>0, <1>2, <1>4, <2>0, <2>1, <2>2, <2>3
<1>18. CASE Restore(p) \/ Unsure(p)
    <2>0. Rest
        BY <1>18 DEF Restore, Unsure, Rest, world, controller
    <2>1. log' = log
        BY <2>0 DEF Rest
    <2>2. PICK vs \in {c.prev, "uncertain"} : SaveState(c.loc, [c.loc EXCEPT !.vs = vs])
        BY <1>18 DEF Restore, Unsure
    <2>3. Idle(p) /\ c.loc.ev.verified = Nil
        BY <1>0, <1>18 DEF Restore, Unsure, Sending
    <2> DEFINE s == [c.loc EXCEPT !.vs = vs]
    <2>4. HasFields(s, StateFields) /\ s.ev = c.loc.ev
        BY <1>0 DEF HasFields, StateFields
    <2>5. SaveState(c.loc, s)
        BY <2>2
    <2> HIDE DEF s
    <2>6. Good(s, log)
        BY <1>0, <2>3, <2>4, GoodSame
    <2> QED
        BY <1>0, <1>2, <1>3, <2>0, <2>1, <2>3, <2>5, <2>6, SaveGood
<1> QED
    BY <1>11, <1>12, <1>13, <1>14, <1>15, <1>16, <1>17, <1>18 DEF Step

\* Recovery, the refresh, policies and the world around.
LEMMA OthersKeep ==
    ASSUME StatesInv, now \in Nat, Recover \/ Refresh \/ PolicyChange \/ Outside, UNCHANGED controller
    PROVE  Kept
<1>0. /\ LogOK /\ Good(st, log) /\ CallsOK /\ HasFields(st, StateFields)
      /\ ref.pc = "settle" => Good(ref.loc, log)
    BY DEF StatesInv, Good
<1>1. ASSUME UNCHANGED <<log, call, ctl, ev>>, Good(st', log), ref'.pc = "settle" => Good(ref'.loc, log)
      PROVE  Kept
    BY <1>1 DEF Kept, StatesInv, CallsOK
<1>2. CASE Recover
    <2>1. UNCHANGED <<log, call, ctl, ev, ref>>
        BY <1>2 DEF Recover, world, controller
    <2>2. CASE UNCHANGED st
        BY <1>0, <1>1, <2>1, <2>2
    <2>3. ASSUME NEW id, Complete(st, id, [Adopted(st, id) EXCEPT !.frozen = FALSE])
          PROVE  Good(st', log)
        <3> DEFINE a == Adopted(st, id)
                   s == [a EXCEPT !.frozen = FALSE]
        <3>1. Good(a, log)
            BY <1>0, AdoptedGood
        <3> HIDE DEF a
        <3>2. Edited(s, a)
            BY <3>1 DEF Good, Edited, HasFields, StateFields
        <3>3. Complete(st, id, s)
            BY <2>3 DEF a
        <3> HIDE DEF s
        <3>4. Good(s, log)
            BY <3>1, <3>2, GoodEdited
        <3> QED
            BY <1>0, <3>3, <3>4, CompleteGood
    <2> QED
        BY <1>0, <1>1, <1>2, <2>1, <2>2, <2>3 DEF Recover
<1>3. CASE RefreshFetch
    BY <1>0, <1>1, <1>3 DEF RefreshFetch, world, history, controller
<1>4. CASE RefreshLoad
    <2>1. UNCHANGED <<log, call, ctl, ev, st>> /\ (ref'.pc = "settle" => ref'.loc = st)
        BY <1>4 DEF RefreshLoad, controller
    <2> QED
        BY <1>0, <1>1, <2>1
<1>5. CASE RefreshSettle
    <2>1. UNCHANGED <<log, call, ctl, ev>> /\ ref'.pc = "idle" /\ Good(ref.loc, log)
        BY <1>0, <1>5 DEF RefreshSettle, world, controller
    <2>2. ASSUME NEW loaded, NEW s, Good(s, log), SaveState(loaded, Observed(s, ref.group)) PROVE Good(st', log)
        <3> DEFINE o == Observed(s, ref.group)
        <3>1. Edited(o, s)
            BY <2>2, ObservedEdits DEF Good
        <3>2. SaveState(loaded, o)
            BY <2>2
        <3> HIDE DEF o
        <3> QED
            BY <1>0, <2>2, <3>1, <3>2, GoodEdited, SaveGood
    <2>3. ASSUME NEW id PROVE Good(SettleRow(id, ref.group).state, log)
        <3> DEFINE a == Adopted(ref.loc, id)
                   s == [a EXCEPT !.cool = now + Cooldown]
        <3>1. Good(a, log)
            BY <2>1, AdoptedGood
        <3> HIDE DEF a
        <3>2. Edited(s, a)
            BY <3>1 DEF Good, Edited, HasFields, StateFields
        <3>3. SettleRow(id, ref.group).state \in {s, ref.loc}
            BY DEF SettleRow, a
        <3> HIDE DEF s
        <3> QED
            BY <2>1, <3>1, <3>2, <3>3, GoodEdited
    <2>4. \/ SaveState(ref.loc, Observed(ref.loc, ref.group))
          \/ \E id \in PendingIds : SaveState(ref.loc, Observed(SettleRow(id, ref.group).state, ref.group))
        BY <1>5 DEF RefreshSettle
    <2> QED
        BY <1>1, <2>1, <2>2, <2>3, <2>4
<1>6. CASE Outside
    <2>1. UNCHANGED <<log, call, ctl, ev, st, ref>>
        BY <1>6 DEF Outside, SourceChanges, FreezeChanges, Console, LateLands, history, controller
    <2> QED
        BY <1>0, <1>1, <2>1
<1>7. CASE PolicyChange
    <2>1. UNCHANGED <<log, call, ctl, ev, ref>>
        BY <1>7 DEF PolicyChange, SaveGroupFailoverPolicy, InvalidatePolicy, DeleteGroupFailoverPolicy,
                    ConfirmGroupFailoverPolicy, world, controller
    <2>2. \/ st' = [st EXCEPT !.observed = cached, !.current = tierForGroup(cached), !.frozen = (tierForGroup(cached) = None)]
          \/ st' = [st EXCEPT !.frozen = TRUE, !.hold = 0]
          \/ st' = NoState \/ st' = st
        BY <1>7 DEF PolicyChange, SaveGroupFailoverPolicy, InvalidatePolicy, DeleteGroupFailoverPolicy,
                    ConfirmGroupFailoverPolicy
    <2>3. Edited(st', st) \/ st' = NoState
        BY <1>0, <2>2 DEF Edited, HasFields, StateFields
    <2> QED
        BY <1>0, <1>1, <2>1, <2>3, GoodEdited, NothingGood
<1> QED
    BY <1>2, <1>3, <1>4, <1>5, <1>6, <1>7 DEF Refresh

\* The callers, the controller's cycle, evidence and a crash.
LEMMA ControllerKeeps ==
    ASSUME StatesInv, now \in Nat,
           \/ \E t \in HumanTargets : HumanSwitch(t)
           \/ \E outage \in BOOLEAN : ControllerCycle(outage) \/ \E seen \in 0..now : AgentSwitch(outage, seen)
           \/ \E dry \in DryRun : HandleOutage(dry)
           \/ EvidenceLoad \/ EvidenceSave \/ Tick \/ Crash \/ UNCHANGED vars
    PROVE  Kept
<1>0. /\ LogOK /\ Good(st, log) /\ CallsOK /\ HasFields(st, StateFields)
      /\ ref.pc = "settle" => Good(ref.loc, log)
      /\ ctl.pc = "handle" => Good(ctl.loc, log)
      /\ ev.pc = "save" => Good(ev.next, log)
    BY DEF StatesInv, Good
<1>1. ASSUME NEW p \in Callers, NEW key, NEW t, NEW m, NEW d, NEW x, NEW k, log' = log, Goto(p, Request(key, t, m, d, x, k))
      PROVE  CallsOK'
    BY <1>0, <1>1, OneCall, NothingGood
<1>2. ASSUME NEW t \in HumanTargets, HumanSwitch(t) PROVE Kept
    <2>1. UNCHANGED <<log, st, ref, ctl, ev>>
        BY <1>2 DEF HumanSwitch, world, controller
    <2>2. "human" \in Callers /\ Goto("human", Request(<<"web", Len(journal)>>, t, TRUE, FALSE, None, Nil))
        BY <1>2 DEF HumanSwitch, Call, Callers
    <2>3. CallsOK'
        BY <1>1, <2>1, <2>2
    <2> QED
        BY <1>0, <2>1, <2>3 DEF Kept
<1>3. ASSUME NEW outage, NEW seen, AgentSwitch(outage, seen) PROVE Kept
    <2> DEFINE t == nextEnabledTier(st.current)
    <2>1. UNCHANGED <<log, st, ref, ctl, ev>>
        BY <1>3 DEF AgentSwitch, world, controller
    <2>2. "agent" \in Callers /\ Goto("agent", Request(<<"agent", t>>, t, FALSE, FALSE, st.current, seen))
        BY <1>3 DEF AgentSwitch, Call, Callers
    <2> HIDE DEF t
    <2>3. CallsOK'
        BY <1>1, <2>1, <2>2
    <2> QED
        BY <1>0, <2>1, <2>3 DEF Kept
<1>4. ASSUME NEW outage, ControllerCycle(outage) PROVE Kept
    <2>1. UNCHANGED <<log, st, call, ref, ev>> /\ ctl'.loc = st
        BY <1>4 DEF ControllerCycle, world
    <2> QED
        BY <1>0, <2>1 DEF Kept, CallsOK
<1>5. ASSUME NEW dry, HandleOutage(dry) PROVE Kept
    <2>1. UNCHANGED <<log, ref, ev>> /\ ctl'.pc = "idle" /\ Good(ctl.loc, log)
        BY <1>0, <1>5 DEF HandleOutage, world
    <2> DEFINE s == [ctl.loc EXCEPT !.vs = "confirmed_failed"]
               x == [s EXCEPT !.vs = "exhausted", !.frozen = TRUE]
               f == [s EXCEPT !.frozen = TRUE]
               target == nextEnabledTier(tierForGroup(ctl.group))
               q == Request(<<"fallback", target, ctl.at>>, target, FALSE, dry, None, Nil)
    <2>2. UNCHANGED st \/ SaveState(ctl.loc, s) \/ SaveState(ctl.loc, x) \/ SaveState(ctl.loc, f)
        BY <1>5 DEF HandleOutage
    <2>3. UNCHANGED call \/ Goto("controller", q)
        BY <1>5 DEF HandleOutage
    <2>4. Edited(s, ctl.loc) /\ Edited(x, ctl.loc) /\ Edited(f, ctl.loc)
        BY <2>1 DEF Good, Edited, HasFields, StateFields
    <2> HIDE DEF s, x, f, target
    <2>5. Good(st', log)
        BY <1>0, <2>1, <2>2, <2>4, GoodEdited, SaveGood
    <2>6. CASE UNCHANGED call
        BY <1>0, <2>1, <2>5, <2>6 DEF Kept, CallsOK
    <2>7. CASE Goto("controller", q)
        <3>1. CallsOK'
            BY <1>1, <2>1, <2>7 DEF Callers
        <3> QED
            BY <1>0, <2>1, <2>5, <3>1 DEF Kept
    <2> QED
        BY <2>3, <2>6, <2>7
<1>6. CASE EvidenceLoad
    <2>1. UNCHANGED <<log, st, call, ref, ctl>> /\ ev'.next = Evaluated(st) /\ st.ev.verified # Nil
        BY <1>6 DEF EvidenceLoad, world
    <2>2. Good(Evaluated(st), log)
        BY <1>0, <2>1, GoodEvaluated
    <2> QED
        BY <1>0, <2>1, <2>2 DEF Kept, CallsOK
<1>7. CASE EvidenceSave
    <2>1. UNCHANGED <<log, call, ref, ctl>> /\ ev'.pc = "idle" /\ st' \in {st, ev.next} /\ ev.pc = "save"
        BY <1>7 DEF EvidenceSave, world
    <2> QED
        BY <1>0, <2>1 DEF Kept, CallsOK
<1>8. CASE Tick \/ UNCHANGED vars
    <2>1. UNCHANGED <<log, st, call, ref, ctl, ev>>
        BY <1>8 DEF Tick, vars, world, controller
    <2> QED
        BY <1>0, <2>1 DEF Kept, CallsOK
<1>9. CASE Crash
    <2>1. UNCHANGED <<log, st>> /\ ref'.pc = "idle" /\ ctl'.pc = "idle" /\ ev'.pc = "idle"
        BY <1>9 DEF Crash, world
    <2>2. call' = [p \in Callers |-> NoCall]
        BY <1>9 DEF Crash
    <2>3. CallsOK'
        BY <1>0, <2>1, <2>2, NothingGood DEF CallsOK
    <2> QED
        BY <1>0, <2>1, <2>3 DEF Kept
<1> QED
    BY <1>2, <1>3, <1>4, <1>5, <1>6, <1>7, <1>8, <1>9

\* The state rows stay good after every step.
LEMMA StatesStep ==
    ASSUME StatesInv, JournalInv, JournalInv', [Next]_vars
    PROVE  StatesInv'
<1>0. now \in Nat /\ now' \in Nat /\ now <= now'
    BY Clock DEF JournalInv, JournalOK
<1>1. ASSUME Kept PROVE StatesInv'
    <2>1. LogOK'
        BY <1>0, <1>1 DEF StatesInv, Kept, LogOK
    <2> QED
        BY <1>1, <2>1 DEF Kept, StatesInv
<1>2. ASSUME NEW result, NEW old, MonitorRecorded(result, old) PROVE StatesInv'
    <2> DEFINE n == Len(journal)
               x == IF old THEN [started |-> journal[n].created, group |-> journal[n].from, result |-> result]
                           ELSE [started |-> now, group |-> live, result |-> result]
    <2>1. UNCHANGED <<st, call, ref, ctl, ev, now>> /\ log' = Append(log, x) /\ journal # <<>>
        BY <1>2 DEF MonitorRecorded, controller
    <2>2. n \in Ids
        <3>1. TableOK(journal) /\ Len(journal) \in Nat /\ DOMAIN journal = 1..Len(journal)
            BY Tables DEF JournalInv, JournalOK
        <3> QED
            BY <2>1, <3>1 DEF TableOK, Ids
    <2>3. x.started \in Nat /\ x.started <= now
        BY <1>0, <2>2 DEF JournalInv, JournalOK
    <2> HIDE DEF x
    <2>4. TableOK(log)
        BY DEF StatesInv, LogOK
    <2>5. LogOK'
        <3> DEFINE m == Append(log, x)
        <3>1. /\ TableOK(m) /\ DOMAIN m = 1..(Len(log) + 1) /\ m[Len(log) + 1] = x
              /\ \A j \in 1..Len(log) : m[j] = log[j]
              /\ Len(log) \in Nat /\ DOMAIN log = 1..Len(log)
            BY <2>4, Tables
        <3> HIDE DEF m
        <3>2. ASSUME NEW i \in DOMAIN m PROVE m[i].started \in Nat /\ m[i].started <= now
            BY <2>3, <3>1, <3>2 DEF StatesInv, LogOK
        <3>3. log' = m
            BY <2>1 DEF m
        <3> QED
            BY <2>1, <3>1, <3>2, <3>3 DEF LogOK
    <2>6. \A s : Good(s, log) => Good(s, log')
        BY <2>1, <2>4, GoodMore
    <2>7. CallsOK'
        BY <2>1, <2>6 DEF StatesInv, CallsOK, CallOK
    <2> QED
        BY <2>1, <2>5, <2>6, <2>7 DEF StatesInv
<1> QED
    BY <1>0, <1>1, <1>2, StepKeeps, OthersKeep, ControllerKeeps DEF Next

\* The start: no record, the main tier, nothing under way.
LEMMA InitStates ==
    ASSUME Init
    PROVE  StatesInv
<1>1. LogOK
    BY DEF Init, LogOK, TableOK
<1>2. HasFields(NoState, StateFields) /\ NoState.ev = Unverified /\ NoState.vs = "unknown"
    BY DEF HasFields, NoState, StateFields
<1>3. st = [NoState EXCEPT !.current = "main", !.observed = "gMain"]
    BY DEF Init
<1>4. Edited(st, NoState)
    <2> DEFINE s == NoState
    <2> HIDE DEF s
    <2>1. Edited([s EXCEPT !.current = "main", !.observed = "gMain"], s)
        BY <1>2 DEF Edited, HasFields, StateFields, s
    <2> QED
        BY <1>3, <2>1 DEF s
<1>5. Good(st, log)
    BY <1>1, <1>4, NothingGood, GoodEdited
<1>6. CallsOK
    BY <1>1, NothingGood DEF Init, CallsOK
<1> QED
    BY <1>1, <1>5, <1>6 DEF Init, StatesInv

\* The state rows, the store's and every copy's, are good in every reachable state.
THEOREM StatesInductive == Spec => [](JournalInv /\ StatesInv)
<1>1. Init => JournalInv /\ StatesInv
    BY InitJournal, InitStates
<1>2. JournalInv /\ StatesInv /\ [Next]_vars => (JournalInv /\ StatesInv)'
    BY JournalStep, StatesStep
<1> QED
    BY <1>1, <1>2, PTL DEF Spec

\* The evidence counters are those of the records between watermark and cursor, whichever
\* writer of the state row came last (evaluateFailoverEvidence, SaveGroupFailoverState).
THEOREM CountersFollowCursor == Spec => []CountsMatchCursor
<1>1. StatesInv => CountsMatchCursor
    <2> SUFFICES ASSUME StatesInv, st.ev.verified # Nil
                 PROVE  /\ st.ev.fail = Cardinality(Counted(st, st.ev.wm + 1, st.ev.cursor, "failed"))
                        /\ st.ev.succ = Cardinality(Counted(st, st.ev.wm + 1, st.ev.cursor, "success"))
        BY DEF CountsMatchCursor
    <2>1. \A x : Counted(st, st.ev.wm + 1, st.ev.cursor, x) = CountedIn(log, st, st.ev.wm + 1, st.ev.cursor, x)
        BY DEF Counted, CountedIn
    <2> QED
        BY <2>1 DEF StatesInv, Good
<1> QED
    BY <1>1, StatesInductive, PTL
-----------------------------------------------------------------------------
(* The key's lock and the row of the call that holds it.                    *)

\* groupKeyLocks: one call at a time past the lock, and its row is the newest.
LockedCall(c, j) ==
    /\ c.pc \in Sending \cup {"mark"} => /\ c.tid = Len(j) /\ c.tid \in DOMAIN j
                                         /\ j[c.tid].to = GroupOf[c.target]
    /\ c.pc = "send" => j[c.tid].from # j[c.tid].to
LockInv ==
    /\ up # "running" => \A p \in Callers : call[p].pc = "idle"
    /\ ctl.pc = "handle" => up = "running" /\ call["controller"].pc = "idle"
    /\ \A p \in Callers : /\ call[p].pc \notin {"idle", "wait"} => lock = p
                          /\ LockedCall(call[p], journal)

\* Steps that leave the lock and the calls past it alone.
LEMMA LockKept ==
    ASSUME LockInv, CallsOK, RowsMoved, lock' = lock, up' = up \/ up' = "running",
           call' = call \/ \E p \in Callers : \E c : /\ up = "running" /\ Goto(p, c) /\ call[p].pc = "idle" /\ c.pc = "wait"
                                                     /\ p = "controller" => ctl'.pc = "idle",
           ctl' = ctl \/ ctl'.pc = "idle" \/ (up = "running" /\ call' = call /\ call["controller"].pc = "idle")
    PROVE  LockInv'
<1>1. ASSUME NEW c, LockedCall(c, journal) PROVE LockedCall(c, journal')
    BY <1>1 DEF LockedCall, RowsMoved, RowMove, Ids, Sending
<1>2. CASE call' = call
    BY <1>1, <1>2 DEF LockInv
<1>3. ASSUME NEW p \in Callers, NEW c, up = "running", Goto(p, c), call[p].pc = "idle", c.pc = "wait",
             p = "controller" => ctl'.pc = "idle"
      PROVE  LockInv'
    <2>1. call'[p] = c /\ \A q \in Callers : q # p => call'[q] = call[q]
        BY <1>3 DEF Goto, CallsOK
    <2>2. LockedCall(c, journal')
        BY <1>3 DEF LockedCall, Sending
    <2>3. \A q \in Callers : /\ call'[q].pc \notin {"idle", "wait"} => lock' = q
                             /\ LockedCall(call'[q], journal')
        BY <1>1, <1>3, <2>1, <2>2 DEF LockInv
    <2>4. ctl'.pc = "handle" => up' = "running" /\ call'["controller"].pc = "idle"
        BY <1>3, <2>1 DEF LockInv, Callers
    <2> QED
        BY <1>3, <2>3, <2>4 DEF LockInv
<1>4. CASE call' # call
    <2>1. PICK p \in Callers : \E c : /\ up = "running" /\ Goto(p, c) /\ call[p].pc = "idle" /\ c.pc = "wait"
                                      /\ p = "controller" => ctl'.pc = "idle"
        BY <1>4
    <2>2. PICK c : /\ up = "running" /\ Goto(p, c) /\ call[p].pc = "idle" /\ c.pc = "wait"
                   /\ p = "controller" => ctl'.pc = "idle"
        BY <2>1
    <2> QED
        BY <1>3, <2>2
<1> QED
    BY <1>2, <1>4

\* Steps of a call past the lock.
LEMMA LockStep ==
    ASSUME LockInv, CallsOK, JournalOK, NEW p \in Callers, Step(p), UNCHANGED controller, [Next]_vars
    PROVE  LockInv'
<1> DEFINE c == call[p]
<1>0. /\ call = [q \in Callers |-> call[q]] /\ HasFields(c, CallFields)
    BY DEF CallsOK, CallOK
<1>1. c.pc # "idle" /\ up = "running" /\ up' = up
    <2>1. c.pc # "idle" /\ up' = up
        BY DEF Step, Acquire, Fetch, Mark, AlreadyThere, Send, Verified, Refused, Restore, Unsure
    <2> QED
        BY <2>1 DEF LockInv
<1>2. \A q \in Callers : q # p => call'[q] = call[q]
    BY <1>0 DEF Step, Acquire, Fetch, Mark, AlreadyThere, Send, Verified, Refused, Restore, Unsure, Idle, Goto
<1>3. \A q \in Callers : q # p /\ (c.pc # "wait" \/ lock = "free") => call[q].pc \in {"idle", "wait"}
    BY <1>1 DEF LockInv, Callers
<1>4. c.pc # "wait" => lock = p
    BY <1>1 DEF LockInv
<1>5. \A q \in Callers : q # p => call'[q].pc \in {"idle", "wait"}
    <2>1. c.pc = "wait" => lock = "free"
        BY DEF Step, Acquire, Fetch, Mark, AlreadyThere, Send, Verified, Refused, Restore, Unsure
    <2> QED
        BY <1>2, <1>3, <2>1
<1>6. \A q \in Callers : q # p => LockedCall(call'[q], journal')
    BY <1>5 DEF LockedCall, Sending
<1>a. ctl'.pc = "handle" => call'["controller"].pc = "idle"
    <2>1. ctl' = ctl
        BY DEF controller
    <2> QED
        BY <1>1, <1>2, <2>1 DEF LockInv, Callers
<1>7. ASSUME call'[p].pc \notin {"idle", "wait"} => lock' = p, LockedCall(call'[p], journal') PROVE LockInv'
    BY <1>1, <1>5, <1>6, <1>7, <1>a DEF LockInv
<1>8. ASSUME Idle(p) PROVE LockInv'
    <2>1. call'[p] = NoCall /\ NoCall.pc = "idle"
        BY <1>0, <1>8 DEF Idle, NoCall
    <2> QED
        BY <1>7, <2>1 DEF LockedCall, Sending
<1>9. ASSUME NEW r, Goto(p, r), LockedCall(r, journal'), lock' = p PROVE LockInv'
    <2>1. call'[p] = r
        BY <1>0, <1>9 DEF Goto
    <2> QED
        BY <1>7, <1>9, <2>1
<1>11. CASE Acquire(p)
    <2> DEFINE r == [c EXCEPT !.pc = "fetch", !.loc = st, !.known = cached]
    <2>1. r.pc = "fetch"
        BY <1>0 DEF HasFields, CallFields
    <2>2. Idle(p) \/ (Goto(p, r) /\ lock' = p)
        BY <1>11 DEF Acquire
    <2> HIDE DEF r
    <2> QED
        BY <1>8, <1>9, <2>1, <2>2 DEF LockedCall, Sending
<1>12. CASE Fetch(p)
    <2> DEFINE r == [c EXCEPT !.pc = "mark", !.tid = Len(journal) + 1, !.prev = c.loc.vs]
    <2>1. r.pc = "mark" /\ r.tid = Len(journal) + 1 /\ r.target = c.target
        BY <1>0 DEF HasFields, CallFields
    <2>2. Idle(p) \/ (Goto(p, r) /\ lock' = lock /\ journal' = Append(journal, NewRow(c)))
        BY <1>12 DEF Fetch
    <2>3. c.pc = "fetch"
        BY <1>12 DEF Fetch
    <2> HIDE DEF r
    <2>4. ASSUME journal' = Append(journal, NewRow(c)) PROVE LockedCall(r, journal')
        <3> DEFINE row == NewRow(c)
                   m == Append(journal, row)
        <3>1. row.to = GroupOf[c.target]
            BY DEF NewRow
        <3> HIDE DEF row
        <3>2. TableOK(journal)
            BY DEF JournalOK
        <3>3. Len(m) = Len(journal) + 1 /\ m[Len(journal) + 1] = row /\ DOMAIN m = 1..(Len(journal) + 1) /\ Len(journal) \in Nat
            BY <3>2, Tables
        <3> HIDE DEF m
        <3>4. journal' = m
            BY <2>4 DEF m, row
        <3> QED
            BY <2>1, <3>1, <3>3, <3>4 DEF LockedCall, Ids
    <2> QED
        BY <1>4, <1>8, <1>9, <2>2, <2>3, <2>4
<1>13. CASE Mark(p)
    <2> DEFINE s == Transitioning(c.loc, c.tid, Len(log))
               next == IF journal[c.tid].from = journal[c.tid].to THEN "already" ELSE "send"
               r == [c EXCEPT !.pc = next, !.loc = s]
    <2>1. r.pc = next /\ r.tid = c.tid /\ r.target = c.target
        BY <1>0 DEF HasFields, CallFields
    <2>2. c.pc = "mark" /\ journal' = journal /\ (Idle(p) \/ (Goto(p, r) /\ lock' = lock))
        BY <1>13 DEF Mark
    <2> HIDE DEF s, r
    <2>3. LockedCall(r, journal')
        BY <2>1, <2>2 DEF LockedCall, LockInv
    <2> QED
        BY <1>4, <1>8, <1>9, <2>2, <2>3
<1>14. CASE AlreadyThere(p) \/ Verified(p) \/ Restore(p) \/ Unsure(p)
    BY <1>8, <1>14 DEF AlreadyThere, Verified, Restore, Unsure
<1>15. CASE Send(p)
    <2>1. PICK pc \in {"refused", "verified", "unsure"} : Goto(p, [c EXCEPT !.pc = pc])
        BY <1>15 DEF Send
    <2> DEFINE r == [c EXCEPT !.pc = pc]
    <2>2. r.pc = pc /\ r.tid = c.tid /\ r.target = c.target
        BY <1>0 DEF HasFields, CallFields
    <2>3. c.pc = "send" /\ journal' = journal /\ lock' = lock /\ Goto(p, r)
        BY <1>15, <2>1 DEF Send
    <2> HIDE DEF r
    <2>4. LockedCall(r, journal')
        BY <2>2, <2>3 DEF LockedCall, LockInv, Sending
    <2> QED
        BY <1>4, <1>9, <2>3, <2>4
<1>16. CASE Refused(p)
    <2> DEFINE r == [c EXCEPT !.pc = "restore"]
    <2>1. r.pc = "restore" /\ r.tid = c.tid /\ r.target = c.target
        BY <1>0 DEF HasFields, CallFields
    <2>2. c.pc = "refused" /\ lock' = lock /\ Goto(p, r)
        BY <1>16 DEF Refused
    <2> HIDE DEF r
    <2>3. RowsMoved
        <3>1. ~\E q \in Callers : Fetch(q)
            BY <1>3, <2>2 DEF Fetch
        <3> QED
            BY <3>1, JournalMoves
    <2>4. LockedCall(r, journal')
        BY <2>1, <2>2, <2>3 DEF LockedCall, LockInv, Sending, RowsMoved, RowMove, Ids
    <2> QED
        BY <1>4, <1>9, <2>2, <2>4
<1> QED
    BY <1>11, <1>12, <1>13, <1>14, <1>15, <1>16 DEF Step

\* The lock invariant is kept.
LEMMA LockNext ==
    ASSUME LockInv, StatesInv, JournalInv, [Next]_vars
    PROVE  LockInv'
<1>0. CallsOK /\ JournalOK
    BY DEF StatesInv, JournalInv
<1>1. CASE \E p \in Callers : Step(p) /\ UNCHANGED controller
    BY <1>0, <1>1, LockStep
<1>2. CASE ~\E p \in Callers : Step(p) /\ UNCHANGED controller
    <2>1. RowsMoved
        <3>1. \A p \in Callers : ~(Fetch(p) /\ UNCHANGED controller)
            BY <1>2 DEF Step
        <3> QED
            BY <1>0, <3>1, JournalMoves
    <2>2. ASSUME Crash PROVE LockInv'
        <3>1. call' = [p \in Callers |-> NoCall] /\ NoCall.pc = "idle" /\ ctl'.pc = "idle"
            BY <2>2 DEF Crash, NoCall
        <3> QED
            BY <3>1 DEF LockInv, LockedCall, Sending
    <2>3. ASSUME Recover \/ Refresh \/ PolicyChange \/ Outside, UNCHANGED controller PROVE LockInv'
        <3>1. lock' = lock /\ call' = call /\ ctl' = ctl /\ (up' = up \/ up' = "running")
            BY <2>3 DEF controller, Recover, Refresh, RefreshFetch, RefreshLoad, RefreshSettle, PolicyChange, SaveGroupFailoverPolicy,
               InvalidatePolicy, DeleteGroupFailoverPolicy, ConfirmGroupFailoverPolicy, Outside, SourceChanges,
               FreezeChanges, Console, LateLands
        <3> QED
            BY <1>0, <2>1, <3>1, LockKept
    <2>4. ASSUME NEW outage, ControllerCycle(outage) PROVE LockInv'
        BY <1>0, <2>1, <2>4, LockKept DEF ControllerCycle
    <2>5. ASSUME NEW result, NEW old, MonitorRecorded(result, old) PROVE LockInv'
        BY <1>0, <2>1, <2>5, LockKept DEF MonitorRecorded, controller
    <2>6. ASSUME EvidenceLoad \/ EvidenceSave \/ Tick \/ UNCHANGED vars PROVE LockInv'
        <3>1. lock' = lock /\ call' = call /\ up' = up /\ ctl' = ctl
            BY <2>6 DEF EvidenceLoad, EvidenceSave, Tick, vars, controller
        <3> QED
            BY <1>0, <2>1, <3>1, LockKept
    <2>7. ASSUME NEW p \in {"human", "agent"}, NEW key, NEW t, NEW m, NEW d, NEW x, NEW k,
                 Call(p, Request(key, t, m, d, x, k)), lock' = lock, up' = up, ctl' = ctl
          PROVE  LockInv'
        <3> DEFINE r == Request(key, t, m, d, x, k)
        <3>1. r.pc = "wait"
            BY DEF Request, NoCall
        <3>2. up = "running" /\ call[p].pc = "idle" /\ Goto(p, r)
            BY <2>7 DEF Call
        <3> HIDE DEF r
        <3> QED
            BY <1>0, <2>1, <2>7, <3>1, <3>2, LockKept DEF Callers
    <2>8. ASSUME NEW t, HumanSwitch(t) PROVE LockInv'
        BY <2>7, <2>8 DEF HumanSwitch, controller
    <2>9. ASSUME NEW outage, NEW seen, AgentSwitch(outage, seen) PROVE LockInv'
        BY <2>7, <2>9 DEF AgentSwitch, controller
    <2>10. ASSUME NEW dry, HandleOutage(dry) PROVE LockInv'
        <3> DEFINE target == nextEnabledTier(tierForGroup(ctl.group))
                   q == Request(<<"fallback", target, ctl.at>>, target, FALSE, dry, None, Nil)
        <3>1. /\ (UNCHANGED call \/ Goto("controller", q)) /\ lock' = lock /\ up' = up
              /\ ctl'.pc = "idle" /\ ctl.pc = "handle"
            BY <2>10 DEF HandleOutage
        <3>2. q.pc = "wait"
            BY DEF Request, NoCall
        <3> HIDE DEF q
        <3> QED
            BY <1>0, <2>1, <3>1, <3>2, LockKept DEF Callers, LockInv
    <2> QED
        BY <1>2, <2>2, <2>3, <2>4, <2>5, <2>6, <2>8, <2>9, <2>10 DEF Next
<1> QED
    BY <1>1, <1>2
-----------------------------------------------------------------------------
(* Attribution: what was counted was served by the group switched to.       *)

Clean == ~strayed /\ ~clobbered

\* The key is in the group the verified transition switched it to; every later row starts there.
VerifiedOK ==
    st.ev.verified # Nil =>
        /\ st.tid \in Ids /\ live = journal[st.tid].to /\ journal[st.tid].created <= st.ev.verified
        /\ \A n \in Ids : n > st.tid => journal[n].from = journal[st.tid].to
        /\ \A i \in DOMAIN log : i > st.ev.wm /\ Attributable(log[i], st) => log[i].group = journal[st.tid].to
\* A call that has not sent its write yet, and one whose write was read back.
CallClean(c) ==
    /\ c.pc \in {"mark", "send"} => live = journal[c.tid].from
    /\ c.pc = "mark" => st.tid < c.tid /\ (ev.pc = "save" => ev.expected.tid # c.tid)
    /\ c.pc = "send" => st.ev.verified = Nil
    /\ c.pc = "verified" => live = journal[c.tid].to
\* An evidence run works on the transition the row still has, or its result is dropped.
EvidenceOK ==
    ev.pc = "save" =>
        /\ ev.expected.tid \in Ids /\ ev.expected.ev.verified # Nil
        /\ ev.next.tid = ev.expected.tid
        /\ ev.next.ev.verified = ev.expected.ev.verified /\ ev.next.ev.wm = ev.expected.ev.wm
        /\ st.tid = ev.expected.tid => st.ev.verified = ev.expected.ev.verified /\ st.ev.wm = ev.expected.ev.wm
Attribution == /\ st.tid \in Nat /\ st.tid <= Len(journal)
               /\ VerifiedOK /\ EvidenceOK /\ \A p \in Callers : CallClean(call[p])
AttributionInv == Clean => Attribution

\* What a step that sends nothing may do to the row: edit it, empty it, verify it.
RowMoves ==
    \/ st'.tid = st.tid /\ st'.ev.verified = st.ev.verified /\ st'.ev.wm = st.ev.wm
    \/ st'.tid = 0 /\ st'.ev.verified = Nil
    \/ /\ st'.tid = st.tid /\ st'.ev.verified = now /\ st'.ev.wm = st.ev.wm
       /\ st.ev.verified = Nil /\ st.tid \in PendingIds /\ live = journal[st.tid].to

Watched == {"mark", "send", "verified"}

\* Steps that send nothing, reserve no row and add no record.
LEMMA QuietStep ==
    ASSUME Attribution, LockInv, JournalInv, StatesInv, RowsMoved, live' = live, log' = log, RowMoves,
           \A p \in Callers : call'[p].pc \in Watched => call'[p].pc = call[p].pc /\ call'[p].tid = call[p].tid,
           ev' = ev \/ ev'.pc = "idle"
    PROVE  Attribution'
<1>0. /\ TableOK(journal) /\ Len(journal) \in Nat /\ Ids = 1..Len(journal) /\ now \in Nat
      /\ Ids' = Ids /\ Len(journal') = Len(journal)
      /\ \A i \in Ids : /\ journal'[i].from = journal[i].from /\ journal'[i].to = journal[i].to
                        /\ journal'[i].created = journal[i].created /\ journal[i].created \in Nat
                        /\ journal[i].created <= now
    BY Tables DEF JournalInv, JournalOK, RowsMoved, RowMove, Ids
<1>1. \A i \in DOMAIN log : log[i].started \in Nat /\ log[i].started <= now
    BY DEF StatesInv, LogOK
<1>2. st'.tid \in Nat /\ st'.tid <= Len(journal')
    BY <1>0 DEF Attribution, RowMoves
<1>3. \A i \in PendingIds : i = Len(journal) /\ i \in Ids
    BY DEF JournalInv, PendingIsLast, PendingIds
<1>4. VerifiedOK'
    <2>1. CASE st'.tid = st.tid /\ st'.ev.verified = st.ev.verified /\ st'.ev.wm = st.ev.wm
        BY <1>0, <2>1 DEF Attribution, VerifiedOK, Attributable
    <2>2. CASE st'.ev.verified = Nil
        BY <2>2 DEF VerifiedOK
    <2>3. ASSUME st'.tid = st.tid, st'.ev.verified = now, st.tid \in PendingIds, live = journal[st.tid].to
          PROVE  VerifiedOK'
        <3>1. \A i \in DOMAIN log : ~(log[i].started >= now + PropagationDelay)
            BY <1>0, <1>1, GroupFailoverAssumption
        <3>2. \A i \in DOMAIN log' : ~Attributable(log'[i], st')
            BY <2>3, <3>1 DEF Attributable
        <3> QED
            BY <1>0, <1>3, <2>3, <3>2 DEF VerifiedOK
    <2> QED
        BY <2>1, <2>2, <2>3 DEF RowMoves
<1>5. EvidenceOK'
    <2>1. CASE ev'.pc # "save"
        BY <2>1 DEF EvidenceOK
    <2>2. CASE ev'.pc = "save"
        <3>1. ev' = ev /\ ev.pc = "save"
            BY <2>2
        <3> QED
            BY <1>0, <3>1 DEF Attribution, EvidenceOK, RowMoves
    <2> QED
        BY <2>1, <2>2
<1>6. ASSUME NEW p \in Callers PROVE CallClean(call[p])'
    <2> DEFINE c == call[p]
               d == call'[p]
    <2>0. CASE d.pc \notin Watched
        BY <2>0 DEF CallClean, Watched
    <2>1. CASE d.pc \in Watched
        <3>1. d.pc = c.pc /\ d.tid = c.tid /\ c.pc \in Watched
            BY <2>1
        <3>2. c.tid = Len(journal) /\ c.tid \in Ids /\ (c.pc = "send" => journal[c.tid].from # journal[c.tid].to)
            BY <3>1 DEF LockInv, LockedCall, Sending, Watched, Ids
        <3>3. CallClean(c)
            BY DEF Attribution
        <3> HIDE DEF c, d
        <3>4. d.pc \in {"mark", "send"} => live' = journal'[d.tid].from
            BY <1>0, <3>1, <3>2, <3>3 DEF CallClean
        <3>5. d.pc = "mark" => st'.tid < d.tid /\ (ev'.pc = "save" => ev'.expected.tid # d.tid)
            BY <1>0, <3>1, <3>2, <3>3 DEF CallClean, RowMoves
        <3>6. d.pc = "send" => st'.ev.verified = Nil
            BY <1>3, <3>1, <3>2, <3>3 DEF CallClean, RowMoves
        <3>7. d.pc = "verified" => live' = journal'[d.tid].to
            BY <1>0, <3>1, <3>2, <3>3 DEF CallClean
        <3> QED
            BY <3>4, <3>5, <3>6, <3>7 DEF CallClean, d
    <2> QED
        BY <2>0, <2>1
<1> QED
    BY <1>2, <1>4, <1>5, <1>6 DEF Attribution

\* What was stored over a changed row, or moved by others, stays so.
LEMMA CleanBefore ==
    ASSUME [Next]_vars, Clean'
    PROVE  Clean
<1>0. ASSUME NEW loaded, NEW s, SaveState(loaded, s) PROVE ~clobbered
    BY <1>0 DEF SaveState, Clean
<1>1. ASSUME NEW loaded, NEW id, NEW s, Complete(loaded, id, s) PROVE ~clobbered
    BY <1>0, <1>1 DEF Complete, Clean
<1>2. ASSUME UNCHANGED clobbered PROVE ~clobbered
    BY <1>2 DEF Clean
<1>3. ASSUME UNCHANGED strayed PROVE ~strayed
    BY <1>3 DEF Clean
<1>4. ASSUME NEW p \in Callers, Step(p) PROVE Clean
    <2>1. UNCHANGED strayed
        BY <1>4 DEF Step, Acquire, Fetch, Mark, AlreadyThere, Send, Verified, Refused, Restore, Unsure, history
    <2>2. Acquire(p) => ~clobbered
        BY <1>0, <1>2 DEF Acquire
    <2>3. Fetch(p) => ~clobbered
        BY <1>0, <1>2 DEF Fetch
    <2>4. Mark(p) \/ Restore(p) \/ Unsure(p) => ~clobbered
        BY <1>0 DEF Mark, Restore, Unsure
    <2>5. AlreadyThere(p) \/ Verified(p) => ~clobbered
        BY <1>1 DEF AlreadyThere, Verified
    <2>6. Send(p) \/ Refused(p) => ~clobbered
        BY <1>2 DEF Send, Refused, history
    <2> QED
        BY <1>3, <1>4, <2>1, <2>2, <2>3, <2>4, <2>5, <2>6 DEF Step, Clean
<1>5. ASSUME Recover \/ RefreshFetch \/ RefreshLoad PROVE Clean
    <2>1. UNCHANGED strayed
        BY <1>5 DEF Recover, RefreshFetch, RefreshLoad, history
    <2>2. Recover => ~clobbered
        BY <1>1, <1>2 DEF Recover
    <2>3. RefreshFetch \/ RefreshLoad => ~clobbered
        BY <1>2 DEF RefreshFetch, RefreshLoad, history
    <2> QED
        BY <1>3, <1>5, <2>1, <2>2, <2>3 DEF Clean
<1>6. ASSUME RefreshSettle PROVE Clean
    <2>1. (UNCHANGED strayed) \/ strayed' = (strayed \/ ref.group # live)
        BY <1>6 DEF RefreshSettle
    <2>2. ~strayed
        BY <1>3, <2>1 DEF Clean
    <2>3. ~clobbered
        BY <1>0, <1>6 DEF RefreshSettle
    <2> QED
        BY <2>2, <2>3 DEF Clean
<1>7. ASSUME PolicyChange \/ Outside PROVE Clean
    BY <1>7 DEF Clean, PolicyChange, SaveGroupFailoverPolicy, InvalidatePolicy, DeleteGroupFailoverPolicy,
                ConfirmGroupFailoverPolicy, Outside, SourceChanges, FreezeChanges, Console, LateLands, history
<1>8. ASSUME NEW dry, HandleOutage(dry) PROVE Clean
    <2>1. UNCHANGED strayed
        BY <1>8 DEF HandleOutage
    <2>2. ~clobbered
        BY <1>0, <1>2, <1>8 DEF HandleOutage
    <2> QED
        BY <1>3, <2>1, <2>2 DEF Clean
<1>9. ASSUME \/ \E t \in HumanTargets : HumanSwitch(t)
             \/ \E outage \in BOOLEAN : ControllerCycle(outage) \/ \E seen \in 0..now : AgentSwitch(outage, seen)
             \/ \E r \in {"success", "failed"}, old \in BOOLEAN : MonitorRecorded(r, old)
             \/ EvidenceLoad \/ EvidenceSave \/ Tick \/ Crash \/ UNCHANGED vars
      PROVE  Clean
    <2>1. UNCHANGED <<clobbered, strayed>>
        BY <1>9 DEF HumanSwitch, ControllerCycle, AgentSwitch, MonitorRecorded, EvidenceLoad, EvidenceSave,
                    Tick, Crash, vars, history
    <2> QED
        BY <2>1 DEF Clean
<1> QED
    BY <1>4, <1>5, <1>6, <1>7, <1>8, <1>9 DEF Next, Refresh

\* A clean store: the row that is replaced is the one that was loaded.
LEMMA CleanSave ==
    ASSUME NEW loaded, NEW s, SaveState(loaded, s), Clean'
    PROVE  st' = st \/ (st' = s /\ st = loaded)
BY DEF SaveState, Clean

LEMMA EditMoves ==
    ASSUME NEW loaded, NEW s, SaveState(loaded, s) \/ UNCHANGED st, Clean', s.tid = loaded.tid, s.ev = loaded.ev
    PROVE  RowMoves
<1>1. CASE UNCHANGED st
    BY <1>1 DEF RowMoves
<1>2. CASE SaveState(loaded, s)
    BY <1>2, CleanSave DEF RowMoves
<1> QED
    BY <1>1, <1>2

\* A pending row is completed and the row that says "transitioning" is verified.
LEMMA AdoptMoves ==
    ASSUME NEW s, Good(s, log), NEW id \in PendingIds, NEW r, NEW loaded, SaveState(loaded, r), Clean', loaded = s,
           HasFields(Adopted(s, id), StateFields),
           r.tid = Adopted(s, id).tid, r.ev = Adopted(s, id).ev, live = journal[id].to
    PROVE  RowMoves
<1> DEFINE a == Adopted(s, id)
           base == [s EXCEPT !.current = tierForGroup(journal[id].to), !.observed = journal[id].to]
<1>1. HasFields(base, StateFields) /\ base.tid = s.tid /\ base.ev = s.ev
    BY DEF Good, HasFields, StateFields
<1>2. CASE s.tid = id /\ s.vs = "transitioning"
    <2>1. a = [base EXCEPT !.vs = "awaiting_evidence", !.ev.verified = now]
        BY <1>2 DEF Adopted
    <2> HIDE DEF a, base
    <2>2. a.tid = s.tid /\ a.ev = [s.ev EXCEPT !.verified = now]
        BY <1>1, <2>1 DEF HasFields, StateFields
    <2>3. s.ev.verified = Nil /\ s.ev \in Evidence
        BY <1>2 DEF Good
    <2>4. a.ev.verified = now /\ a.ev.wm = s.ev.wm
        BY <2>2, <2>3 DEF Evidence
    <2> QED
        BY <1>2, <2>2, <2>3, <2>4, CleanSave DEF RowMoves, a
<1>3. CASE ~(s.tid = id /\ s.vs = "transitioning")
    <2>1. a = [base EXCEPT !.vs = "uncertain"]
        BY <1>3 DEF Adopted
    <2> HIDE DEF a, base
    <2>2. a.tid = s.tid /\ a.ev = s.ev
        BY <1>1, <2>1 DEF HasFields, StateFields
    <2> QED
        BY <2>2, EditMoves DEF a
<1> QED
    BY <1>2, <1>3

\* The other calls wait or are idle while one is past the lock.
LEMMA OthersWait ==
    ASSUME LockInv, NEW p \in Callers, call[p].pc \notin {"idle", "wait"}, NEW q \in Callers, q # p
    PROVE  call[q].pc \in {"idle", "wait"}
BY DEF LockInv

\* A row is reserved: it starts at the group the key is in.
LEMMA BeginStep ==
    ASSUME Attribution, LockInv, JournalInv, StatesInv, NEW p \in Callers, Fetch(p), UNCHANGED controller,
           journal' = Append(journal, NewRow(call[p]))
    PROVE  Attribution'
<1> DEFINE c == call[p]
           n == Len(journal) + 1
           row == NewRow(c)
           m == Append(journal, row)
           r == [c EXCEPT !.pc = "mark", !.tid = n, !.prev = c.loc.vs]
<1>0. /\ Len(journal) \in Nat /\ Ids = 1..Len(journal) /\ TableOK(journal)
    BY Tables DEF JournalInv, JournalOK, Ids
<1>1. row.from = live
    BY DEF NewRow
<1>2. journal' = m
    OBVIOUS
<1>3. c.pc = "fetch" /\ UNCHANGED <<live, log, ev>>
    BY DEF Fetch, world, controller
<1> HIDE DEF row
<1>4. Len(m) = n /\ DOMAIN m = 1..n /\ m[n] = row /\ \A j \in Ids : m[j] = journal[j]
    BY <1>0, Tables
<1>5. st' = st /\ (Goto(p, r) \/ Idle(p))
    <2>1. journal' # journal
        BY <1>0, <1>2, <1>4
    <2> HIDE DEF m
    <2> QED
        BY <2>1 DEF Fetch
<1> HIDE DEF m
<1>6. /\ Len(journal') = n /\ Ids' = 1..n /\ journal'[n].from = live /\ \A j \in Ids : journal'[j] = journal[j]
    BY <1>1, <1>2, <1>4 DEF Ids
<1>7. VerifiedOK'
    <2> SUFFICES ASSUME st.ev.verified # Nil PROVE VerifiedOK'
        BY <1>5 DEF VerifiedOK
    <2>1. VerifiedOK /\ st.tid \in Ids
        BY DEF Attribution, VerifiedOK
    <2>2. ASSUME NEW k \in Ids', k > st'.tid PROVE journal'[k].from = journal'[st'.tid].to
        <3>1. CASE k \in Ids
            BY <1>5, <1>6, <2>1, <2>2, <3>1 DEF VerifiedOK
        <3>2. CASE k = n
            BY <1>5, <1>6, <2>1, <3>2 DEF VerifiedOK
        <3>3. k \in 1..n
            BY <1>6, <2>2
        <3>4. k \in 1..Len(journal) \/ k = n
            BY <1>0, <3>3
        <3> QED
            BY <1>0, <3>1, <3>2, <3>4
    <2>3. st'.tid \in Ids' /\ live' = journal'[st'.tid].to /\ journal'[st'.tid].created <= st'.ev.verified
        BY <1>0, <1>3, <1>5, <1>6, <2>1 DEF VerifiedOK
    <2>4. \A i \in DOMAIN log' : i > st'.ev.wm /\ Attributable(log'[i], st') => log'[i].group = journal'[st'.tid].to
        BY <1>3, <1>5, <1>6, <2>1 DEF VerifiedOK
    <2> QED
        BY <2>2, <2>3, <2>4 DEF VerifiedOK
<1>8. EvidenceOK'
    BY <1>0, <1>3, <1>5, <1>6 DEF Attribution, EvidenceOK
<1>9. ASSUME NEW q \in Callers PROVE CallClean(call[q])'
    <2>0. call = [x \in Callers |-> call[x]] /\ HasFields(c, CallFields)
        BY DEF StatesInv, CallsOK, CallOK
    <2>1. CASE q # p
        <3>1. call'[q] = call[q] /\ call[q].pc \in {"idle", "wait"}
            BY <1>3, <1>5, <2>0, <2>1, OthersWait DEF Goto, Idle
        <3> QED
            BY <3>1 DEF CallClean
    <2>2. CASE q = p /\ Idle(p)
        <3>1. call'[q] = NoCall /\ NoCall.pc = "idle"
            BY <2>0, <2>2 DEF Idle, NoCall
        <3> QED
            BY <3>1 DEF CallClean
    <2>3. CASE q = p /\ Goto(p, r)
        <3>1. call'[q] = r
            BY <2>0, <2>3 DEF Goto
        <3>2. r.pc = "mark" /\ r.tid = n
            BY <2>0 DEF HasFields, CallFields
        <3>3. st.tid < n /\ (ev.pc = "save" => ev.expected.tid # n)
            BY <1>0 DEF Attribution, EvidenceOK
        <3> HIDE DEF r
        <3> QED
            BY <1>3, <1>5, <1>6, <3>1, <3>2, <3>3 DEF CallClean
    <2> QED
        BY <1>5, <2>1, <2>2, <2>3
<1>10. st'.tid \in Nat /\ st'.tid <= Len(journal')
    BY <1>0, <1>5, <1>6 DEF Attribution
<1> QED
    BY <1>7, <1>8, <1>9, <1>10 DEF Attribution

\* The row says "transitioning": a new transition, nothing verified.
LEMMA MarkStep ==
    ASSUME Attribution, LockInv, JournalInv, StatesInv, NEW p \in Callers, Mark(p), UNCHANGED controller, Clean'
    PROVE  Attribution'
<1> DEFINE c == call[p]
           s == Transitioning(c.loc, c.tid, Len(log))
           next == IF journal[c.tid].from = journal[c.tid].to THEN "already" ELSE "send"
           r == [c EXCEPT !.pc = next, !.loc = s]
<1>0. /\ call = [x \in Callers |-> call[x]] /\ HasFields(c, CallFields) /\ HasFields(c.loc, StateFields)
    BY DEF StatesInv, CallsOK, CallOK, Good
<1>1. /\ c.pc = "mark" /\ UNCHANGED <<journal, live, log, ev>> /\ SaveState(c.loc, s)
      /\ policy.version = 0 => Idle(p)
      /\ policy.version # 0 => Goto(p, r)
    BY DEF Mark, world, controller
<1>2. s.tid = c.tid /\ s.ev = [Unverified EXCEPT !.wm = Len(log), !.cursor = Len(log)]
    BY <1>0 DEF Transitioning, HasFields, StateFields
<1>3. s.ev.verified = Nil
    BY <1>2 DEF Unverified
<1>4. r.pc = next /\ r.tid = c.tid
    BY <1>0 DEF HasFields, CallFields
<1>5. c.tid = Len(journal) /\ c.tid \in Ids /\ Len(journal) \in Nat
    <2>1. Len(journal) \in Nat
        BY Tables DEF JournalInv, JournalOK
    <2> QED
        BY <1>1, <2>1 DEF LockInv, LockedCall, Ids
<1>6. live = journal[c.tid].from /\ (ev.pc = "save" => ev.expected.tid # c.tid)
    BY <1>1 DEF Attribution, CallClean
<1>7. \A q \in Callers : q # p => call'[q] = call[q] /\ call[q].pc \in {"idle", "wait"}
    <2> HIDE DEF r
    <2> QED
        BY <1>0, <1>1, OthersWait DEF Goto, Idle
<1> HIDE DEF s
<1>8. CASE policy.version = 0
    <2>1. st' = st /\ call'[p] = NoCall /\ NoCall.pc = "idle"
        BY <1>0, <1>1, <1>8 DEF SaveState, Idle, NoCall
    <2>2. \A q \in Callers : call'[q].pc \in {"idle", "wait"}
        BY <1>7, <2>1
    <2> QED
        BY <1>1, <2>1, <2>2 DEF Attribution, VerifiedOK, EvidenceOK, CallClean, Ids
<1>9. CASE policy.version # 0
    <2>1. st' = s /\ call'[p] = r
        BY <1>0, <1>1, <1>9 DEF SaveState, Goto
    <2> HIDE DEF r
    <2>2. VerifiedOK'
        BY <1>3, <2>1 DEF VerifiedOK
    <2>3. EvidenceOK'
        BY <1>1, <1>2, <1>6, <2>1 DEF Attribution, EvidenceOK, Ids
    <2>4. CallClean(call[p])'
        BY <1>1, <1>3, <1>4, <1>6, <2>1 DEF CallClean
    <2>5. \A q \in Callers : q # p => CallClean(call[q])'
        BY <1>7 DEF CallClean
    <2> QED
        BY <1>1, <1>2, <1>5, <2>1, <2>2, <2>3, <2>4, <2>5 DEF Attribution
<1> QED
    BY <1>8, <1>9

\* The write is sent: nothing is verified while it is under way.
LEMMA SendStep ==
    ASSUME Attribution, LockInv, JournalInv, StatesInv, NEW p \in Callers, Send(p), UNCHANGED controller
    PROVE  Attribution'
<1> DEFINE c == call[p]
<1>0. /\ call = [x \in Callers |-> call[x]] /\ HasFields(c, CallFields)
    BY DEF StatesInv, CallsOK, CallOK
<1>1. c.pc = "send" /\ UNCHANGED <<st, journal, log, ev>>
    BY DEF Send, controller
<1>2. PICK pc \in {"refused", "verified", "unsure"} :
          Goto(p, [c EXCEPT !.pc = pc]) /\ (pc = "verified" => live' = GroupOf[c.target])
    BY DEF Send
<1> DEFINE r == [c EXCEPT !.pc = pc]
<1>3. r.pc = pc /\ r.tid = c.tid /\ call'[p] = r
    BY <1>0, <1>2 DEF HasFields, CallFields, Goto
<1> HIDE DEF r
<1>4. journal[c.tid].to = GroupOf[c.target] /\ st.ev.verified = Nil
    BY <1>1 DEF LockInv, LockedCall, Sending, Attribution, CallClean
<1>5. \A q \in Callers : q # p => call'[q] = call[q] /\ call[q].pc \in {"idle", "wait"}
    BY <1>0, <1>1, <1>2, OthersWait DEF Goto
<1>6. \A q \in Callers : CallClean(call[q])'
    BY <1>1, <1>2, <1>3, <1>4, <1>5 DEF CallClean
<1> QED
    BY <1>1, <1>4, <1>6 DEF Attribution, VerifiedOK, EvidenceOK, Ids

\* A record more: of the group the key is in, or of a request older than the switch.
LEMMA RecordStep ==
    ASSUME Attribution, JournalInv, StatesInv, NEW result, NEW old, MonitorRecorded(result, old)
    PROVE  Attribution'
<1> DEFINE n == Len(journal)
           x == IF old THEN [started |-> journal[n].created, group |-> journal[n].from, result |-> result]
                       ELSE [started |-> now, group |-> live, result |-> result]
           m == Append(log, x)
<1>0. UNCHANGED <<st, journal, live, call, ev>> /\ log' = m
    BY DEF MonitorRecorded, controller
<1>1. Len(journal) \in Nat /\ Ids = 1..Len(journal)
    BY Tables DEF JournalInv, JournalOK, Ids
<1>2. (x.started = journal[n].created /\ x.group = journal[n].from) \/ (x.group = live)
    OBVIOUS
<1> HIDE DEF x
<1>3. TableOK(log)
    BY DEF StatesInv, LogOK
<1>4. DOMAIN m = 1..(Len(log) + 1) /\ m[Len(log) + 1] = x /\ \A j \in 1..Len(log) : m[j] = log[j]
    BY <1>3, Tables
<1>5. DOMAIN log = 1..Len(log) /\ Len(log) \in Nat
    BY <1>3, Tables
<1> HIDE DEF m
<1>6. VerifiedOK'
    <2> SUFFICES ASSUME st.ev.verified # Nil PROVE VerifiedOK'
        BY <1>0 DEF VerifiedOK
    <2>1. VerifiedOK /\ st.tid \in Ids /\ st.ev.verified \in Nat
        BY DEF Attribution, VerifiedOK, StatesInv, Good, Evidence
    <2>2. journal[n].created \in Nat /\ journal[st.tid].created \in Nat /\ n \in Ids
        BY <1>1, <2>1 DEF JournalInv, JournalOK
    <2>3. Attributable(x, st) => x.group = journal[st.tid].to
        <3>1. CASE x.group = live
            BY <2>1, <3>1 DEF VerifiedOK
        <3>2. CASE x.started = journal[n].created /\ x.group = journal[n].from /\ n > st.tid
            BY <2>1, <2>2, <3>2 DEF VerifiedOK
        <3>3. CASE x.started = journal[n].created /\ n = st.tid
            <4>1. ~(x.started >= st.ev.verified + PropagationDelay)
                BY <2>1, <2>2, <3>3, GroupFailoverAssumption DEF VerifiedOK
            <4> QED
                BY <4>1 DEF Attributable
        <3> QED
            BY <1>1, <1>2, <2>1, <3>1, <3>2, <3>3
    <2>4. \A i \in DOMAIN m : i > st.ev.wm /\ Attributable(m[i], st) => m[i].group = journal[st.tid].to
        BY <1>4, <1>5, <2>1, <2>3 DEF VerifiedOK
    <2> QED
        BY <1>0, <2>1, <2>4 DEF VerifiedOK, Ids
<1> QED
    BY <1>0, <1>6 DEF Attribution, EvidenceOK, CallClean, Ids

\* An evidence run loads the row.
LEMMA LoadStep ==
    ASSUME Attribution, StatesInv, EvidenceLoad, LockInv
    PROVE  Attribution'
<1> DEFINE e == Evaluated(st)
<1>0. /\ UNCHANGED <<st, journal, live, log, call>> /\ st.ev.verified # Nil
      /\ ev'.expected = st /\ ev'.next = e
    BY DEF EvidenceLoad, world
<1>1. e.tid = st.tid /\ e.ev.verified = st.ev.verified /\ e.ev.wm = st.ev.wm
    BY <1>0, GoodEvaluated DEF StatesInv
<1> HIDE DEF e
<1>2. EvidenceOK'
    BY <1>0, <1>1 DEF Attribution, VerifiedOK, EvidenceOK, Ids
<1>3. \A q \in Callers : CallClean(call[q])'
    BY <1>0 DEF Attribution, CallClean
<1> QED
    BY <1>0, <1>2, <1>3 DEF Attribution, VerifiedOK, Ids

CallsStay == \A p \in Callers : call'[p].pc \in Watched => call'[p].pc = call[p].pc /\ call'[p].tid = call[p].tid

\* A call that ends, or goes to a step where nothing is claimed of it.
LEMMA CallLeaves ==
    ASSUME CallsOK, NEW p \in Callers, NEW c, Goto(p, c), c.pc \notin Watched
    PROVE  CallsStay
BY DEF CallsOK, CallsStay, Goto

\* The steps of a call that neither reserve, mark nor send.
LEMMA CallQuiet ==
    ASSUME Attribution, LockInv, JournalInv, StatesInv, Clean', NEW p \in Callers, RowsMoved, UNCHANGED controller,
           Step(p), ~Mark(p), ~Send(p)
    PROVE  Attribution'
<1> DEFINE c == call[p]
<1>0. /\ CallsOK /\ HasFields(c, CallFields) /\ HasFields(c.loc, StateFields) /\ HasFields(st, StateFields)
      /\ Good(c.loc, log) /\ (c.pc \in Sending => c.loc.ev.verified = Nil /\ c.loc.tid = c.tid)
    BY DEF StatesInv, CallsOK, CallOK, Good
<1>1. UNCHANGED <<live, log, ev>>
    BY DEF Step, Acquire, Fetch, AlreadyThere, Verified, Refused, Restore, Unsure, world, controller
<1>2. ASSUME RowMoves, CallsStay PROVE Attribution'
    BY <1>1, <1>2, QuietStep DEF CallsStay
<1>3. ASSUME Idle(p) PROVE CallsStay
    <2>1. Goto(p, NoCall) /\ NoCall.pc = "idle"
        BY <1>3 DEF Idle, Goto, NoCall
    <2> QED
        BY <1>0, <2>1, CallLeaves DEF Watched
<1>4. CASE Acquire(p)
    <2> DEFINE r == [c EXCEPT !.pc = "fetch", !.loc = st, !.known = cached]
               s == [st EXCEPT !.observed = cached, !.frozen = TRUE]
    <2>1. r.pc = "fetch" /\ s.tid = st.tid /\ s.ev = st.ev
        BY <1>0 DEF HasFields, CallFields, StateFields
    <2>2. (UNCHANGED st \/ SaveState(st, s)) /\ (Idle(p) \/ Goto(p, r))
        BY <1>4 DEF Acquire
    <2> HIDE DEF r, s
    <2>3. RowMoves
        BY <2>1, <2>2, EditMoves
    <2>4. CallsStay
        BY <1>0, <1>3, <2>1, <2>2, CallLeaves DEF Watched
    <2> QED
        BY <1>2, <2>3, <2>4
<1>5. CASE Fetch(p)
    <2> DEFINE s == [c.loc EXCEPT !.frozen = TRUE]
               h == HandSwitch(c.loc, live, tierForGroup(live))
    <2>1. s.tid = c.loc.tid /\ s.ev = c.loc.ev
        BY <1>0 DEF HasFields, StateFields
    <2>2. h.tid = c.loc.tid /\ h.ev = c.loc.ev
        <3>1. Edited(c.loc, c.loc)
            BY <1>0 DEF Edited
        <3> QED
            BY <3>1, HandSwitchEdits DEF Edited
    <2>3. UNCHANGED st \/ SaveState(c.loc, s) \/ SaveState(c.loc, h)
        BY <1>5 DEF Fetch
    <2>4. Idle(p)
        <3>1. Idle(p) \/ journal' = Append(journal, NewRow(c))
            BY <1>5 DEF Fetch
        <3>2. journal' # Append(journal, NewRow(c))
            <4> DEFINE row == NewRow(c)
            <4> HIDE DEF row
            <4>1. Len(Append(journal, row)) = Len(journal) + 1 /\ Len(journal) \in Nat
                BY Tables DEF JournalInv, JournalOK
            <4> QED
                BY <4>1 DEF row, RowsMoved
        <3> QED
            BY <3>1, <3>2
    <2> HIDE DEF s, h
    <2>5. RowMoves
        BY <2>1, <2>2, <2>3, EditMoves
    <2> QED
        BY <1>2, <1>3, <2>4, <2>5
<1>6. CASE AlreadyThere(p)
    <2> DEFINE s == [c.loc EXCEPT !.vs = c.prev, !.current = c.target, !.observed = GroupOf[c.target]]
    <2>1. s.tid = c.loc.tid /\ s.ev = c.loc.ev
        BY <1>0 DEF HasFields, StateFields
    <2>2. (UNCHANGED st \/ SaveState(c.loc, s)) /\ Idle(p)
        BY <1>6 DEF AlreadyThere, Complete
    <2> HIDE DEF s
    <2> QED
        BY <1>2, <1>3, <2>1, <2>2, EditMoves
<1>7. CASE Verified(p)
    <2> DEFINE s == Applied(c.loc, c.target, c.manual)
    <2>1. c.pc = "verified" /\ Idle(p)
        BY <1>7 DEF Verified
    <2>2. c.loc.ev.verified = Nil /\ c.loc.tid = c.tid /\ c.loc.ev \in Evidence /\ live = journal[c.tid].to
        BY <1>0, <2>1 DEF Sending, Attribution, CallClean, Good
    <2>3. s.tid = c.loc.tid /\ s.ev = [c.loc.ev EXCEPT !.verified = now]
        BY <1>0 DEF HasFields, StateFields, Applied
    <2>4. UNCHANGED st \/ (c.tid \in PendingIds /\ SaveState(c.loc, s))
        BY <1>7 DEF Verified, Complete
    <2> HIDE DEF s
    <2>5. s.ev.verified = now /\ s.ev.wm = c.loc.ev.wm
        BY <2>2, <2>3 DEF Evidence
    <2>6. CASE UNCHANGED st
        BY <1>2, <1>3, <2>1, <2>6 DEF RowMoves
    <2>7. CASE c.tid \in PendingIds /\ SaveState(c.loc, s)
        <3>1. st' = st \/ (st' = s /\ st = c.loc)
            BY <2>7, CleanSave
        <3>2. RowMoves
            BY <2>2, <2>3, <2>5, <2>7, <3>1 DEF RowMoves
        <3> QED
            BY <1>2, <1>3, <2>1, <3>2
    <2> QED
        BY <2>4, <2>6, <2>7
<1>8. CASE Refused(p)
    <2> DEFINE r == [c EXCEPT !.pc = "restore"]
    <2>1. r.pc = "restore"
        BY <1>0 DEF HasFields, CallFields
    <2>2. UNCHANGED st /\ Goto(p, r)
        BY <1>8 DEF Refused
    <2> HIDE DEF r
    <2>3. CallsStay
        BY <1>0, <2>1, <2>2, CallLeaves DEF Watched
    <2> QED
        BY <1>2, <2>2, <2>3 DEF RowMoves
<1>9. CASE Restore(p) \/ Unsure(p)
    <2>1. PICK vs \in {c.prev, "uncertain"} : SaveState(c.loc, [c.loc EXCEPT !.vs = vs])
        BY <1>9 DEF Restore, Unsure
    <2> DEFINE s == [c.loc EXCEPT !.vs = vs]
    <2>2. s.tid = c.loc.tid /\ s.ev = c.loc.ev
        BY <1>0 DEF HasFields, StateFields
    <2>3. Idle(p) /\ SaveState(c.loc, s)
        BY <1>9, <2>1 DEF Restore, Unsure
    <2> HIDE DEF s
    <2> QED
        BY <1>2, <1>3, <2>2, <2>3, EditMoves
<1> QED
    BY <1>4, <1>5, <1>6, <1>7, <1>8, <1>9 DEF Step

\* Recovery, the refresh and policies; nobody moves the key.
LEMMA OthersQuiet ==
    ASSUME Attribution, LockInv, JournalInv, StatesInv, Clean', RowsMoved, UNCHANGED controller,
           Recover \/ Refresh \/ PolicyChange \/ Outside
    PROVE  Attribution'
<1>0. HasFields(st, StateFields) /\ Good(st, log) /\ (ref.pc = "settle" => Good(ref.loc, log)) /\ now \in Nat
    BY DEF StatesInv, Good, JournalInv, JournalOK
<1>1. UNCHANGED ev
    BY DEF controller
<1>2. ASSUME UNCHANGED <<live, log, call>>, RowMoves PROVE Attribution'
    BY <1>1, <1>2, QuietStep
<1>3. CASE Recover
    <2>1. UNCHANGED <<live, log, call>>
        BY <1>3 DEF Recover, world
    <2>2. ASSUME NEW id \in PendingIds, live = journal[id].to, Complete(st, id, [Adopted(st, id) EXCEPT !.frozen = FALSE])
          PROVE  RowMoves
        <3> DEFINE a == Adopted(st, id)
                   s == [a EXCEPT !.frozen = FALSE]
        <3>1. HasFields(a, StateFields)
            BY <1>0, AdoptedGood DEF Good
        <3> HIDE DEF a
        <3>2. s.tid = a.tid /\ s.ev = a.ev
            BY <3>1 DEF HasFields, StateFields
        <3>3. SaveState(st, s)
            BY <2>2 DEF Complete, a
        <3> HIDE DEF s
        <3> QED
            BY <1>0, <2>2, <3>1, <3>2, <3>3, AdoptMoves DEF a
    <2>3. ASSUME UNCHANGED st PROVE RowMoves
        BY <2>3 DEF RowMoves
    <2>4. RowMoves
        BY <1>3, <2>2, <2>3 DEF Recover
    <2> QED
        BY <1>2, <2>1, <2>4
<1>4. CASE RefreshFetch \/ RefreshLoad
    <2>1. UNCHANGED <<live, log, call, st>>
        BY <1>4 DEF RefreshFetch, RefreshLoad, world
    <2> QED
        BY <1>2, <2>1 DEF RowMoves
<1>5. CASE RefreshSettle
    <2>1. UNCHANGED <<live, log, call>> /\ Good(ref.loc, log)
        BY <1>0, <1>5 DEF RefreshSettle, world
    <2>2. ASSUME SaveState(ref.loc, Observed(ref.loc, ref.group)) PROVE RowMoves
        <3> DEFINE o == Observed(ref.loc, ref.group)
        <3>1. o.tid = ref.loc.tid /\ o.ev = ref.loc.ev
            BY <2>1, ObservedEdits DEF Good, Edited
        <3>2. SaveState(ref.loc, o)
            BY <2>2
        <3> HIDE DEF o
        <3> QED
            BY <3>1, <3>2, EditMoves
    <2>3. ASSUME NEW id \in PendingIds, SaveState(ref.loc, Observed(SettleRow(id, ref.group).state, ref.group)),
                 ref.group = live
          PROVE  RowMoves
        <3>1. CASE ref.group # journal[id].to
            <4>1. SettleRow(id, ref.group).state = ref.loc
                BY <3>1 DEF SettleRow
            <4> QED
                BY <2>2, <2>3, <4>1
        <3>2. CASE ref.group = journal[id].to
            <4> DEFINE a == Adopted(ref.loc, id)
                       s == [a EXCEPT !.cool = now + Cooldown]
                       o == Observed(s, ref.group)
            <4>1. HasFields(a, StateFields)
                BY <1>0, <2>1, AdoptedGood DEF Good
            <4>2. SettleRow(id, ref.group).state = s
                BY <3>2 DEF SettleRow
            <4>3. SaveState(ref.loc, o)
                BY <2>3, <4>2
            <4> HIDE DEF a
            <4>4. HasFields(s, StateFields) /\ s.tid = a.tid /\ s.ev = a.ev
                BY <4>1 DEF HasFields, StateFields
            <4> HIDE DEF s
            <4>5. o.tid = a.tid /\ o.ev = a.ev
                BY <4>4, ObservedEdits DEF Edited
            <4> HIDE DEF o
            <4> QED
                BY <2>1, <2>3, <3>2, <4>1, <4>3, <4>5, AdoptMoves DEF a
        <3> QED
            BY <3>1, <3>2
    <2>4. ASSUME strayed' = (strayed \/ ref.group # live) PROVE ref.group = live
        BY <2>4 DEF Clean
    <2>5. RowMoves
        BY <1>5, <2>2, <2>3, <2>4 DEF RefreshSettle
    <2> QED
        BY <1>2, <2>1, <2>5
<1>6. CASE Outside
    <2>1. UNCHANGED <<live, log, call, st>>
        BY <1>6 DEF Outside, SourceChanges, FreezeChanges, Console, LateLands, Clean
    <2> QED
        BY <1>2, <2>1 DEF RowMoves
<1>7. CASE PolicyChange
    <2>1. UNCHANGED <<live, log, call>>
        BY <1>7 DEF PolicyChange, SaveGroupFailoverPolicy, InvalidatePolicy, DeleteGroupFailoverPolicy,
                    ConfirmGroupFailoverPolicy, world
    <2>2. \/ st' = [st EXCEPT !.observed = cached, !.current = tierForGroup(cached), !.frozen = (tierForGroup(cached) = None)]
          \/ st' = [st EXCEPT !.frozen = TRUE, !.hold = 0]
          \/ st' = NoState \/ st' = st
        BY <1>7 DEF PolicyChange, SaveGroupFailoverPolicy, InvalidatePolicy, DeleteGroupFailoverPolicy,
                    ConfirmGroupFailoverPolicy
    <2>3. NoState.tid = 0 /\ NoState.ev.verified = Nil
        BY DEF NoState, Unverified
    <2>4. Edited(st', st) \/ st' = NoState
        BY <1>0, <2>2 DEF Edited, HasFields, StateFields
    <2>5. RowMoves
        BY <2>3, <2>4 DEF RowMoves, Edited
    <2> QED
        BY <1>2, <2>1, <2>5
<1> QED
    BY <1>3, <1>4, <1>5, <1>6, <1>7 DEF Refresh

\* The callers, the controller's cycle, the end of an evidence run, time and a crash.
LEMMA ControllerQuiet ==
    ASSUME Attribution, LockInv, JournalInv, StatesInv, Clean', RowsMoved,
           \/ \E t \in HumanTargets : HumanSwitch(t)
           \/ \E outage \in BOOLEAN : ControllerCycle(outage) \/ \E seen \in 0..now : AgentSwitch(outage, seen)
           \/ \E dry \in DryRun : HandleOutage(dry)
           \/ EvidenceSave \/ Tick \/ Crash \/ UNCHANGED vars
    PROVE  Attribution'
<1>0. CallsOK /\ (ctl.pc = "handle" => Good(ctl.loc, log))
    BY DEF StatesInv
<1>1. ASSUME UNCHANGED <<live, log>>, ev' = ev \/ ev'.pc = "idle", RowMoves, CallsStay PROVE Attribution'
    BY <1>1, QuietStep DEF CallsStay
<1>2. ASSUME UNCHANGED call PROVE CallsStay
    BY <1>2 DEF CallsStay
<1>3. ASSUME UNCHANGED st PROVE RowMoves
    BY <1>3 DEF RowMoves
<1>4. ASSUME NEW p \in Callers, NEW key, NEW t, NEW m, NEW d, NEW x, NEW k, Goto(p, Request(key, t, m, d, x, k))
      PROVE  CallsStay
    <2> DEFINE r == Request(key, t, m, d, x, k)
    <2>1. r.pc = "wait"
        BY DEF Request, NoCall
    <2>2. Goto(p, r)
        BY <1>4
    <2> HIDE DEF r
    <2> QED
        BY <1>0, <2>1, <2>2, CallLeaves DEF Watched
<1>5. ASSUME NEW t, HumanSwitch(t) PROVE Attribution'
    <2>1. UNCHANGED <<live, log, ev, st>>
        BY <1>5 DEF HumanSwitch, world, controller
    <2>2. CallsStay
        BY <1>4, <1>5 DEF HumanSwitch, Call, Callers
    <2> QED
        BY <1>1, <1>3, <2>1, <2>2
<1>6. ASSUME NEW outage, NEW seen, AgentSwitch(outage, seen) PROVE Attribution'
    <2>1. UNCHANGED <<live, log, ev, st>>
        BY <1>6 DEF AgentSwitch, world, controller
    <2>2. CallsStay
        BY <1>4, <1>6 DEF AgentSwitch, Call, Callers
    <2> QED
        BY <1>1, <1>3, <2>1, <2>2
<1>7. ASSUME NEW outage, ControllerCycle(outage) PROVE Attribution'
    <2>1. UNCHANGED <<live, log, ev, st, call>>
        BY <1>7 DEF ControllerCycle, world
    <2> QED
        BY <1>1, <1>2, <1>3, <2>1
<1>8. ASSUME NEW dry, HandleOutage(dry) PROVE Attribution'
    <2>1. UNCHANGED <<live, log, ev>> /\ HasFields(ctl.loc, StateFields)
        BY <1>0, <1>8 DEF HandleOutage, world, Good
    <2> DEFINE s == [ctl.loc EXCEPT !.vs = "confirmed_failed"]
               x == [s EXCEPT !.vs = "exhausted", !.frozen = TRUE]
               f == [s EXCEPT !.frozen = TRUE]
               target == nextEnabledTier(tierForGroup(ctl.group))
               q == Request(<<"fallback", target, ctl.at>>, target, FALSE, dry, None, Nil)
    <2>2. UNCHANGED st \/ SaveState(ctl.loc, s) \/ SaveState(ctl.loc, x) \/ SaveState(ctl.loc, f)
        BY <1>8 DEF HandleOutage
    <2>3. UNCHANGED call \/ Goto("controller", q)
        BY <1>8 DEF HandleOutage
    <2>4. Edited(s, ctl.loc) /\ Edited(x, ctl.loc) /\ Edited(f, ctl.loc)
        BY <2>1 DEF Edited, HasFields, StateFields
    <2> HIDE DEF s, x, f, target
    <2>5. RowMoves
        BY <2>2, <2>4, EditMoves DEF Edited
    <2>6. CallsStay
        BY <1>2, <1>4, <2>3 DEF Callers
    <2> QED
        BY <1>1, <2>1, <2>5, <2>6
<1>9. ASSUME EvidenceSave PROVE Attribution'
    <2>1. /\ UNCHANGED <<live, log, call>> /\ ev'.pc = "idle" /\ ev.pc = "save"
          /\ st' = st \/ (st' = ev.next /\ st.tid = ev.expected.tid)
        BY <1>9 DEF EvidenceSave, world
    <2>2. RowMoves
        BY <2>1 DEF Attribution, EvidenceOK, RowMoves
    <2> QED
        BY <1>1, <1>2, <2>1, <2>2
<1>10. ASSUME Tick \/ UNCHANGED vars PROVE Attribution'
    <2>1. UNCHANGED <<live, log, ev, st, call>>
        BY <1>10 DEF Tick, vars, world, controller
    <2> QED
        BY <1>1, <1>2, <1>3, <2>1
<1>11. ASSUME Crash PROVE Attribution'
    <2>1. UNCHANGED <<live, log, st>> /\ ev'.pc = "idle" /\ call' = [p \in Callers |-> NoCall] /\ NoCall.pc = "idle"
        BY <1>11 DEF Crash, world, NoCall
    <2>2. CallsStay
        BY <2>1 DEF CallsStay, Watched
    <2> QED
        BY <1>1, <1>3, <2>1, <2>2
<1> QED
    BY <1>5, <1>6, <1>7, <1>8, <1>9, <1>10, <1>11

\* Attribution is kept, as long as nobody interferes.
LEMMA AttributionStep ==
    ASSUME AttributionInv, LockInv, JournalInv, StatesInv, [Next]_vars
    PROVE  AttributionInv'
<1> SUFFICES ASSUME Clean' PROVE Attribution'
    BY DEF AttributionInv
<1>1. Attribution /\ JournalOK
    BY CleanBefore DEF AttributionInv, JournalInv
<1>2. ASSUME NEW p \in Callers, Fetch(p), UNCHANGED controller, journal' = Append(journal, NewRow(call[p]))
      PROVE  Attribution'
    BY <1>1, <1>2, BeginStep
<1>3. CASE RowsMoved
    <2>1. ASSUME NEW p \in Callers, Step(p), UNCHANGED controller PROVE Attribution'
        BY <1>1, <1>3, <2>1, MarkStep, SendStep, CallQuiet
    <2>2. ASSUME NEW result, NEW old, MonitorRecorded(result, old) PROVE Attribution'
        BY <1>1, <2>2, RecordStep
    <2>3. ASSUME EvidenceLoad PROVE Attribution'
        BY <1>1, <2>3, LoadStep
    <2>4. ASSUME Recover \/ Refresh \/ PolicyChange \/ Outside, UNCHANGED controller PROVE Attribution'
        BY <1>1, <1>3, <2>4, OthersQuiet
    <2> QED
        BY <1>1, <1>3, <2>1, <2>2, <2>3, <2>4, ControllerQuiet DEF Next
<1> QED
    BY <1>1, <1>2, <1>3, JournalMoves

\* The start: nothing verified, nothing under way.
LEMMA InitAttribution ==
    ASSUME Init
    PROVE  LockInv /\ AttributionInv
<1>1. call = [p \in Callers |-> NoCall] /\ up = "running" /\ ctl.pc = "idle" /\ ev.pc = "idle" /\ journal = <<>>
    BY DEF Init
<1>2. NoCall.pc = "idle"
    BY DEF NoCall
<1>3. LockInv
    BY <1>1, <1>2 DEF LockInv, LockedCall, Sending
<1>4. \A p \in Callers : CallClean(call[p])
    BY <1>1, <1>2 DEF CallClean
<1>5. NoState.tid = 0 /\ NoState.ev = Unverified /\ Unverified.verified = Nil
    BY DEF NoState, Unverified
<1>6. st.tid = 0 /\ st.ev.verified = Nil
    <2> DEFINE s == NoState
    <2>1. HasFields(s, StateFields)
        BY DEF HasFields, NoState, StateFields
    <2>2. st = [s EXCEPT !.current = "main", !.observed = "gMain"]
        BY DEF Init
    <2> HIDE DEF s
    <2>3. st.tid = s.tid /\ st.ev = s.ev
        BY <2>1, <2>2 DEF HasFields, StateFields
    <2> QED
        BY <1>5, <2>3 DEF s
<1> QED
    BY <1>1, <1>3, <1>4, <1>6 DEF AttributionInv, Attribution, VerifiedOK, EvidenceOK

\* The lock and the attribution invariants hold in every reachable state.
THEOREM AttributionInductive == Spec => [](JournalInv /\ StatesInv /\ LockInv /\ AttributionInv)
<1>1. Init => JournalInv /\ StatesInv /\ LockInv /\ AttributionInv
    BY InitJournal, InitStates, InitAttribution
<1>2. JournalInv /\ StatesInv /\ LockInv /\ AttributionInv /\ [Next]_vars => (JournalInv /\ StatesInv /\ LockInv /\ AttributionInv)'
    BY JournalStep, StatesStep, LockNext, AttributionStep
<1> QED
    BY <1>1, <1>2, PTL DEF Spec

\* A record that counts for or against a tier was served in the group the transition switched
\* to (evidenceOccurrenceAt, validation_not_before), unless somebody else moved the key, an
\* outdated row was stored, or a refresh settled a row by an answer the key had outlived.
THEOREM EvidenceOfTheTier == Spec => []EvidenceAttribution
<1>1. StatesInv /\ AttributionInv => EvidenceAttribution
    <2> SUFFICES ASSUME StatesInv, AttributionInv, ~strayed, ~clobbered, st.ev.verified # Nil,
                        NEW i \in st.ev.wm + 1 .. st.ev.cursor, Attributable(log[i], st)
                 PROVE  log[i].group = journal[st.tid].to
        BY DEF EvidenceAttribution
    <2>1. st.ev.wm \in Nat /\ st.ev.cursor \in Nat /\ st.ev.cursor <= Len(log)
        BY DEF StatesInv, Good, Evidence
    <2>2. DOMAIN log = 1..Len(log) /\ Len(log) \in Nat
        BY Tables DEF StatesInv, LogOK
    <2>3. i \in DOMAIN log /\ i > st.ev.wm
        BY <2>1, <2>2
    <2> QED
        BY <2>3 DEF AttributionInv, Attribution, VerifiedOK, Clean
<1> QED
    BY <1>1, AttributionInductive, PTL
=============================================================================
