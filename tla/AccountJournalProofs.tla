------------------------ MODULE AccountJournalProofs ------------------------
(***************************************************************************)
(* Proofs about the journal of the account executor: the write budget, the  *)
(* overrides that follow their mutations, finished mutations that stay      *)
(* finished, and writes that respect the freeze mode; for any commands,     *)
(* accounts, limits and number of faults.                                   *)
(*                                                                         *)
(* Again the steps are first projected to a few patterns, this time of what *)
(* they do to the row, the override and the write count of the one key they *)
(* work on.  That nobody else works on that key follows from SerialInv of   *)
(* AccountControlProofs.                                                    *)
(***************************************************************************)
EXTENDS AccountControlProofs, WellFoundedInduction

\* Program counters of a call whose row exists.
Past == InSlot \ {"prepare"}
Fields == {"status", "attempts", "before", "intent", "win", "sig", "revoke", "stale"}
Applied == {"applied", "applied_noop"}
Settled == {"blocked", "failed", "superseded", "expired"}

RowOK(r) == \/ r = NoRow
            \/ /\ DOMAIN r = Fields
               /\ r.status \in Statuses
               /\ r.attempts \in Nat

RowsOK == /\ row = [k \in Keys |-> row[k]]
          /\ \A k \in Keys : RowOK(row[k])
          /\ override \in [Keys -> OverrideStatuses]
          /\ writes \in [Keys -> Nat]

-----------------------------------------------------------------------------
(* What a step does to the row of one key *)

\* The row of k gets this status and number of attempts, and keeps its intent
\* and its winner; no other row changes.
Edited(k, st, n) ==
    /\ row' = [j \in Keys |-> row'[j]]
    /\ \A j \in Keys \ {k} : row'[j] = row[j]
    /\ DOMAIN row'[k] = Fields
    /\ row'[k].status = st /\ row'[k].attempts = n
    /\ row'[k].intent = row[k].intent /\ row'[k].win = row[k].win

\* The final transaction.
Finals(k) ==
    \E st \in Terminal, ov \in {"active"} \cup Settled : \E rv :
        /\ ov = "active" => st \in Applied
        /\ Edited(k, st, row[k].attempts)
        /\ override' = [j \in Keys |->
                IF j = k THEN (IF override[k] = "none" THEN "none" ELSE ov)
                ELSE IF j = rv /\ override[j] = "active" THEN "revoked" ELSE override[j]]

\* The row stays pending.
Stays(k) == \E st \in Pending : Edited(k, st, row[k].attempts) /\ UNCHANGED override
Attempts(k) == Edited(k, "executing", row[k].attempts + 1) /\ UNCHANGED override

\* A status that names no row.
LEMMA StatusNames ==
    /\ "none" \notin Statuses
    /\ Pending \subseteq Statuses /\ Terminal \subseteq Statuses /\ Pending \cap Terminal = {}
BY DEF Statuses, Pending, Terminal

\* A row that exists has every field.
LEMMA RowFields ==
    ASSUME RowsOK, NEW k \in Keys, row[k] # NoRow
    PROVE  /\ DOMAIN row[k] = Fields /\ row[k].status \in Statuses /\ row[k].attempts \in Nat
BY DEF RowsOK, RowOK

\* UpdateAccountMutation edits one row.
LEMMA SaveEdits ==
    ASSUME RowsOK, NEW k \in Keys, row[k] # NoRow, NEW st, Save(k, st)
    PROVE  Edited(k, st, row[k].attempts)
<1>1. DOMAIN row[k] = Fields
    BY RowFields
<1>2. DOMAIN row = Keys
    BY DEF RowsOK
<1>3. row' = [row EXCEPT ![k] = [row[k] EXCEPT !.status = st]]
    BY DEF Save
<1> QED
    BY <1>1, <1>2, <1>3 DEF Edited, Fields

\* So does the journalling of an attempt,
LEMMA AttemptEdits ==
    ASSUME RowsOK, NEW k \in Keys, row[k] # NoRow, Attempt(k)
    PROVE  Edited(k, "executing", row[k].attempts + 1)
<1>1. DOMAIN row[k] = Fields
    BY RowFields
<1>2. DOMAIN row = Keys
    BY DEF RowsOK
<1> QED
    BY <1>1, <1>2 DEF Edited, Fields, Attempt

\* the recording of the state before the write,
LEMMA ReadEdits ==
    ASSUME RowsOK, NEW k \in Keys, row[k] # NoRow, NEW b, row' = [row EXCEPT ![k].before = b]
    PROVE  Edited(k, row[k].status, row[k].attempts)
<1>1. DOMAIN row[k] = Fields
    BY RowFields
<1>2. DOMAIN row = Keys
    BY DEF RowsOK
<1> QED
    BY <1>1, <1>2 DEF Edited, Fields

\* and recovery's journalling of a retry.
LEMMA RetryEdits ==
    ASSUME RowsOK, NEW k \in Keys, row[k] # NoRow, NEW b,
           row' = [row EXCEPT ![k].status = "executing", ![k].attempts = @ + 1, ![k].before = b]
    PROVE  Edited(k, "executing", row[k].attempts + 1)
<1>1. DOMAIN row[k] = Fields
    BY RowFields
<1>2. DOMAIN row = Keys
    BY DEF RowsOK
<1> QED
    BY <1>1, <1>2 DEF Edited, Fields

-----------------------------------------------------------------------------
(* The patterns of a call, with k its key *)

Steps(c, l) == pc' = [pc EXCEPT ![c] = l]

\* Before the row exists, or beside it.
JOutside(c) == /\ pc[c] \notin Past
               /\ \E l \in Labels \ Past : Steps(c, l)
               /\ UNCHANGED <<row, override, writes>>

\* PrepareAccountMutation.
JPrepares(c) ==
    /\ pc[c] = "prepare" /\ row[K(c)] = NoRow
    /\ \E l \in {"validate", "superseded", "expired"} : Steps(c, l)
    /\ row' = [j \in Keys |-> row'[j]]
    /\ \A j \in Keys \ {K(c)} : row'[j] = row[j]
    /\ LET r == row'[K(c)] IN
        /\ DOMAIN r = Fields
        /\ r.status = "prepared" /\ r.attempts = 0 /\ r.intent = sub[c].intent
    /\ \E ov \in {"none", "pending"} :
        override' = [Expire(ActiveOn(Target(c))) EXCEPT ![K(c)] = ov]
    /\ UNCHANGED writes

\* The call ends and the row is left as it is.
JLeaves(c) == /\ pc[c] \in Past /\ Steps(c, "done")
              /\ UNCHANGED <<row, override>>
              /\ \/ UNCHANGED writes
                 \/ pc[c] = "write" /\ CountWrite(K(c))

\* The row goes on, or the call ends and leaves it to recovery.
JWorks(c) == /\ \/ pc[c] = "validate" /\ Steps(c, "read")
                \/ pc[c] = "read" /\ Steps(c, "guard")
                \/ pc[c] = "written" /\ Steps(c, "confirm")
                \/ pc[c] \in Past /\ Steps(c, "done")
             /\ Stays(K(c))
             /\ UNCHANGED writes

\* An attempt is journalled: the first behind the guard, the second behind
\* the budget.
JAttempts(c) == /\ \/ /\ pc[c] = "guard" /\ Steps(c, "write")
                      /\ ~Forbidden(row[K(c)].win, mode)
                   \/ /\ pc[c] = "resolve" /\ Steps(c, "rewrite")
                      /\ row[K(c)].attempts < MaxAttempts
                /\ Attempts(K(c))
                /\ UNCHANGED writes

\* The write goes out.
JSends(c) == /\ \/ pc[c] = "write" /\ \E l \in {"written", "resolve"} : Steps(c, l)
                \/ pc[c] = "rewrite" /\ Steps(c, "confirm")
             /\ CountWrite(K(c))
             /\ UNCHANGED <<row, override>>

\* The mutation is finished.
JFinals(c) == /\ pc[c] \in Past /\ Steps(c, "done")
              /\ Finals(K(c))
              /\ \/ UNCHANGED writes
                 \/ pc[c] = "write" /\ CountWrite(K(c))

CallJournal(c) == JOutside(c) \/ JPrepares(c) \/ JLeaves(c) \/ JWorks(c) \/ JAttempts(c)
                    \/ JSends(c) \/ JFinals(c)

\* A call past its preparation works on a row that is there and pending.
Owner(c) == pc[c] \in Past => row[K(c)] # NoRow /\ row[K(c)].status \in Pending

\* finishWithoutWrite's transaction ends a mutation without an effect.
LEMMA FinishFinals ==
    ASSUME RowsOK, NEW k \in Keys, row[k] # NoRow, NEW st \in Settled,
           FinalizeAccountMutation(k, st, OverrideStatusFor(st), None)
    PROVE  Finals(k)
<1>1. Edited(k, st, row[k].attempts)
    BY SaveEdits DEF FinalizeAccountMutation
<1>2. st \in Terminal /\ OverrideStatusFor(st) \in Settled
    BY DEF Terminal, Settled, OverrideStatusFor
<1>3. /\ OverrideStatusFor(st) \in {"active"} \cup Settled /\ OverrideStatusFor(st) # "active"
    BY <1>2 DEF Settled
<1> QED
    BY <1>1, <1>2, <1>3 DEF FinalizeAccountMutation, Finals

\* finalize's transaction ends a mutation with one.
LEMMA FinalizeFinals ==
    ASSUME RowsOK, NEW k \in Keys, row[k] # NoRow, NEW st \in Applied,
           NEW rv,
           FinalizeAccountMutation(k, st, "active", rv)
    PROVE  Finals(k)
<1>1. Edited(k, st, row[k].attempts)
    BY SaveEdits DEF FinalizeAccountMutation
<1>2. st \in Terminal /\ "active" \in {"active"} \cup Settled
    BY DEF Terminal, Applied
<1>3. override' = [j \in Keys |->
            IF j = k THEN (IF override[k] = "none" THEN "none" ELSE "active")
            ELSE IF j = rv /\ override[j] = "active" THEN "revoked" ELSE override[j]]
    BY DEF FinalizeAccountMutation
<1> QED
    BY <1>1, <1>2, <1>3, Zenon DEF Finals

\* finishWithoutWrite, finalize and markUncertain end a call in one of two
\* patterns.
LEMMA EndingPatterns ==
    ASSUME RowsOK, NEW c \in Commands, pc[c] \in Past, Owner(c), UNCHANGED writes
    PROVE  /\ \A st \in Settled : finishWithoutWrite(c, st) => JFinals(c)
           /\ \A st \in Applied : finalize(c, st) => JFinals(c) \/ JWorks(c)
           /\ markUncertain(c) => JWorks(c)
<1>0. K(c) \in Keys /\ row[K(c)] # NoRow /\ row[K(c)].status \in Pending
    BY DEF Owner, Keys, K
<1> USE DEF Return, Goto
<1>1. ASSUME NEW st \in Settled, finishWithoutWrite(c, st) PROVE JFinals(c)
    BY <1>0, <1>1, FinishFinals DEF finishWithoutWrite, JFinals, Steps
<1>2. ASSUME NEW st \in Pending, Save(K(c), st), UNCHANGED override, Steps(c, "done") PROVE JWorks(c)
    BY <1>0, <1>2, SaveEdits DEF JWorks, Stays
<1>3. ASSUME NEW st \in Applied, finalize(c, st) PROVE JFinals(c) \/ JWorks(c)
    <2>1. ASSUME FinalizeAccountMutation(K(c), st, "active", row[K(c)].revoke), Return(c, st)
          PROVE  JFinals(c)
        BY <1>0, <2>1, FinalizeFinals DEF JFinals, Steps
    <2>2. ASSUME NEW s \in {row[K(c)].status, "verifying"}, Save(K(c), s), UNCHANGED override,
                 Return(c, "verifying")
          PROVE  JWorks(c)
        BY <1>0, <1>2, <2>2 DEF Steps, Pending
    <2> QED
        BY <1>3, <2>1, <2>2 DEF finalize
<1>4. ASSUME markUncertain(c) PROVE JWorks(c)
    BY <1>2, <1>4 DEF markUncertain, Steps, Pending
<1> QED
    BY <1>1, <1>3, <1>4

\* Every step of a call follows one of the patterns.
LEMMA CallJournalProjection ==
    ASSUME RowsOK, ControlOK, NEW c \in Commands, Owner(c), CallStep(c)
    PROVE  CallJournal(c)
<1>0. K(c) \in Keys /\ DOMAIN row = Keys
    BY DEF Keys, K, RowsOK
<1> USE DEF Goto, Steps
<1>1. CASE ReleaseAnswered(c) \/ Call(c) \/ Enqueue(c) \/ AcquireLock(c) \/ AcquireSlot(c)
    BY <1>1 DEF ReleaseAnswered, Call, Enqueue, AcquireLock, AcquireSlot, CallJournal, JOutside,
                Labels, Past, InSlot, journal, history
<1>2. CASE Cancel(c)
    BY <1>2 DEF Cancel, CallJournal, JOutside, Labels, Past, InSlot, journal, history
<1>3. CASE StoreFails(c)
    BY <1>3 DEF StoreFails, Return, CallJournal, JOutside, JLeaves, Labels, Past, InSlot, journal, history
<1>4. CASE Replay(c)
    BY <1>4 DEF Replay, Return, CallJournal, JOutside, Labels, Past, InSlot, journal, history
<1>5. CASE Prepare(c)
    <2>1. pc[c] = "prepare" /\ row[K(c)] = NoRow /\ UNCHANGED writes
        BY <1>5 DEF Prepare, history
    <2>2. \E l \in {"validate", "superseded", "expired"} : Steps(c, l)
        BY <1>5 DEF Prepare
    <2>3. \E ov \in {"none", "pending"} : override' = [Expire(ActiveOn(Target(c))) EXCEPT ![K(c)] = ov]
        BY <1>5 DEF Prepare
    <2>4. PICK w : row' = [row EXCEPT ![K(c)] =
                [status |-> "prepared", attempts |-> 0, before |-> NoState, intent |-> sub[c].intent,
                 win |-> w, sig |-> Signature(c, sub[c].intent), revoke |-> sub[c].revoke,
                 stale |-> Request[c].stale]]
        BY <1>5 DEF Prepare
    <2>5. /\ row' = [j \in Keys |-> row'[j]]
          /\ \A j \in Keys \ {K(c)} : row'[j] = row[j]
          /\ DOMAIN row'[K(c)] = Fields
          /\ row'[K(c)].status = "prepared" /\ row'[K(c)].attempts = 0
          /\ row'[K(c)].intent = sub[c].intent
        BY <1>0, <2>4 DEF Fields
    <2> QED
        BY <2>1, <2>2, <2>3, <2>5 DEF CallJournal, JPrepares
<1>6. CASE Lose(c)
    BY <1>6, EndingPatterns DEF Lose, CallJournal, Past, InSlot, Settled, history
<1>7. CASE ReadFails(c) \/ GuardRefuses(c)
    BY <1>7, EndingPatterns DEF ReadFails, GuardRefuses, CallJournal, Past, InSlot, Settled, history
<1>8. CASE AlreadyThere(c)
    BY <1>8, EndingPatterns DEF AlreadyThere, CallJournal, Past, InSlot, Applied, history
<1>9. CASE Validating(c)
    BY <1>0, <1>9, SaveEdits DEF Validating, CallJournal, JWorks, Stays, Owner, Past, InSlot, Pending, history
<1>10. CASE Read(c)
    <2>1. pc[c] = "read" /\ Steps(c, "guard") /\ UNCHANGED <<override, writes>>
        BY <1>10 DEF Read, history
    <2>2. Stays(K(c))
        BY <1>0, <1>10, <2>1, ReadEdits DEF Read, Stays, Owner, Past, InSlot
    <2> QED
        BY <2>1, <2>2 DEF CallJournal, JWorks
<1>11. CASE BeginWrite(c)
    <2>1. ~Forbidden(row[K(c)].win, mode)
        BY <1>11 DEF BeginWrite, Guarded, Blocked
    <2> QED
        BY <1>0, <1>11, <2>1, AttemptEdits
        DEF BeginWrite, CallJournal, JAttempts, Attempts, Owner, Past, InSlot, history
<1>12. CASE WriteSucceeds(c) \/ WriteUnanswered(c)
    BY <1>12 DEF WriteSucceeds, WriteUnanswered, CallJournal, JSends, journal
<1>13. CASE WriteRejected(c)
    <2>1. CASE pc[c] = "write" /\ finishWithoutWrite(c, "failed")
        BY <1>0, <1>13, <2>1, FinishFinals
        DEF WriteRejected, finishWithoutWrite, Return, CallJournal, JFinals, Owner, Past, InSlot, Settled
    <2>2. CASE pc[c] = "write" /\ Return(c, "error") /\ UNCHANGED <<journal, health>>
        BY <1>13, <2>2 DEF WriteRejected, Return, CallJournal, JLeaves, Past, InSlot, journal
    <2>3. CASE pc[c] = "rewrite" /\ Goto(c, "confirm") /\ UNCHANGED <<journal, health, cand, lock, outcome>>
        BY <1>13, <2>3 DEF WriteRejected, CallJournal, JSends, journal
    <2> QED
        BY <1>13, <2>1, <2>2, <2>3 DEF WriteRejected
<1>14. CASE Verify(c)
    <2>1. CASE Save(K(c), "verifying") /\ Goto(c, "confirm")
        BY <1>0, <1>14, <2>1, SaveEdits
        DEF Verify, CallJournal, JWorks, Stays, Owner, Past, InSlot, Pending, history
    <2>2. CASE Return(c, "verifying") /\ UNCHANGED row
        BY <1>14, <2>2 DEF Verify, Return, CallJournal, JLeaves, Past, InSlot, history
    <2> QED
        BY <1>14, <2>1, <2>2 DEF Verify
<1>15. CASE Confirm(c)
    BY <1>15, EndingPatterns DEF Confirm, CallJournal, Past, InSlot, Applied, history
<1>16. CASE resolveWriteError(c)
    <2>1. CASE MayRetry(c) /\ Attempt(K(c)) /\ Goto(c, "rewrite") /\ UNCHANGED override
        BY <1>0, <1>16, <2>1, AttemptEdits
        DEF resolveWriteError, MayRetry, CallJournal, JAttempts, Attempts, Owner, Past, InSlot, history
    <2>2. CASE finalize(c, "applied") \/ markUncertain(c)
        BY <1>16, <2>2, EndingPatterns
        DEF resolveWriteError, CallJournal, Past, InSlot, Applied, history
    <2> QED
        BY <1>16, <2>1, <2>2 DEF resolveWriteError
<1> QED
    BY <1>1, <1>2, <1>3, <1>4, <1>5, <1>6, <1>7, <1>8, <1>9, <1>10, <1>11, <1>12, <1>13, <1>14, <1>15,
       <1>16 DEF CallStep

-----------------------------------------------------------------------------
(* The patterns of recovery, and of everything around the service *)

RTakes(a) == /\ rpc[a] = "idle" /\ rpc' = [rpc EXCEPT ![a] = "slot"]
             /\ \E k \in todo[a] : /\ rkey' = [rkey EXCEPT ![a] = k]
                                   /\ todo' = [todo EXCEPT ![a] = @ \ {k}]
             /\ UNCHANGED <<row, override, writes>>
RSlot(a) == /\ rpc[a] = "slot" /\ rpc' = [rpc EXCEPT ![a] = "examine"]
            /\ UNCHANGED <<rkey, todo, row, override, writes>>

\* recoverOne returns, possibly from its write.
REnds(a) == /\ rpc[a] # "idle"
            /\ rpc' = [rpc EXCEPT ![a] = "idle"] /\ rkey' = [rkey EXCEPT ![a] = None]
            /\ UNCHANGED todo
            /\ \/ UNCHANGED writes
               \/ rpc[a] = "write" /\ CountWrite(rkey[a])
RLeaves(a) == REnds(a) /\ UNCHANGED <<row, override>>
RWorks(a) == REnds(a) /\ row[rkey[a]].status \in Pending /\ Stays(rkey[a])
RFinals(a) == REnds(a) /\ row[rkey[a]].status \in Pending /\ Finals(rkey[a])
RAttempts(a) == /\ rpc[a] = "examine" /\ rpc' = [rpc EXCEPT ![a] = "write"]
                /\ row[rkey[a]].status \in Pending
                /\ row[rkey[a]].attempts < MaxAttempts
                /\ ~Forbidden(row[rkey[a]].win, mode)
                /\ Attempts(rkey[a])
                /\ UNCHANGED <<rkey, todo, writes>>
RSends(a) == /\ rpc[a] = "write" /\ rpc' = [rpc EXCEPT ![a] = "written"]
             /\ CountWrite(rkey[a])
             /\ UNCHANGED <<rkey, todo, row, override>>

RecoveryJournal(a) == RTakes(a) \/ RSlot(a) \/ RLeaves(a) \/ RWorks(a) \/ RFinals(a) \/ RAttempts(a)
                        \/ RSends(a)

\* The row recovery works on is there, is about its account, and is pending
\* once recovery sends a write for it.
ROwner(a) ==
    rpc[a] # "idle" => /\ rkey[a] \in Keys /\ row[rkey[a]] # NoRow
                       /\ row[rkey[a]].intent.target[1] = a
                       /\ rpc[a] \in {"write", "written"} => row[rkey[a]].status \in Pending

\* How RecoveryFinish ends a pending row.
LEMMA RecoveryEnding ==
    ASSUME RowsOK, NEW a \in Accounts, rkey[a] \in Keys, row[rkey[a]] # NoRow,
           row[rkey[a]].status \in Pending, rpc[a] # "idle",
           UNCHANGED writes \/ (rpc[a] = "write" /\ CountWrite(rkey[a])), UNCHANGED todo,
           NEW st \in {"uncertain", "expired", "blocked", "applied"}, RecoveryFinish(a, st)
    PROVE  RWorks(a) \/ RFinals(a)
<1>0. REnds(a)
    BY DEF RecoveryFinish, RecoveryDone, REnds
<1>1. CASE st = "uncertain"
    <2>1. Save(rkey[a], st) /\ UNCHANGED override
        BY <1>1 DEF RecoveryFinish
    <2> QED
        BY <1>0, <1>1, <2>1, SaveEdits DEF RWorks, Stays, Pending
<1>2. CASE st \in {"expired", "blocked"}
    <2>1. FinalizeAccountMutation(rkey[a], st, OverrideStatusFor(st), None)
        BY <1>2 DEF RecoveryFinish
    <2> QED
        BY <1>0, <1>2, <2>1, FinishFinals DEF RFinals, Settled
<1>3. CASE st = "applied"
    <2> DEFINE rv == row[rkey[a]].revoke
    <2>1. PICK ov \in {"active", "expired"} : FinalizeAccountMutation(rkey[a], st, ov, rv)
        BY <1>3 DEF RecoveryFinish, OverrideStatusFor
    <2>2. Edited(rkey[a], st, row[rkey[a]].attempts)
        BY <2>1, SaveEdits DEF FinalizeAccountMutation
    <2>3. st \in Terminal /\ ov \in {"active"} \cup Settled /\ st \in Applied
        BY <1>3 DEF Terminal, Settled, Applied
    <2>4. override' = [j \in Keys |->
            IF j = rkey[a] THEN (IF override[rkey[a]] = "none" THEN "none" ELSE ov)
            ELSE IF j = rv /\ override[j] = "active" THEN "revoked" ELSE override[j]]
        BY <2>1 DEF FinalizeAccountMutation
    <2>5. Finals(rkey[a])
        BY <2>2, <2>3, <2>4, Zenon DEF Finals
    <2> QED
        BY <1>0, <2>5 DEF RFinals
<1> QED
    BY <1>1, <1>2, <1>3

\* Every step of recovery follows one of its patterns.
LEMMA RecoveryJournalProjection ==
    ASSUME RowsOK, ControlOK, NEW a \in Accounts, ROwner(a), RecoveryStep(a)
    PROVE  RecoveryJournal(a)
<1>1. CASE RecoveryLock(a) \/ RecoverySlot(a)
    BY <1>1 DEF RecoveryLock, RecoverySlot, RecoveryJournal, RTakes, RSlot, journal, history
<1>2. CASE RecoveryFails(a) \/ RecoverySkips(a)
    BY <1>2 DEF RecoveryFails, RecoverySkips, RecoveryDone, RecoveryJournal, RLeaves, REnds, RecInSlot,
                journal, history
<1>3. CASE RecoveryExamine(a)
    <2>0. /\ rpc[a] = "examine" /\ rkey[a] \in Keys /\ row[rkey[a]] # NoRow
          /\ row[rkey[a]].status \in Pending /\ row[rkey[a]].attempts \in Nat
          /\ UNCHANGED <<todo, writes>>
        BY <1>3, RowFields DEF RecoveryExamine, StillPending, ROwner, history
    <2>1. RecoveryVerdict(a) \in {"uncertain", "expired", "blocked", "applied", "retry"}
        BY DEF RecoveryVerdict
    <2>2. CASE RecoveryVerdict(a) # "retry" /\ RecoveryFinish(a, RecoveryVerdict(a))
        BY <2>0, <2>1, <2>2, RecoveryEnding DEF RecoveryJournal
    <2>3. CASE RecoveryFinish(a, "uncertain")
        BY <2>0, <2>3, RecoveryEnding DEF RecoveryJournal
    <2>4. CASE /\ RecoveryVerdict(a) = "retry"
               /\ row' = [row EXCEPT ![rkey[a]].status = "executing", ![rkey[a]].attempts = @ + 1,
                                     ![rkey[a]].before = upstream[a]]
               /\ rpc' = [rpc EXCEPT ![a] = "write"]
               /\ UNCHANGED <<override, lock, rkey, spent>>
        <3>1. /\ ~(row[rkey[a]].attempts >= MaxAttempts)
              /\ ~Blocked(row[rkey[a]].win, upstream[a], a \in health, row[rkey[a]].stale)
            BY <2>4 DEF RecoveryVerdict
        <3>2. row[rkey[a]].attempts < MaxAttempts /\ ~Forbidden(row[rkey[a]].win, mode)
            BY <2>0, <3>1 DEF Blocked, MaxAttempts
        <3>3. Attempts(rkey[a])
            BY <2>0, <2>4, RetryEdits DEF Attempts
        <3> QED
            BY <2>0, <2>4, <3>2, <3>3 DEF RecoveryJournal, RAttempts
    <2> QED
        BY <1>3, <2>2, <2>3, <2>4 DEF RecoveryExamine
<1>4. CASE RecoveryWrites(a)
    <2>0. /\ rpc[a] = "write" /\ rkey[a] \in Keys /\ row[rkey[a]] # NoRow
          /\ row[rkey[a]].status \in Pending /\ CountWrite(rkey[a]) /\ UNCHANGED todo
        BY <1>4 DEF RecoveryWrites, ROwner
    <2>1. CASE rpc' = [rpc EXCEPT ![a] = "written"] /\ UNCHANGED <<journal, rkey>>
        BY <2>0, <2>1 DEF RecoveryJournal, RSends, journal
    <2>2. CASE RecoveryFinish(a, "uncertain")
        BY <2>0, <2>2, RecoveryEnding DEF RecoveryJournal
    <2>3. CASE RecoveryDone(a) /\ UNCHANGED journal
        BY <2>0, <2>3 DEF RecoveryDone, RecoveryJournal, RLeaves, REnds, journal
    <2> QED
        BY <1>4, <2>1, <2>2, <2>3 DEF RecoveryWrites
<1>5. CASE RecoveryConfirms(a)
    <2>0. /\ rpc[a] = "written" /\ rkey[a] \in Keys /\ row[rkey[a]] # NoRow
          /\ row[rkey[a]].status \in Pending /\ UNCHANGED <<todo, writes>>
        BY <1>5 DEF RecoveryConfirms, ROwner, history
    <2>1. RecoveryFinish(a, "applied") \/ RecoveryFinish(a, "uncertain")
        BY <1>5 DEF RecoveryConfirms
    <2> QED
        BY <2>0, <2>1, RecoveryEnding DEF RecoveryJournal
<1> QED
    BY <1>1, <1>2, <1>3, <1>4, <1>5 DEF RecoveryStep

\* Only the expiry worker touches the journal from outside, and only active
\* overrides.
LEMMA EnvironmentJournal ==
    ASSUME Environment
    PROVE  /\ UNCHANGED <<row, writes, sub>>
           /\ \/ UNCHANGED override
              \/ override' = Expire({k \in Keys : override[k] = "active"})
BY DEF Environment, Crash, Tick, ExpireOverrides, PublishFreeze, FreezeLapses, LateWrite, OutsideChange,
       LocksChange, journal, history, calls

-----------------------------------------------------------------------------
(* The inductive invariant, by key, by call and by recovery worker *)

KeyOK(k) ==
    IF row[k] = NoRow THEN override[k] = "none" /\ writes[k] = 0
    ELSE /\ writes[k] <= row[k].attempts /\ row[k].attempts <= MaxAttempts
         /\ override[k] = "pending" => row[k].status \in Pending
         /\ row[k].status \in Pending => override[k] \in {"none", "pending"}
         /\ override[k] \in {"active", "revoked"} => row[k].status \in Applied

CallOK(c) ==
    pc[c] \in Past =>
        /\ row[K(c)] # NoRow /\ row[K(c)].status \in Pending
        /\ row[K(c)].intent.target = Target(c)
        /\ pc[c] \in {"validate", "read", "guard"} => row[K(c)].attempts = 0
        /\ pc[c] \in {"write", "rewrite"} => writes[K(c)] < row[K(c)].attempts
        /\ pc[c] \in {"write", "resolve", "rewrite"} => ~Forbidden(row[K(c)].win, mode)

WorkerOK(a) ==
    /\ ROwner(a)
    /\ rpc[a] = "write" => /\ writes[rkey[a]] < row[rkey[a]].attempts
                           /\ ~Forbidden(row[rkey[a]].win, mode)
    /\ \A k \in todo[a] : k \in Keys /\ row[k] # NoRow /\ row[k].intent.target[1] = a

Shapes == /\ rkey = [a \in Accounts |-> rkey[a]] /\ todo = [a \in Accounts |-> todo[a]]
          /\ sub = [c \in Commands |-> sub[c]]
          /\ \A c \in Commands : sub[c].intent.target = Target(c)

JournalInv ==
    /\ RowsOK /\ Shapes
    /\ \A k \in Keys : KeyOK(k)
    /\ \A c \in Commands : CallOK(c)
    /\ \A a \in Accounts : WorkerOK(a)

\* Nobody else works on the row a call or a recovery worker works on.
LEMMA OneWorker ==
    ASSUME SerialInv, JournalInv
    PROVE  /\ \A c, d \in Commands : c # d /\ pc[c] \in Past /\ pc[d] \in Past => K(c) # K(d)
           /\ \A c \in Commands, a \in Accounts : pc[c] \in Past /\ rpc[a] # "idle" => K(c) # rkey[a]
           /\ \A a, b \in Accounts : a # b /\ rpc[a] # "idle" /\ rpc[b] # "idle" => rkey[a] # rkey[b]
<1>1. \A c \in Commands : pc[c] \in Past => lock[Acct(c)] = c
    BY HolderNames DEF SerialInv, SerialPerAccount, Inside, Past
<1>2. \A c \in Commands : pc[c] \in Past => row[K(c)].intent.target[1] = Acct(c)
    BY DEF JournalInv, CallOK, Target, Acct
<1>3. \A a \in Accounts : rpc[a] # "idle" => row[rkey[a]].intent.target[1] = a /\ lock[a] = Recovery
    BY DEF JournalInv, WorkerOK, ROwner, SerialInv, SerialPerAccount
<1> QED
    BY <1>1, <1>2, <1>3, HolderNames

\* A step that leaves the rows others work on alone, removes no row and
\* changes no intent keeps what holds for the others.
Spares(k) == /\ \A j \in Keys \ {k} : row'[j] = row[j] /\ writes'[j] = writes[j]
             /\ row[k] # NoRow => row'[k] # NoRow /\ row'[k].intent = row[k].intent

\* What holds for a call that works on another row still holds.
LEMMA SparedCalls ==
    ASSUME NEW k \in Keys, Spares(k), NEW d \in Commands, CallOK(d), pc'[d] = pc[d], mode' = mode,
           pc[d] \in Past => K(d) # k
    PROVE  CallOK(d)'
<1>1. K(d) \in Keys
    BY DEF Keys, K
<1>2. pc[d] \in Past => row'[K(d)] = row[K(d)] /\ writes'[K(d)] = writes[K(d)]
    BY <1>1 DEF Spares
<1> QED
    BY <1>2 DEF CallOK, K, Target

\* What holds for a recovery worker on another row still holds.
LEMMA SparedWorkers ==
    ASSUME NEW k \in Keys, Spares(k), NEW a \in Accounts, WorkerOK(a), mode' = mode,
           rpc'[a] = rpc[a], rkey'[a] = rkey[a], todo'[a] = todo[a],
           rpc[a] # "idle" => rkey[a] # k
    PROVE  WorkerOK(a)'
<1>1. rpc[a] # "idle" => /\ rkey[a] \in Keys /\ row'[rkey[a]] = row[rkey[a]]
                         /\ writes'[rkey[a]] = writes[rkey[a]]
    BY DEF WorkerOK, ROwner, Spares
<1>2. \A j \in todo[a] : j \in Keys /\ row'[j] # NoRow /\ row'[j].intent.target[1] = a
    BY DEF WorkerOK, Spares
<1> QED
    BY <1>1, <1>2 DEF WorkerOK, ROwner

-----------------------------------------------------------------------------
(* Keys *)

\* Expiry keeps the journal in step: it only ends active overrides.
LEMMA ExpireKeys ==
    ASSUME RowsOK, \A k \in Keys : KeyOK(k), NEW S \in SUBSET {k \in Keys : override[k] = "active"},
           UNCHANGED <<row, writes>>, override' = Expire(S)
    PROVE  RowsOK' /\ \A k \in Keys : KeyOK(k)'
<1>1. \A k \in Keys : \/ override'[k] = override[k]
                      \/ override[k] = "active" /\ override'[k] = "expired"
    BY DEF Expire
<1>2. override' \in [Keys -> OverrideStatuses]
    BY <1>1 DEF Expire, RowsOK, OverrideStatuses
<1>3. RowsOK'
    BY <1>2 DEF RowsOK, RowOK
<1> QED
    BY <1>1, <1>3 DEF KeyOK, Pending, Applied

\* An edit of a pending row keeps budget and override in step with it.
LEMMA EditKeys ==
    ASSUME RowsOK, \A j \in Keys : KeyOK(j), NEW k \in Keys, row[k] # NoRow, row[k].status \in Pending,
           \/ Stays(k)
           \/ row[k].attempts < MaxAttempts /\ Attempts(k)
           \/ Finals(k)
           \/ UNCHANGED <<row, override>>,
           \/ UNCHANGED writes
           \/ ~Attempts(k) /\ CountWrite(k) /\ writes[k] < row[k].attempts
    PROVE  RowsOK' /\ (\A j \in Keys : KeyOK(j)') /\ Spares(k)
<1>0. /\ "none" \notin Statuses /\ Pending \subseteq Statuses /\ Terminal \subseteq Statuses
      /\ row[k].attempts \in Nat /\ DOMAIN row[k] = Fields
    BY StatusNames, RowFields
<1>1. /\ writes' \in [Keys -> Nat] /\ \A j \in Keys \ {k} : writes'[j] = writes[j]
      /\ writes'[k] = writes[k] \/ (~Attempts(k) /\ writes'[k] <= row[k].attempts)
    BY <1>0 DEF RowsOK, CountWrite
<1>2. ASSUME NEW st \in Statuses, NEW n \in Nat, Edited(k, st, n),
             override' \in [Keys -> OverrideStatuses]
      PROVE  RowsOK' /\ Spares(k) /\ row'[k] # NoRow
    <2>1. row'[k] # NoRow
        BY <1>0, <1>2 DEF Edited, NoRow
    <2>2. RowsOK'
        BY <1>1, <1>2 DEF RowsOK, RowOK, Edited
    <2> QED
        BY <1>1, <1>2, <2>1, <2>2 DEF Spares, Edited
<1>3. ASSUME Spares(k), UNCHANGED override PROVE \A j \in Keys \ {k} : KeyOK(j)'
    BY <1>3 DEF Spares, KeyOK
<1>4. CASE Stays(k)
    <2>1. PICK st \in Pending : Edited(k, st, row[k].attempts) /\ UNCHANGED override
        BY <1>4 DEF Stays
    <2>2. RowsOK' /\ Spares(k) /\ row'[k] # NoRow
        BY <1>0, <1>2, <2>1 DEF RowsOK
    <2>3. row'[k].status = st /\ row'[k].attempts = row[k].attempts
        BY <2>1 DEF Edited
    <2>4. KeyOK(k)'
        BY <1>1, <2>1, <2>2, <2>3 DEF KeyOK
    <2> QED
        BY <1>3, <2>1, <2>2, <2>4
<1>5. CASE row[k].attempts < MaxAttempts /\ Attempts(k)
    <2>1. Edited(k, "executing", row[k].attempts + 1) /\ UNCHANGED override
        BY <1>5 DEF Attempts
    <2>2. "executing" \in Pending
        BY DEF Pending
    <2>3. RowsOK' /\ Spares(k) /\ row'[k] # NoRow
        BY <1>0, <1>2, <2>1, <2>2 DEF RowsOK
    <2>4. row'[k].status = "executing" /\ row'[k].attempts = row[k].attempts + 1
        BY <2>1 DEF Edited
    <2>5. writes'[k] = writes[k] /\ writes[k] \in Nat
        BY <1>1, <1>5 DEF RowsOK
    <2>6. KeyOK(k)'
        BY <1>0, <1>5, <2>1, <2>2, <2>3, <2>4, <2>5 DEF KeyOK, MaxAttempts
    <2> QED
        BY <1>3, <2>1, <2>3, <2>6
<1>6. CASE Finals(k)
    <2>0. PICK st \in Terminal, ov \in {"active"} \cup Settled : \E rv :
            /\ ov = "active" => st \in Applied
            /\ Edited(k, st, row[k].attempts)
            /\ override' = [j \in Keys |->
                    IF j = k THEN (IF override[k] = "none" THEN "none" ELSE ov)
                    ELSE IF j = rv /\ override[j] = "active" THEN "revoked" ELSE override[j]]
        BY <1>6 DEF Finals
    <2>1. PICK rv :
            /\ ov = "active" => st \in Applied
            /\ Edited(k, st, row[k].attempts)
            /\ override' = [j \in Keys |->
                    IF j = k THEN (IF override[k] = "none" THEN "none" ELSE ov)
                    ELSE IF j = rv /\ override[j] = "active" THEN "revoked" ELSE override[j]]
        BY <2>0
    <2>2. override' \in [Keys -> OverrideStatuses]
        BY <2>1 DEF RowsOK, OverrideStatuses, Settled
    <2>3. RowsOK' /\ Spares(k) /\ row'[k] # NoRow
        BY <1>0, <1>2, <2>1, <2>2
    <2>4. row'[k].status = st /\ row'[k].attempts = row[k].attempts
        BY <2>1 DEF Edited
    <2>5. KeyOK(k)'
        BY <1>1, <2>1, <2>3, <2>4, StatusNames DEF KeyOK, Settled
    <2>6. \A j \in Keys \ {k} : KeyOK(j)'
        BY <2>1, <2>3 DEF Spares, KeyOK, Pending, Applied
    <2> QED
        BY <2>3, <2>5, <2>6
<1>7. CASE UNCHANGED <<row, override>>
    <2>1. Spares(k)
        BY <1>1, <1>7 DEF Spares
    <2>2. RowsOK'
        BY <1>1, <1>7 DEF RowsOK, RowOK
    <2>3. KeyOK(k)'
        BY <1>1, <1>7 DEF KeyOK
    <2> QED
        BY <1>3, <1>7, <2>1, <2>2, <2>3
<1> QED
    BY <1>4, <1>5, <1>6, <1>7

-----------------------------------------------------------------------------
(* Every step keeps the invariant *)

\* Submissions keep the target of their request.
LEMMA CallShapes ==
    ASSUME Shapes, NEW c \in Commands, CallStep(c)
    PROVE  Shapes'
<1>0. UNCHANGED <<todo, rkey>>
    BY CallProjection
<1>1. CASE Call(c)
    <2>1. \A created, val : Intent(c, created, val).target = Target(c)
        BY DEF Intent
    <2> DEFINE recorded == row[K(c)].intent
               adopted(val) == /\ Request[c].auth # "active_policy"
                               /\ row[K(c)] # NoRow
                               /\ recorded = Intent(c, recorded.created, val)
               asked(created, val) == IF adopted(val) THEN recorded ELSE Intent(c, created, val)
               revoked == IF Request[c].revokes = "no" THEN None ELSE NewestHold(Target(c))
    <2>2. PICK created \in CreatedAt(c), val \in DesiredBy(c) :
            sub' = [sub EXCEPT ![c] = [intent |-> asked(created, val), revoke |-> revoked]]
        BY <1>1 DEF Call
    <2>3. asked(created, val).target = Target(c)
        BY <2>1
    <2> HIDE DEF asked, revoked
    <2>5. DOMAIN sub = Commands
        BY DEF Shapes
    <2>6. /\ sub' = [d \in Commands |-> sub'[d]]
          /\ \A d \in Commands \ {c} : sub'[d] = sub[d]
          /\ sub'[c] = [intent |-> asked(created, val), revoke |-> revoked]
        BY <2>2, <2>5
    <2>7. sub'[c].intent.target = Target(c)
        BY <2>3, <2>6
    <2> QED
        BY <1>0, <2>6, <2>7 DEF Shapes, Target
<1>2. CASE ~Call(c)
    <2>1. UNCHANGED sub
        BY <1>2 DEF CallStep, ReleaseAnswered, Enqueue, AcquireLock, AcquireSlot, Cancel, StoreFails,
            Replay, Prepare, Lose, Validating, Read, ReadFails, GuardRefuses, AlreadyThere, BeginWrite,
            WriteSucceeds, WriteRejected, WriteUnanswered, Verify, Confirm, resolveWriteError, calls
    <2> QED
        BY <1>0, <2>1 DEF Shapes, Target
<1> QED
    BY <1>1, <1>2

\* A call keeps the invariant: one case per pattern.
LEMMA CallKeepsJournal ==
    ASSUME SerialInv, JournalInv, NEW c \in Commands, CallStep(c)
    PROVE  JournalInv'
<1> DEFINE k == K(c)
<1>0. /\ RowsOK /\ ControlOK /\ CallOK(c) /\ k \in Keys /\ \A j \in Keys : KeyOK(j)
      /\ "done" \notin Past /\ pc \in [Commands -> Labels]
    BY DEF JournalInv, SerialInv, ControlOK, Keys, K, Past, InSlot
<1>1. CallJournal(c) /\ UNCHANGED <<todo, rpc, rkey, mode>>
    BY <1>0, CallJournalProjection, CallProjection DEF CallOK, Owner
<1>2. Shapes'
    BY CallShapes DEF JournalInv
<1>3. ASSUME RowsOK', \A j \in Keys : KeyOK(j)', Spares(k), CallOK(c)',
             \E l : Steps(c, l),
             \A d \in Commands \ {c} : pc[d] \in Past => K(d) # k,
             \A a \in Accounts : rpc[a] # "idle" => rkey[a] # k
      PROVE  JournalInv'
    <2>1. ASSUME NEW d \in Commands \ {c} PROVE CallOK(d)'
        <3>1. pc'[d] = pc[d]
            BY <1>0, <1>3 DEF Steps
        <3> QED
            BY <1>0, <1>1, <1>3, <3>1, SparedCalls DEF JournalInv
    <2>2. ASSUME NEW a \in Accounts PROVE WorkerOK(a)'
        BY <1>0, <1>1, <1>3, SparedWorkers DEF JournalInv
    <2> QED
        BY <1>2, <1>3, <2>1, <2>2 DEF JournalInv
<1>4. CASE JOutside(c)
    <2>1. PICK l \in Labels \ Past : Steps(c, l)
        BY <1>4 DEF JOutside
    <2>2. UNCHANGED <<row, override, writes>>
        BY <1>4 DEF JOutside
    <2>3. pc'[c] \notin Past /\ \A d \in Commands \ {c} : pc'[d] = pc[d]
        BY <1>0, <2>1 DEF Steps
    <2>4. \A d \in Commands : CallOK(d)'
        BY <1>1, <2>2, <2>3 DEF JournalInv, CallOK, K, Target
    <2>5. RowsOK' /\ \A j \in Keys : KeyOK(j)'
        BY <1>0, <2>2 DEF RowsOK, RowOK, KeyOK
    <2>6. \A a \in Accounts : WorkerOK(a)'
        BY <1>1, <2>2 DEF JournalInv, WorkerOK, ROwner
    <2> QED
        BY <1>2, <2>4, <2>5, <2>6 DEF JournalInv
<1>5. CASE JPrepares(c)
    <2>1. /\ row[k] = NoRow /\ UNCHANGED writes
          /\ row' = [j \in Keys |-> row'[j]]
          /\ \A j \in Keys \ {k} : row'[j] = row[j]
          /\ DOMAIN row'[k] = Fields /\ row'[k].status = "prepared" /\ row'[k].attempts = 0
          /\ row'[k].intent = sub[c].intent
        BY <1>5 DEF JPrepares
    <2>2. PICK l \in {"validate", "superseded", "expired"} : Steps(c, l)
        BY <1>5 DEF JPrepares
    <2>3. PICK ov \in {"none", "pending"} : override' = [Expire(ActiveOn(Target(c))) EXCEPT ![k] = ov]
        BY <1>5 DEF JPrepares
    <2>4. Spares(k)
        BY <2>1 DEF Spares
    <2>5. "prepared" \in Statuses /\ "prepared" \in Pending /\ row'[k] # NoRow
        BY <2>1 DEF Statuses, Pending, NoRow
    <2>6. /\ override'[k] = ov
          /\ \A j \in Keys \ {k} : \/ override'[j] = override[j]
                                   \/ override[j] = "active" /\ override'[j] = "expired"
          /\ override' = [j \in Keys |-> override'[j]]
        BY <1>0, <2>3 DEF Expire, ActiveOn
    <2>7. override' \in [Keys -> OverrideStatuses]
        BY <1>0, <2>6 DEF RowsOK, OverrideStatuses
    <2>8. RowsOK'
        BY <1>0, <2>1, <2>5, <2>7 DEF RowsOK, RowOK
    <2>9. KeyOK(k)'
        BY <1>0, <2>1, <2>5, <2>6 DEF KeyOK, MaxAttempts
    <2>10. \A j \in Keys \ {k} : KeyOK(j)'
        BY <1>0, <2>1, <2>6 DEF KeyOK, Pending, Applied
    <2>11. pc'[c] = l
        BY <1>0, <2>2 DEF Steps
    <2>12. CallOK(c)'
        BY <2>1, <2>5, <2>11 DEF CallOK, K, Target, JournalInv, Shapes
    <2>13. /\ \A d \in Commands \ {c} : pc[d] \in Past => K(d) # k
           /\ \A a \in Accounts : rpc[a] # "idle" => rkey[a] # k
        BY <2>1 DEF JournalInv, CallOK, WorkerOK, ROwner
    <2> QED
        BY <1>3, <2>2, <2>4, <2>8, <2>9, <2>10, <2>12, <2>13
<1>6. CASE ~JOutside(c) /\ ~JPrepares(c)
    <2>0. JLeaves(c) \/ JWorks(c) \/ JAttempts(c) \/ JSends(c) \/ JFinals(c)
        BY <1>1, <1>6 DEF CallJournal
    <2>1. pc[c] \in Past
        BY <2>0 DEF JLeaves, JWorks, JAttempts, JSends, JFinals, Past, InSlot
    <2>2. PICK l : Steps(c, l) /\ pc'[c] = l
        BY <1>0, <2>0 DEF JLeaves, JWorks, JAttempts, JSends, JFinals, Steps
    <2>3. /\ \A d \in Commands \ {c} : pc[d] \in Past => K(d) # k
          /\ \A a \in Accounts : rpc[a] # "idle" => rkey[a] # k
        BY <2>1, OneWorker
    <2>4. /\ row[k] # NoRow /\ row[k].status \in Pending /\ row[k].attempts \in Nat
          /\ row[k].intent.target = Target(c) /\ writes[k] \in Nat
        BY <1>0, <2>1, RowFields DEF CallOK, RowsOK
    <2>5. \/ Stays(k)
          \/ row[k].attempts < MaxAttempts /\ Attempts(k)
          \/ Finals(k)
          \/ UNCHANGED <<row, override>>
        <3>1. CASE JAttempts(c)
            BY <1>0, <3>1 DEF JAttempts, CallOK, Past, InSlot, MaxAttempts
        <3> QED
            BY <2>0, <3>1 DEF JLeaves, JWorks, JSends, JFinals
    <2>6. \/ UNCHANGED writes
          \/ ~Attempts(k) /\ CountWrite(k) /\ writes[k] < row[k].attempts
        <3>1. CASE UNCHANGED writes
            BY <3>1
        <3>2. CASE ~UNCHANGED writes
            <4>1. /\ CountWrite(k) /\ pc[c] \in {"write", "rewrite"}
                  /\ UNCHANGED row \/ Finals(k)
                BY <2>0, <3>2 DEF JLeaves, JWorks, JAttempts, JSends, JFinals
            <4>2. ~Attempts(k)
                BY <2>4, <4>1, StatusNames DEF Attempts, Finals, Edited
            <4> QED
                BY <1>0, <2>1, <4>1, <4>2 DEF CallOK
        <3> QED
            BY <3>1, <3>2
    <2>7. RowsOK' /\ (\A j \in Keys : KeyOK(j)') /\ Spares(k)
        BY <1>0, <2>4, <2>5, <2>6, EditKeys
    <2>8. CallOK(c)'
        <3>1. CASE pc'[c] = "done"
            BY <1>0, <3>1 DEF CallOK
        <3>2. CASE JWorks(c) /\ pc'[c] # "done"
            <4>1. /\ \/ pc[c] = "validate" /\ pc'[c] = "read"
                     \/ pc[c] = "read" /\ pc'[c] = "guard"
                     \/ pc[c] = "written" /\ pc'[c] = "confirm"
                  /\ Stays(k)
                BY <1>0, <3>2 DEF JWorks, Steps
            <4>2. /\ row'[k] # NoRow /\ row'[k].status \in Pending /\ row'[k].attempts = row[k].attempts
                  /\ row'[k].intent = row[k].intent
                BY <2>4, <2>7, <4>1 DEF Stays, Edited, Spares
            <4> QED
                BY <1>0, <2>1, <2>4, <4>1, <4>2 DEF CallOK, K, Target
        <3>3. CASE JAttempts(c)
            <4>1. /\ \/ pc[c] = "guard" /\ pc'[c] = "write" /\ ~Forbidden(row[k].win, mode)
                     \/ pc[c] = "resolve" /\ pc'[c] = "rewrite"
                  /\ Attempts(k) /\ UNCHANGED writes
                BY <1>0, <3>3 DEF JAttempts, Steps
            <4>2. ~Forbidden(row[k].win, mode)
                BY <1>0, <2>1, <4>1 DEF CallOK
            <4>3. /\ row'[k] # NoRow /\ row'[k].status = "executing"
                  /\ row'[k].attempts = row[k].attempts + 1
                  /\ row'[k].intent = row[k].intent /\ row'[k].win = row[k].win
                BY <2>4, <2>7, <4>1 DEF Attempts, Edited, Spares
            <4>4. writes'[k] < row'[k].attempts
                BY <1>0, <2>4, <4>1, <4>3 DEF KeyOK
            <4> QED
                BY <1>1, <2>4, <4>1, <4>2, <4>3, <4>4 DEF CallOK, K, Target, Pending
        <3>4. CASE JSends(c)
            <4>1. /\ \/ pc[c] = "write" /\ pc'[c] \in {"written", "resolve"}
                     \/ pc[c] = "rewrite" /\ pc'[c] = "confirm"
                  /\ UNCHANGED row
                BY <1>0, <3>4 DEF JSends, Steps
            <4> QED
                BY <1>0, <1>1, <2>1, <4>1 DEF CallOK, K, Target
        <3>5. CASE JLeaves(c) \/ JFinals(c)
            BY <1>0, <3>1, <3>5 DEF JLeaves, JFinals, Steps
        <3> QED
            BY <2>0, <3>1, <3>2, <3>3, <3>4, <3>5
    <2> QED
        BY <1>3, <2>2, <2>3, <2>7, <2>8
<1> QED
    BY <1>4, <1>5, <1>6

\* So does recovery.
LEMMA RecoveryKeepsJournal ==
    ASSUME SerialInv, JournalInv, NEW a \in Accounts, RecoveryStep(a)
    PROVE  JournalInv'
<1> DEFINE k == rkey[a]
<1>0. /\ RowsOK /\ ControlOK /\ WorkerOK(a) /\ \A j \in Keys : KeyOK(j)
      /\ rpc \in [Accounts -> {"idle", "slot"} \cup RecInSlot]
      /\ DOMAIN rkey = Accounts /\ DOMAIN todo = Accounts
    BY DEF JournalInv, SerialInv, ControlOK, Shapes
<1>1. RecoveryJournal(a) /\ UNCHANGED <<pc, mode>>
    BY <1>0, RecoveryJournalProjection, RecoveryProjection DEF WorkerOK
<1>2. Shapes'
    <2>1. UNCHANGED sub
        BY DEF RecoveryStep, RecoveryLock, RecoverySlot, RecoveryFails, RecoverySkips, RecoveryExamine,
               RecoveryWrites, RecoveryConfirms, calls
    <2>2. rkey' = [b \in Accounts |-> rkey'[b]] /\ todo' = [b \in Accounts |-> todo'[b]]
        BY <1>0, <1>1 DEF RecoveryJournal, RTakes, RSlot, RLeaves, RWorks, RFinals, RAttempts, RSends,
                          REnds, JournalInv, Shapes
    <2> QED
        BY <2>1, <2>2 DEF JournalInv, Shapes, Target
<1>3. \A b \in Accounts \ {a} : rpc'[b] = rpc[b] /\ rkey'[b] = rkey[b] /\ todo'[b] = todo[b]
    BY <1>0, <1>1 DEF RecoveryJournal, RTakes, RSlot, RLeaves, RWorks, RFinals, RAttempts, RSends, REnds
<1>4. CASE RTakes(a) \/ RSlot(a)
    <2>1. UNCHANGED <<row, override, writes>>
        BY <1>4 DEF RTakes, RSlot
    <2>2. RowsOK' /\ \A j \in Keys : KeyOK(j)'
        BY <1>0, <2>1 DEF RowsOK, RowOK, KeyOK
    <2>3. \A d \in Commands : CallOK(d)'
        BY <1>1, <2>1 DEF JournalInv, CallOK, K, Target
    <2>4. \A b \in Accounts \ {a} : WorkerOK(b)'
        BY <1>1, <1>3, <2>1 DEF JournalInv, WorkerOK, ROwner
    <2>5. WorkerOK(a)'
        <3>1. CASE RTakes(a)
            <4>1. PICK j \in todo[a] : rkey'[a] = j /\ todo'[a] = todo[a] \ {j} /\ rpc'[a] = "slot"
                BY <1>0, <3>1 DEF RTakes
            <4> QED
                BY <1>0, <2>1, <4>1 DEF WorkerOK, ROwner
        <3>2. CASE RSlot(a)
            BY <1>0, <2>1, <3>2 DEF RSlot, WorkerOK, ROwner
        <3> QED
            BY <1>4, <3>1, <3>2
    <2> QED
        BY <1>2, <2>2, <2>3, <2>4, <2>5 DEF JournalInv
<1>5. CASE ~RTakes(a) /\ ~RSlot(a)
    <2>0. RLeaves(a) \/ RWorks(a) \/ RFinals(a) \/ RAttempts(a) \/ RSends(a)
        BY <1>1, <1>5 DEF RecoveryJournal
    <2>1. rpc[a] # "idle" /\ UNCHANGED todo
        BY <2>0 DEF RLeaves, RWorks, RFinals, RAttempts, RSends, REnds
    <2>2. k \in Keys /\ row[k] # NoRow /\ row[k].intent.target[1] = a /\ row[k].attempts \in Nat
          /\ writes[k] \in Nat
        BY <1>0, <2>1, RowFields DEF WorkerOK, ROwner, RowsOK
    <2>3. CASE RLeaves(a) /\ UNCHANGED writes
        <3>1. UNCHANGED <<row, override, writes>> /\ rpc'[a] = "idle"
            BY <1>0, <2>3 DEF RLeaves, REnds
        <3>2. RowsOK' /\ \A j \in Keys : KeyOK(j)'
            BY <1>0, <3>1 DEF RowsOK, RowOK, KeyOK
        <3>3. \A d \in Commands : CallOK(d)'
            BY <1>1, <3>1 DEF JournalInv, CallOK, K, Target
        <3>4. \A b \in Accounts : WorkerOK(b)'
            BY <1>1, <1>3, <2>1, <3>1 DEF JournalInv, WorkerOK, ROwner
        <3> QED
            BY <1>2, <3>2, <3>3, <3>4 DEF JournalInv
    <2>4. CASE ~(RLeaves(a) /\ UNCHANGED writes)
        <3>0. row[k].status \in Pending
            BY <1>0, <2>0, <2>1, <2>4 DEF RLeaves, RWorks, RFinals, RAttempts, RSends, REnds, WorkerOK, ROwner
        <3>1. \/ Stays(k)
              \/ row[k].attempts < MaxAttempts /\ Attempts(k)
              \/ Finals(k)
              \/ UNCHANGED <<row, override>>
            BY <2>0 DEF RLeaves, RWorks, RFinals, RAttempts, RSends
        <3>2. \/ UNCHANGED writes
              \/ ~Attempts(k) /\ CountWrite(k) /\ writes[k] < row[k].attempts
            <4>1. CASE ~UNCHANGED writes
                <5>1. /\ CountWrite(k) /\ rpc[a] = "write"
                      /\ UNCHANGED row \/ Finals(k) \/ Stays(k)
                    BY <2>0, <4>1 DEF RLeaves, RWorks, RFinals, RAttempts, RSends, REnds
                <5>2. ~Attempts(k)
                    BY <2>2, <3>0, <5>1, StatusNames DEF Attempts, Finals, Stays, Edited
                <5> QED
                    BY <1>0, <5>1, <5>2 DEF WorkerOK
            <4> QED
                BY <4>1
        <3>3. RowsOK' /\ (\A j \in Keys : KeyOK(j)') /\ Spares(k)
            BY <1>0, <2>2, <3>0, <3>1, <3>2, EditKeys
        <3>4. \A d \in Commands : CallOK(d)'
            BY <1>1, <2>1, <2>2, <3>3, OneWorker, SparedCalls DEF JournalInv
        <3>5. ASSUME NEW b \in Accounts \ {a} PROVE WorkerOK(b)'
            BY <1>1, <1>3, <2>1, <2>2, <3>3, OneWorker, SparedWorkers DEF JournalInv
        <3>6. \A j \in todo'[a] : j \in Keys /\ row'[j] # NoRow /\ row'[j].intent.target[1] = a
            BY <1>0, <2>1, <2>2, <3>3 DEF WorkerOK, Spares
        <3>7. WorkerOK(a)'
            <4>1. CASE REnds(a)
                BY <1>0, <3>6, <4>1 DEF REnds, WorkerOK, ROwner
            <4>2. CASE RAttempts(a)
                <5>1. /\ rpc'[a] = "write" /\ rkey'[a] = k /\ UNCHANGED writes
                      /\ Attempts(k) /\ ~Forbidden(row[k].win, mode)
                    BY <1>0, <4>2 DEF RAttempts
                <5>2. /\ row'[k] # NoRow /\ row'[k].status = "executing"
                      /\ row'[k].attempts = row[k].attempts + 1
                      /\ row'[k].intent = row[k].intent /\ row'[k].win = row[k].win
                    BY <2>2, <3>3, <5>1 DEF Attempts, Edited, Spares
                <5>3. writes'[k] < row'[k].attempts
                    BY <1>0, <2>2, <5>1, <5>2 DEF KeyOK
                <5> QED
                    BY <1>1, <2>2, <3>6, <5>1, <5>2, <5>3 DEF WorkerOK, ROwner, Pending
            <4>3. CASE RSends(a)
                BY <1>0, <2>2, <3>0, <3>6, <4>3 DEF RSends, WorkerOK, ROwner
            <4> QED
                BY <2>0, <4>1, <4>2, <4>3 DEF RLeaves, RWorks, RFinals
        <3> QED
            BY <1>2, <3>3, <3>4, <3>5, <3>7 DEF JournalInv
    <2> QED
        BY <2>3, <2>4
<1> QED
    BY <1>4, <1>5

\* No mode but a freeze forbids anything.
LEMMA ActiveForbidsNothing == \A i : ~Forbidden(i, "active")
BY DEF Forbidden

\* The invariant is inductive relative to the serial accounts.
LEMMA NextJournal == SerialInv /\ JournalInv /\ [Next]_vars => JournalInv'
<1> SUFFICES ASSUME SerialInv, JournalInv, [Next]_vars PROVE JournalInv'
    OBVIOUS
<1>0. RowsOK /\ Shapes /\ ControlOK /\ \A k \in Keys : KeyOK(k)
    BY DEF JournalInv, SerialInv
<1>1. ASSUME NEW c \in Commands, CallStep(c) PROVE JournalInv'
    BY <1>1, CallKeepsJournal
<1>2. ASSUME NEW a \in Accounts, RecoveryStep(a) PROVE JournalInv'
    BY <1>2, RecoveryKeepsJournal
<1>3. CASE RecoveryStart
    <2>1. UNCHANGED <<row, override, writes, pc, rpc, rkey, mode, sub>>
        BY <1>3 DEF RecoveryStart, journal, history, world, calls
    <2>2. \A a \in Accounts : \A k \in todo'[a] :
            k \in Keys /\ row[k] # NoRow /\ row[k].intent.target[1] = a
        BY <1>3 DEF RecoveryStart, NoRow, Pending
    <2>3. RowsOK' /\ (\A k \in Keys : KeyOK(k)') /\ Shapes'
        BY <1>0, <1>3, <2>1 DEF RecoveryStart, RowsOK, RowOK, KeyOK, Shapes, Target
    <2>4. \A c \in Commands : CallOK(c)'
        BY <2>1 DEF JournalInv, CallOK, K, Target
    <2>5. \A a \in Accounts : WorkerOK(a)'
        BY <2>1, <2>2 DEF JournalInv, WorkerOK, ROwner
    <2> QED
        BY <2>3, <2>4, <2>5 DEF JournalInv
<1>4. CASE Environment
    <2>1. UNCHANGED <<row, writes, sub>>
        BY <1>4, EnvironmentJournal
    <2>2. RowsOK' /\ \A k \in Keys : KeyOK(k)'
        <3>1. CASE UNCHANGED override
            BY <1>0, <2>1, <3>1 DEF RowsOK, RowOK, KeyOK
        <3>2. CASE override' = Expire({k \in Keys : override[k] = "active"})
            BY <1>0, <2>1, <3>2, ExpireKeys
        <3> QED
            BY <1>4, <3>1, <3>2, EnvironmentJournal
    <2>3. CASE Dies
        <3>1. \A c \in Commands : pc'[c] \notin Past
            BY <2>3 DEF Dies, Past, InSlot
        <3>2. \A a \in Accounts : rpc'[a] = "idle" /\ todo'[a] = {}
            BY <2>3 DEF Dies
        <3>3. Shapes'
            <4>1. rkey' = [a \in Accounts |-> rkey'[a]]
                BY <1>0, <1>4 DEF Environment, Crash, Tick, ExpireOverrides, PublishFreeze, FreezeLapses,
                    LateWrite, OutsideChange, LocksChange, recovery, Shapes
            <4> QED
                BY <1>0, <2>1, <2>3, <4>1 DEF Dies, Shapes, Target
        <3> QED
            BY <2>2, <3>1, <3>2, <3>3 DEF JournalInv, CallOK, WorkerOK, ROwner
    <2>4. CASE Survives
        <3>1. Shapes'
            BY <1>0, <2>1, <2>4 DEF Survives, Shapes, Target
        <3>2. CASE mode' = mode \/ mode' = "active"
            <4>1. \A c \in Commands : CallOK(c)'
                BY <2>1, <2>4, <3>2, ActiveForbidsNothing DEF Survives, JournalInv, CallOK, K, Target
            <4>2. \A a \in Accounts : WorkerOK(a)'
                BY <2>1, <2>4, <3>2, ActiveForbidsNothing DEF Survives, JournalInv, WorkerOK, ROwner
            <4> QED
                BY <2>2, <3>1, <4>1, <4>2 DEF JournalInv
        <3>3. CASE leases = {}
            <4>1. /\ \A c \in Commands : pc'[c] \notin Past
                  /\ \A a \in Accounts : rpc'[a] = "idle" /\ todo'[a] = {}
                BY <2>4, <3>3 DEF Survives, leases, Leased, Past, Recovering
            <4> QED
                BY <2>2, <3>1, <4>1 DEF JournalInv, CallOK, WorkerOK, ROwner
        <3> QED
            BY <1>4, <2>4, <3>2, <3>3, EnvironmentProjection DEF Dies
    <2> QED
        BY <1>4, <2>3, <2>4, EnvironmentProjection
<1>5. CASE UNCHANGED vars
    <2>1. UNCHANGED <<row, override, writes, pc, rpc, rkey, todo, mode, sub>>
        BY <1>5 DEF vars
    <2>2. RowsOK' /\ (\A k \in Keys : KeyOK(k)') /\ Shapes'
        BY <1>0, <2>1 DEF RowsOK, RowOK, KeyOK, Shapes, Target
    <2>3. \A c \in Commands : CallOK(c)'
        BY <2>1 DEF JournalInv, CallOK, K, Target
    <2>4. \A a \in Accounts : WorkerOK(a)'
        BY <2>1 DEF JournalInv, WorkerOK, ROwner
    <2> QED
        BY <2>2, <2>3, <2>4 DEF JournalInv
<1> QED
    BY <1>1, <1>2, <1>3, <1>4, <1>5 DEF Next

\* The journal starts empty.
LEMMA InitJournal == Init => JournalInv
<1> SUFFICES ASSUME Init PROVE JournalInv
    OBVIOUS
<1>1. RowsOK /\ \A k \in Keys : KeyOK(k)
    BY DEF Init, RowsOK, RowOK, KeyOK, OverrideStatuses
<1>2. Shapes
    BY DEF Init, Shapes, Intent
<1>3. \A c \in Commands : CallOK(c)
    BY DEF Init, CallOK, Past, InSlot
<1>4. \A a \in Accounts : WorkerOK(a)
    BY DEF Init, WorkerOK, ROwner
<1> QED
    BY <1>1, <1>2, <1>3, <1>4 DEF JournalInv

-----------------------------------------------------------------------------
(* Theorems *)

\* The invariant the journal rests on.
THEOREM JournalInductive == Spec => [](SerialInv /\ JournalInv)
BY InitSerial, NextSerial, InitJournal, NextJournal, PTL DEF Spec

\* For any commands, accounts and faults: between the safety guard and the
\* write, and at the second attempt that no guard precedes, the published
\* freeze mode allows what is sent.
THEOREM WritesRespectFreeze == Spec => []FreezeRespected
<1>1. JournalInv => FreezeRespected
    BY DEF JournalInv, CallOK, WorkerOK, FreezeRespected, Past, InSlot
<1> QED
    BY <1>1, JournalInductive, PTL

\* For any commands, accounts and faults: no row sends more writes than it
\* journalled beforehand, and none more than two.
THEOREM WritesWithinBudget == Spec => []WriteBudget
<1>1. JournalInv => WriteBudget
    BY DEF JournalInv, KeyOK, WriteBudget
<1> QED
    BY <1>1, JournalInductive, PTL

\* For any commands, accounts and faults: the override and its mutation
\* change together.
THEOREM OverridesFollow == Spec => []OverrideFollowsJournal
<1>1. JournalInv => OverrideFollowsJournal
    <2> SUFFICES ASSUME JournalInv, NEW k \in Keys
                 PROVE  /\ override[k] = "pending" => row[k].status \in Pending
                        /\ row[k].status \in Pending => override[k] \in {"none", "pending"}
                        /\ override[k] \in {"active", "revoked"} => row[k].status \in Applied
        BY DEF OverrideFollowsJournal, Applied
    <2>1. CASE row[k] = NoRow
        BY <2>1 DEF JournalInv, KeyOK
    <2>2. CASE row[k] # NoRow
        BY <2>2 DEF JournalInv, KeyOK
    <2> QED
        BY <2>1, <2>2
<1> QED
    BY <1>1, JournalInductive, PTL

\* What a step may do to a finished mutation and a finished override: nothing.
Ended == {"blocked", "failed", "superseded", "expired", "revoked"}
KeepsFinal ==
    \A k \in Keys :
        /\ row[k].status \in Terminal => row'[k].status = row[k].status
        /\ override[k] \in Ended => override'[k] = override[k]

\* An edit of a pending row touches nothing finished.
LEMMA EditKeepsFinal ==
    ASSUME RowsOK, \A j \in Keys : KeyOK(j), NEW k \in Keys, row[k] # NoRow, row[k].status \in Pending,
           Stays(k) \/ Attempts(k) \/ Finals(k) \/ UNCHANGED <<row, override>>
    PROVE  KeepsFinal
<1>1. row[k].status \notin Terminal /\ override[k] \notin Ended
    BY StatusNames DEF KeyOK, Ended
<1>2. \A j \in Keys \ {k} : row'[j] = row[j]
    BY DEF Stays, Attempts, Finals, Edited
<1>3. \A j \in Keys \ {k} : override[j] \in Ended => override'[j] = override[j]
    BY DEF Stays, Attempts, Finals, Ended
<1> QED
    BY <1>1, <1>2, <1>3 DEF KeepsFinal

\* Every step keeps what is finished.
LEMMA NextKeepsFinal == SerialInv /\ JournalInv /\ [Next]_vars => KeepsFinal
<1> SUFFICES ASSUME SerialInv, JournalInv, [Next]_vars PROVE KeepsFinal
    OBVIOUS
<1>0. RowsOK /\ ControlOK /\ \A k \in Keys : KeyOK(k)
    BY DEF JournalInv, SerialInv
<1>1. ASSUME UNCHANGED <<row, override>> PROVE KeepsFinal
    BY <1>1 DEF KeepsFinal
<1>2. ASSUME NEW c \in Commands, CallStep(c) PROVE KeepsFinal
    <2>0. K(c) \in Keys /\ CallOK(c)
        BY DEF Keys, K, JournalInv
    <2>1. CallJournal(c)
        BY <1>0, <1>2, <2>0, CallJournalProjection DEF CallOK, Owner
    <2>2. CASE JOutside(c)
        BY <1>1, <2>2 DEF JOutside
    <2>3. CASE JPrepares(c)
        <3>1. row[K(c)] = NoRow /\ override[K(c)] = "none"
            BY <1>0, <2>0, <2>3 DEF JPrepares, KeyOK
        <3>2. row[K(c)].status \notin Terminal /\ override[K(c)] \notin Ended
            BY <3>1 DEF NoRow, Terminal, Ended
        <3>3. \A j \in Keys \ {K(c)} : row'[j] = row[j]
            BY <2>3 DEF JPrepares
        <3>4. \A j \in Keys \ {K(c)} : override[j] \in Ended => override'[j] = override[j]
            BY <2>3 DEF JPrepares, Expire, ActiveOn, Ended
        <3> QED
            BY <3>2, <3>3, <3>4 DEF KeepsFinal
    <2>4. CASE JLeaves(c) \/ JWorks(c) \/ JAttempts(c) \/ JSends(c) \/ JFinals(c)
        <3>1. pc[c] \in Past
            BY <2>4 DEF JLeaves, JWorks, JAttempts, JSends, JFinals, Past, InSlot
        <3>2. row[K(c)] # NoRow /\ row[K(c)].status \in Pending
            BY <2>0, <3>1 DEF CallOK
        <3>3. Stays(K(c)) \/ Attempts(K(c)) \/ Finals(K(c)) \/ UNCHANGED <<row, override>>
            BY <2>4 DEF JLeaves, JWorks, JAttempts, JSends, JFinals
        <3> QED
            BY <1>0, <2>0, <3>2, <3>3, EditKeepsFinal
    <2> QED
        BY <2>1, <2>2, <2>3, <2>4 DEF CallJournal
<1>3. ASSUME NEW a \in Accounts, RecoveryStep(a) PROVE KeepsFinal
    <2>0. WorkerOK(a)
        BY DEF JournalInv
    <2>1. RecoveryJournal(a)
        BY <1>0, <1>3, <2>0, RecoveryJournalProjection DEF WorkerOK
    <2>2. CASE UNCHANGED <<row, override>>
        BY <1>1, <2>2
    <2>3. CASE RWorks(a) \/ RFinals(a) \/ RAttempts(a)
        <3>1. rkey[a] \in Keys /\ row[rkey[a]] # NoRow /\ row[rkey[a]].status \in Pending
            BY <2>0, <2>3 DEF WorkerOK, ROwner, RWorks, RFinals, RAttempts, REnds
        <3>2. Stays(rkey[a]) \/ Attempts(rkey[a]) \/ Finals(rkey[a])
            BY <2>3 DEF RWorks, RFinals, RAttempts
        <3> QED
            BY <1>0, <3>1, <3>2, EditKeepsFinal
    <2> QED
        BY <2>1, <2>2, <2>3 DEF RecoveryJournal, RTakes, RSlot, RLeaves, RSends
<1>4. CASE Environment
    <2>1. UNCHANGED row
        BY <1>4, EnvironmentJournal
    <2>2. \A k \in Keys : override[k] \in Ended => override'[k] = override[k]
        BY <1>4, EnvironmentJournal DEF Expire, Ended
    <2> QED
        BY <2>1, <2>2 DEF KeepsFinal
<1>5. CASE RecoveryStart \/ UNCHANGED vars
    BY <1>1, <1>5 DEF RecoveryStart, vars, journal
<1> QED
    BY <1>2, <1>3, <1>4, <1>5 DEF Next

\* For any commands, accounts and faults: no retry, recovery pass or crash
\* reopens a finished mutation or wakes an override that has ended.
THEOREM FinishedStaysFinished == Spec => FinalIsFinal
<1>1. SerialInv /\ JournalInv /\ [Next]_vars =>
        [\A k \in Keys :
            /\ row[k].status \in Terminal => row'[k].status = row[k].status
            /\ override[k] \in {"blocked", "failed", "superseded", "expired", "revoked"}
                    => override'[k] = override[k]]_vars
    BY NextKeepsFinal DEF KeepsFinal, Ended
<1> QED
    BY <1>1, JournalInductive, PTL DEF Spec, FinalIsFinal

-----------------------------------------------------------------------------
(* The type invariant *)

CandOK == cand \in [Commands -> {"out", "waiting", "completed"}]

\* A candidate is out of the queue, waiting or completed.
LEMMA NextCand == CandOK /\ [Next]_vars => CandOK'
<1> SUFFICES ASSUME CandOK, [Next]_vars PROVE CandOK'
    OBVIOUS
<1> USE DEF CandOK
<1>1. ASSUME NEW c \in Commands, NEW b, Finish(c, b) PROVE CandOK'
    BY <1>1 DEF Finish
<1>2. ASSUME NEW c \in Commands, NEW st, Return(c, st) PROVE CandOK'
    BY <1>1, <1>2 DEF Return
<1>3. ASSUME NEW c \in Commands, CallStep(c) PROVE CandOK'
    <2>1. CASE \E st : Return(c, st)
        BY <1>2, <2>1
    <2>2. CASE UNCHANGED cand
        BY <2>2
    <2>3. CASE Enqueue(c) \/ Cancel(c)
        BY <1>1, <2>3 DEF Enqueue, Cancel
    <2> QED
        BY <1>3, <2>1, <2>2, <2>3 DEF CallStep, ReleaseAnswered, Call, AcquireLock, AcquireSlot, StoreFails,
            Replay, Prepare, Lose, Validating, Read, ReadFails, GuardRefuses, AlreadyThere, BeginWrite,
            WriteSucceeds, WriteRejected, WriteUnanswered, Verify, Confirm, resolveWriteError,
            finishWithoutWrite, finalize, markUncertain
<1>4. ASSUME NEW a \in Accounts, RecoveryStep(a) PROVE CandOK'
    BY <1>4 DEF RecoveryStep, RecoveryLock, RecoverySlot, RecoveryFails, RecoverySkips, RecoveryExamine,
        RecoveryWrites, RecoveryConfirms
<1>5. CASE Environment \/ RecoveryStart \/ UNCHANGED vars
    BY <1>5 DEF Environment, Crash, Tick, ExpireOverrides, PublishFreeze, FreezeLapses, LateWrite,
        OutsideChange, LocksChange, RecoveryStart, vars
<1> QED
    BY <1>3, <1>4, <1>5 DEF Next

\* Types, and the limit of maxConcurrentAccountMutations.
THEOREM AccountControlTypeOK == Spec => []TypeOK
<1>1. Init => CandOK /\ mode \in Modes
    BY DEF Init, CandOK, Modes
<1>2. SerialInv /\ JournalInv /\ SlotsInv /\ CandOK /\ mode \in Modes => TypeOK
    <2> SUFFICES ASSUME SerialInv, JournalInv, SlotsInv, CandOK, mode \in Modes PROVE TypeOK
        OBVIOUS
    <2>1. \A k \in Keys : row[k].status \in Statuses \cup {"none"}
        BY DEF JournalInv, RowsOK, RowOK, NoRow
    <2> QED
        BY <2>1 DEF TypeOK, SerialInv, ControlOK, JournalInv, RowsOK, SlotsInv, CandOK
<1> QED
    BY <1>1, <1>2, InitSerial, NextSerial, InitJournal, NextJournal, InitSlots, NextSlots, NextCand, ModeOK,
       PTL DEF Spec

-----------------------------------------------------------------------------
(* The candidate queue *)

\* finish keeps a completed candidate only beside a waiting one, and its sweep
\* takes the last waiter's completed candidates with it.
LEMMA FinishKeepsQueue ==
    ASSUME CandOK, NoLeftoverCandidate, NEW c \in Commands, NEW b, Finish(c, b)
    PROVE  NoLeftoverCandidate'
<1> DEFINE others == Waiting(Target(c)) \ {c}
<1>0. \A d \in Commands : /\ cand[d] # "completed" /\ cand'[d] = "completed" => d = c /\ others # {}
                          /\ cand'[d] = "completed" /\ Target(d) = Target(c) => others # {}
    BY DEF Finish, CandOK, NoLeftoverCandidate, Waiting
<1>1. \A e \in others : cand'[e] = "waiting"
    BY DEF Finish, CandOK, Waiting
<1>2. \A e \in Commands : cand[e] = "waiting" /\ Target(e) # Target(c) => cand'[e] = "waiting"
    BY DEF Finish, CandOK
<1> SUFFICES ASSUME NEW d \in Commands, cand'[d] = "completed"
             PROVE  \E e \in Commands : cand'[e] = "waiting" /\ Target(e) = Target(d)
    BY DEF NoLeftoverCandidate, Waiting, Target
<1>3. CASE Target(d) = Target(c)
    <2>1. PICK e \in others : TRUE
        BY <1>0, <1>3
    <2> QED
        BY <1>1, <1>3, <2>1 DEF Waiting
<1>4. CASE Target(d) # Target(c)
    <2>1. cand[d] = "completed"
        BY <1>0, <1>4
    <2>2. PICK e \in Commands : cand[e] = "waiting" /\ Target(e) = Target(d)
        BY <2>1 DEF NoLeftoverCandidate, Waiting
    <2> QED
        BY <1>2, <1>4, <2>2
<1> QED
    BY <1>3, <1>4

\* Every step keeps the queue clean: a call joins it, finish takes it out, a
\* crash forgets it, and nothing else touches it.
LEMMA NextQueue == CandOK /\ NoLeftoverCandidate /\ [Next]_vars => NoLeftoverCandidate'
<1> SUFFICES ASSUME CandOK, NoLeftoverCandidate, [Next]_vars PROVE NoLeftoverCandidate'
    OBVIOUS
<1>0. ASSUME UNCHANGED cand PROVE NoLeftoverCandidate'
    BY <1>0 DEF NoLeftoverCandidate, Waiting, Target
<1>1. ASSUME NEW c \in Commands, NEW b, Finish(c, b) PROVE NoLeftoverCandidate'
    BY <1>1, FinishKeepsQueue
<1>2. ASSUME NEW c \in Commands, NEW st, Return(c, st) PROVE NoLeftoverCandidate'
    BY <1>1, <1>2 DEF Return
<1>3. ASSUME NEW c \in Commands, Enqueue(c) PROVE NoLeftoverCandidate'
    BY <1>3 DEF Enqueue, NoLeftoverCandidate, Waiting, Target, CandOK
<1>4. ASSUME NEW c \in Commands, CallStep(c) PROVE NoLeftoverCandidate'
    <2>1. CASE \E st : Return(c, st)
        BY <1>2, <2>1
    <2>2. CASE UNCHANGED cand
        BY <1>0, <2>2
    <2>3. CASE Cancel(c)
        BY <1>0, <1>1, <2>3 DEF Cancel
    <2> QED
        BY <1>3, <1>4, <2>1, <2>2, <2>3 DEF CallStep, ReleaseAnswered, Call, AcquireLock, AcquireSlot,
            StoreFails, Replay, Prepare, Lose, Validating, Read, ReadFails, GuardRefuses, AlreadyThere,
            BeginWrite, WriteSucceeds, WriteRejected, WriteUnanswered, Verify, Confirm, resolveWriteError,
            finishWithoutWrite, finalize, markUncertain
<1>5. ASSUME NEW a \in Accounts, RecoveryStep(a) PROVE UNCHANGED cand
    BY <1>5 DEF RecoveryStep, RecoveryLock, RecoverySlot, RecoveryFails, RecoverySkips, RecoveryExamine,
        RecoveryWrites, RecoveryConfirms
<1>6. CASE Crash
    BY <1>6 DEF Crash, NoLeftoverCandidate
<1>7. ASSUME Environment, ~Crash PROVE UNCHANGED cand
    BY <1>7 DEF Environment, Tick, ExpireOverrides, PublishFreeze, FreezeLapses, LateWrite,
        OutsideChange, LocksChange
<1>8. CASE RecoveryStart \/ UNCHANGED vars
    BY <1>0, <1>8 DEF RecoveryStart, vars
<1> QED
    BY <1>0, <1>4, <1>5, <1>6, <1>7, <1>8 DEF Next

\* For any commands, accounts and faults: the queue remembers an applied
\* command only while a command that overlapped it waits.
THEOREM QueueForgets == Spec => []NoLeftoverCandidate
<1>1. Init => CandOK /\ NoLeftoverCandidate
    BY DEF Init, CandOK, NoLeftoverCandidate
<1> QED
    BY <1>1, NextCand, NextQueue, PTL DEF Spec

-----------------------------------------------------------------------------
(* Arbitration against the overrides.  The arbiter decides once, when the    *)
(* row is prepared; the write goes out several steps later.                  *)

\* Every non-empty set of naturals has a least element.
LEMMA LeastNumber ==
    ASSUME NEW T, T \subseteq Nat, T # {}
    PROVE  \E n \in T : \A k \in T : n <= k
<1> DEFINE R == {ss \in Nat \X Nat : ss[1] < ss[2]}
<1>1. IsWellFoundedOn(R, Nat)
    BY NatLessThanWellFounded, Zenon DEF OpToRel
<1>2. PICK n \in T : \A k \in T : ~(<<k, n>> \in R)
    <2> HIDE DEF R
    <2> QED
        BY <1>1, WFMin
<1>3. ASSUME NEW k \in T PROVE n <= k
    <2>1. k \in Nat /\ n \in Nat /\ ~(<<k, n>> \in R)
        BY <1>2
    <2>2. k < n => <<k, n>> \in R
        BY <2>1
    <2> QED
        BY <2>1, <2>2
<1> QED
    BY <1>3

IntentFields == {"id", "key", "target", "val", "auth", "producer", "reason", "created", "expires"}
IntentOK(i) == DOMAIN i = IntentFields /\ i.id \in Nat /\ Validate(i)

\* The adapters build valid intents.
LEMMA IntentIsValid ==
    ASSUME NEW c \in Commands, NEW created \in Nat, NEW val \in Nat
    PROVE  IntentOK(Intent(c, created, val))
<1> DEFINE n == CHOOSE d \in Commands : Request[d] = Request[c]
           m == MaxClock + 1
           p == n * m
           q == (p + created) * Values
<1>1. n \in Commands
    BY Zenon
<1>2. n \in Nat /\ m \in Nat /\ Values \in Nat
    <2>1. m \in Nat /\ Values \in Nat /\ \A d \in Commands : d \in Nat
        BY AccountControlAssumption
    <2> HIDE DEF n, m
    <2> QED
        BY <1>1, <2>1
<1>3. p \in Nat
    <2> HIDE DEF n, m
    <2> QED
        BY <1>2
<1>4. q \in Nat
    <2> HIDE DEF p
    <2> QED
        BY <1>2, <1>3
<1>5. Intent(c, created, val).id = q + val
    BY DEF Intent, Identity
<1>6. Intent(c, created, val).id \in Nat
    <2> HIDE DEF q
    <2> QED
        BY <1>4, <1>5
<1>7. DOMAIN Intent(c, created, val) = IntentFields
    BY DEF Intent, IntentFields
<1>8. Validate(Intent(c, created, val))
    BY AccountControlAssumption DEF Validate, Intent, NoExpiry
<1> QED
    BY <1>6, <1>7, <1>8 DEF IntentOK

\* A sum of a multiple and a remainder determines both.
LEMMA Digits ==
    ASSUME NEW m \in Nat, NEW a \in Nat, NEW b \in Nat, NEW x \in Nat, NEW y \in Nat, x < m, y < m,
           a * m + x = b * m + y
    PROVE  a = b /\ x = y
<1>1. ASSUME NEW u \in Nat, NEW v \in Nat, u < v PROVE u * m + m <= v * m
    <2>1. PICK w \in Nat : v = u + 1 + w
        <3>1. v - u - 1 \in Nat /\ v = u + 1 + (v - u - 1)
            BY <1>1
        <3> QED
            BY <3>1
    <2>2. w * m \in Nat /\ u * m \in Nat
        OBVIOUS
    <2>3. v * m = u * m + m + w * m
        BY <2>1
    <2> QED
        BY <2>2, <2>3
<1>2. a * m \in Nat /\ b * m \in Nat
    OBVIOUS
<1>3. ~(a < b)
    BY <1>1, <1>2
<1>4. ~(b < a)
    BY <1>1, <1>2
<1>5. a = b
    BY <1>3, <1>4
<1> QED
    BY <1>2, <1>5

\* The digest identifies the intent.
LEMMA SameIntent ==
    ASSUME NEW c \in Commands, NEW d \in Commands, NEW x \in 0..MaxClock, NEW y \in 0..MaxClock,
           NEW u \in 0..(Values - 1), NEW v \in 0..(Values - 1),
           Intent(c, x, u).id = Intent(d, y, v).id
    PROVE  Intent(c, x, u) = Intent(d, y, v)
<1> DEFINE First(e) == CHOOSE f \in Commands : Request[f] = Request[e]
           m == MaxClock + 1
<1>1. /\ First(c) \in Commands /\ Request[First(c)] = Request[c]
      /\ First(d) \in Commands /\ Request[First(d)] = Request[d]
    BY Zenon
<1>2. /\ First(c) \in Nat /\ First(d) \in Nat /\ m \in Nat /\ Values \in Nat
      /\ x \in Nat /\ y \in Nat /\ u \in Nat /\ v \in Nat /\ x < m /\ y < m /\ u < Values /\ v < Values
    <2>1. m \in Nat /\ MaxClock \in Nat /\ Values \in Nat /\ \A e \in Commands : e \in Nat
        BY AccountControlAssumption
    <2>2. x < m /\ y < m
        BY <2>1
    <2> HIDE DEF First, m
    <2> QED
        BY <1>1, <2>1, <2>2
<1>3. (First(c) * m + x) * Values + u = (First(d) * m + y) * Values + v
    BY DEF Intent, Identity
<1>4. First(c) * m + x \in Nat /\ First(d) * m + y \in Nat
    <2> HIDE DEF First, m
    <2>1. First(c) * m \in Nat /\ First(d) * m \in Nat
        BY <1>2
    <2> QED
        BY <1>2, <2>1
<1>5. First(c) * m + x = First(d) * m + y /\ u = v
    <2> DEFINE p == First(c) * m + x
               q == First(d) * m + y
    <2>1. p \in Nat /\ q \in Nat /\ p * Values + u = q * Values + v
        BY <1>3, <1>4
    <2> HIDE DEF p, q
    <2>2. p = q /\ u = v
        BY <1>2, <2>1, Digits
    <2> QED
        BY <2>2 DEF p, q
<1>6. First(c) = First(d) /\ x = y
    <2> HIDE DEF First, m
    <2> QED
        BY <1>2, <1>5, Digits
<1>7. Request[c] = Request[d]
    <2> HIDE DEF First
    <2> QED
        BY <1>1, <1>6
<1> HIDE DEF First
<1>8. Target(c) = Target(d) /\ Identity(c, x, u) = Identity(d, y, v)
    BY <1>7 DEF Target, Intent
<1> QED
    BY <1>5, <1>6, <1>7, <1>8 DEF Intent

\* Equal signatures agree on everything that candidateWins looks at but the
\* identity.
LEMMA SameSemantics ==
    ASSUME NEW i, NEW j, IntentOK(i), IntentOK(j), SemanticSignature(i) = SemanticSignature(j)
    PROVE  i.target = j.target /\ i.auth = j.auth /\ i.created = j.created
<1>1. {"target", "auth", "created"} \subseteq DOMAIN i \ {"id", "key"}
    BY DEF IntentOK, IntentFields
<1>2. {"target", "auth", "created"} \subseteq DOMAIN j \ {"id", "key"}
    BY DEF IntentOK, IntentFields
<1>3. /\ SemanticSignature(i)["target"] = i.target /\ SemanticSignature(i)["auth"] = i.auth
      /\ SemanticSignature(i)["created"] = i.created
    BY <1>1 DEF SemanticSignature
<1>4. /\ SemanticSignature(j)["target"] = j.target /\ SemanticSignature(j)["auth"] = j.auth
      /\ SemanticSignature(j)["created"] = j.created
    BY <1>2 DEF SemanticSignature
<1> QED
    BY <1>3, <1>4

\* The winner of an arbitration is at least as strong as every live intent for
\* the target that no other intent contradicts, the duplicates included.
LEMMA WinnerIsStrongest ==
    ASSUME NEW t, NEW S, \A i \in S : IntentOK(i), NEW o \in S, o.target = t, ~Expired(o, now),
           NEW w \in Winner(now, S, t)
    PROVE  \/ o = w \/ CandidateWins(w, o)
           \/ \E j \in S : j.key = o.key /\ SemanticSignature(j) # SemanticSignature(o)
<1> SUFFICES ASSUME \A j \in S : j.key = o.key => SemanticSignature(j) = SemanticSignature(o)
             PROVE  o = w \/ CandidateWins(w, o)
    OBVIOUS
<1> DEFINE G == KeyGroup(now, S, o)
           Ids == {g.id : g \in G}
<1>1. o \in G /\ \A g \in G : g \in Live(now, S) /\ g \in S /\ IntentOK(g) /\ g.key = o.key
    BY DEF KeyGroup, Live, IntentOK
<1>2. PICK n \in Ids : \A k \in Ids : n <= k
    <2>1. Ids \subseteq Nat /\ Ids # {}
        BY <1>1 DEF IntentOK
    <2> HIDE DEF Ids
    <2> QED
        BY <2>1, LeastNumber
<1>3. PICK j \in G : n = j.id
    OBVIOUS
<1>4. \A g \in G : j.id <= g.id /\ g.id \in Nat /\ SemanticSignature(g) = SemanticSignature(o)
    BY <1>1, <1>2, <1>3 DEF IntentOK
<1>5. KeyGroup(now, S, j) = G
    BY <1>3 DEF KeyGroup
<1>6. ~Duplicate(now, S, j) /\ ~IdempotencyConflict(now, S, j)
    BY <1>3, <1>4, <1>5 DEF Duplicate, IdempotencyConflict
<1>7. j.target = o.target /\ j.auth = o.auth /\ j.created = o.created
    BY <1>1, <1>3, <1>4, SameSemantics
<1>8. j \in Candidates(now, S, t)
    BY <1>1, <1>3, <1>6, <1>7 DEF Candidates
<1>9. w = j \/ CandidateWins(w, j)
    BY <1>8 DEF Winner
<1>10. w.id \in Nat /\ j.id \in Nat /\ o.id \in Nat /\ j.id <= o.id
    BY <1>1, <1>3, <1>4 DEF Winner, Candidates, Live, IntentOK
<1>11. CASE j.id < o.id
    BY <1>7, <1>9, <1>10, <1>11 DEF CandidateWins
<1>12. CASE j.id = o.id
    <2>1. ~Duplicate(now, S, o) /\ ~IdempotencyConflict(now, S, o)
        BY <1>1, <1>4, <1>12 DEF Duplicate, IdempotencyConflict
    <2>2. o \in Candidates(now, S, t)
        BY <1>1, <2>1 DEF Candidates
    <2> QED
        BY <2>2 DEF Winner
<1> QED
    BY <1>10, <1>11, <1>12

-----------------------------------------------------------------------------
(* What every step leaves of the journal *)

RowsKeep == \A k \in Keys : row[k] # NoRow => /\ row'[k] # NoRow
                                              /\ row'[k].intent = row[k].intent
                                              /\ row'[k].win = row[k].win
Wakes(k) == override'[k] = "active" /\ override[k] # "active"

\* An edit keeps intent and winner, and can only wake the override of its key.
LEMMA EditWakes ==
    ASSUME RowsOK, NEW k \in Keys, row[k] # NoRow, Stays(k) \/ Attempts(k) \/ Finals(k)
    PROVE  RowsKeep /\ \A j \in Keys : Wakes(j) => j = k
<1>1. NoRow.status = "none" /\ DOMAIN NoRow # Fields
    BY DEF NoRow, Fields
<1>2. ASSUME NEW st, NEW n, Edited(k, st, n) PROVE RowsKeep
    BY <1>1, <1>2 DEF Edited, RowsKeep
<1>3. RowsKeep
    <2>1. \E st, n : Edited(k, st, n)
        BY DEF Stays, Attempts, Finals
    <2> QED
        BY <1>2, <2>1
<1>4. \A j \in Keys : Wakes(j) => j = k
    BY DEF Wakes, Stays, Attempts, Finals
<1> QED
    BY <1>3, <1>4

\* Expiry wakes nothing.
LEMMA ExpireWakes ==
    ASSUME RowsOK, NEW S, NEW k \in Keys, Expire(S)[k] = "active"
    PROVE  override[k] = "active" /\ (k \in S => ~Expired(row[k].intent, now))
BY DEF Expire

\* Only the call that ends an applied mutation wakes its override.
LEMMA CallRows ==
    ASSUME SerialInv, JournalInv, NEW c \in Commands, CallStep(c)
    PROVE  /\ RowsKeep
           /\ \A k \in Keys : Wakes(k) => k = K(c) /\ pc[c] \in Past /\ pc'[c] = "done"
           /\ \A k \in Keys : row[k] = NoRow /\ row'[k] # NoRow =>
                    row'[k].intent = sub[c].intent /\ pc[c] = "prepare"
           /\ pc[c] \notin Past \ {"superseded", "expired"} /\ pc'[c] \in Past \ {"superseded", "expired"}
                    => pc[c] = "prepare" /\ row[K(c)] = NoRow /\ pc'[c] = "validate"
<1>0. RowsOK /\ ControlOK /\ CallOK(c) /\ K(c) \in Keys /\ DOMAIN row = Keys /\ DOMAIN pc = Commands
    BY DEF JournalInv, SerialInv, ControlOK, RowsOK, Keys, K
<1>1. CallJournal(c)
    BY <1>0, CallJournalProjection DEF Owner, CallOK
<1>2. pc[c] \in Past => row[K(c)] # NoRow
    BY <1>0 DEF CallOK
<1> USE DEF Steps
<1>3. CASE JOutside(c)
    BY <1>0, <1>3 DEF JOutside, RowsKeep, Wakes
<1>4. CASE JLeaves(c)
    BY <1>0, <1>4 DEF JLeaves, RowsKeep, Wakes, Past, InSlot
<1>5. CASE JSends(c)
    BY <1>0, <1>5 DEF JSends, RowsKeep, Wakes, Past, InSlot
<1>6. CASE JPrepares(c)
    <2>1. RowsKeep
        BY <1>6 DEF JPrepares, RowsKeep
    <2>2. \A k \in Keys : ~Wakes(k)
        <3> SUFFICES ASSUME NEW k \in Keys, Wakes(k) PROVE FALSE
            OBVIOUS
        <3>1. PICK ov \in {"none", "pending"} : override' = [Expire(ActiveOn(Target(c))) EXCEPT ![K(c)] = ov]
            BY <1>6 DEF JPrepares
        <3>2. DOMAIN Expire(ActiveOn(Target(c))) = Keys
            BY DEF Expire
        <3>3. k # K(c) => override'[k] = Expire(ActiveOn(Target(c)))[k]
            BY <3>1, <3>2
        <3>4. k = K(c) => override'[k] = ov
            BY <1>0, <3>1, <3>2
        <3> QED
            BY <1>0, <3>3, <3>4, ExpireWakes DEF Wakes
    <2>3. \A k \in Keys : row[k] = NoRow /\ row'[k] # NoRow => row'[k].intent = sub[c].intent
        BY <1>6 DEF JPrepares
    <2>4. pc[c] = "prepare" /\ row[K(c)] = NoRow /\ pc'[c] \in {"validate", "superseded", "expired"}
        BY <1>0, <1>6 DEF JPrepares
    <2> QED
        BY <2>1, <2>2, <2>3, <2>4
<1>7. CASE JWorks(c) \/ JAttempts(c) \/ JFinals(c)
    <2>1. pc[c] \in Past /\ (Stays(K(c)) \/ Attempts(K(c)) \/ Finals(K(c)))
        BY <1>7 DEF JWorks, JAttempts, JFinals, Past, InSlot
    <2>2. RowsKeep /\ \A j \in Keys : Wakes(j) => j = K(c)
        BY <1>0, <1>2, <2>1, EditWakes
    <2>3. \A j \in Keys : Wakes(j) => pc'[c] = "done"
        BY <1>0, <1>7 DEF JWorks, JAttempts, JFinals, Stays, Attempts, Wakes
    <2>4. \A k \in Keys : row[k] = NoRow => row'[k] = NoRow
        <3>1. \A k \in Keys \ {K(c)} : row'[k] = row[k]
            BY <2>1 DEF Stays, Attempts, Finals, Edited
        <3> QED
            BY <1>2, <2>1, <3>1
    <2>5. pc[c] \in {"superseded", "expired"} => pc'[c] = "done"
        BY <1>0, <1>7 DEF JWorks, JAttempts, JFinals
    <2> QED
        BY <2>1, <2>2, <2>3, <2>4, <2>5 DEF Past, InSlot
<1> QED
    BY <1>1, <1>3, <1>4, <1>5, <1>6, <1>7 DEF CallJournal

\* Recovery wakes at most the override of the row it works on.
LEMMA RecoveryRows ==
    ASSUME SerialInv, JournalInv, NEW a \in Accounts, RecoveryStep(a)
    PROVE  /\ RowsKeep
           /\ \A k \in Keys : Wakes(k) => k = rkey[a] /\ rpc[a] # "idle"
           /\ \A k \in Keys : row[k] = NoRow => row'[k] = NoRow
<1>0. RowsOK /\ ControlOK /\ ROwner(a)
    BY DEF JournalInv, SerialInv, WorkerOK
<1>1. RecoveryJournal(a)
    BY <1>0, RecoveryJournalProjection
<1>2. CASE UNCHANGED <<row, override>>
    BY <1>2 DEF RowsKeep, Wakes
<1>3. CASE RWorks(a) \/ RFinals(a) \/ RAttempts(a)
    <2>1. /\ rpc[a] # "idle" /\ rkey[a] \in Keys /\ row[rkey[a]] # NoRow
          /\ Stays(rkey[a]) \/ Attempts(rkey[a]) \/ Finals(rkey[a])
        BY <1>0, <1>3 DEF RWorks, RFinals, RAttempts, REnds, ROwner
    <2>2. RowsKeep /\ \A j \in Keys : Wakes(j) => j = rkey[a]
        BY <1>0, <2>1, EditWakes
    <2>3. \A k \in Keys \ {rkey[a]} : row'[k] = row[k]
        BY <2>1 DEF Stays, Attempts, Finals, Edited
    <2> QED
        BY <2>1, <2>2, <2>3
<1> QED
    BY <1>1, <1>2, <1>3 DEF RecoveryJournal, RTakes, RSlot, RLeaves, RSends

-----------------------------------------------------------------------------
(* The inductive invariant *)

\* Program counters of a call that won its arbitration.
Won == Past \ {"superseded", "expired"}

\* The row of a call that won still obeys the overrides: who decided then is
\* strong enough now.
Obeys(c) ==
    pc[c] \in Won =>
        \A k \in ActiveOn(Target(c)) \ {sub[c].revoke} :
            \/ row[k].intent = row[K(c)].win \/ CandidateWins(row[K(c)].win, row[k].intent)
            \/ Rival(row[k].intent)

\* Candidates are calls in flight, and every row was some call's submission.
QueueOK == CandOK /\ \A d \in Commands : cand[d] # "out" => pc[d] # "idle"
Born(k) == row[k] # NoRow => \E d \in Commands : pc[d] # "idle" /\ sub[d].intent = row[k].intent

\* A submission carries an intent the adapters built, now or at an earlier
\* call of the same command.
Formed(c) == \E x \in 0..MaxClock, v \in 0..(Values - 1) : sub[c].intent = Intent(c, x, v)

OverrideInv ==
    /\ now \in 0..MaxClock
    /\ QueueOK
    /\ \A c \in Commands : Formed(c)
    /\ \A k \in Keys : Born(k)
    /\ \A c \in Commands : Obeys(c)

\* What is built is valid.
LEMMA SubmissionsValid ==
    ASSUME NEW c \in Commands, Formed(c)
    PROVE  /\ IntentOK(sub[c].intent) /\ sub[c].intent.created \in 0..MaxClock
           /\ sub[c].intent.auth \in Authorities /\ sub[c].intent.expires \in Int
<1>1. PICK x \in 0..MaxClock, v \in 0..(Values - 1) : sub[c].intent = Intent(c, x, v)
    BY DEF Formed
<1>2. x \in Nat /\ v \in Nat
    BY AccountControlAssumption
<1>3. Intent(c, x, v).created = x /\ Intent(c, x, v).auth = Request[c].auth
    BY DEF Intent
<1>4. Intent(c, x, v).expires = IF Request[c].ttl = 0 THEN NoExpiry ELSE x + Request[c].ttl
    BY DEF Intent
<1>5. Intent(c, x, v).expires \in Int /\ Request[c].auth \in Authorities
    BY <1>2, <1>4, AccountControlAssumption DEF NoExpiry
<1> QED
    BY <1>1, <1>2, <1>3, <1>5, IntentIsValid

\* A call that was made stays made, with the submission it was made with.
CallsKeep == \A d \in Commands : pc[d] # "idle" => pc'[d] # "idle" /\ sub'[d] = sub[d]

\* No step takes a submission back.
LEMMA NextCalls ==
    ASSUME SerialInv, JournalInv, [Next]_vars
    PROVE  CallsKeep
<1>0. DOMAIN pc = Commands /\ DOMAIN sub = Commands
    BY DEF SerialInv, ControlOK, JournalInv, Shapes
<1>1. ASSUME NEW c \in Commands, CallStep(c) PROVE CallsKeep
    <2>1. \A d \in Commands : pc[d] # "idle" => pc'[d] # "idle"
        BY <1>0, <1>1, CallProjection
        DEF CallPattern, Unleased, Joins, GivesUp, TakesLock, TakesSlot, Works, Leaves, Moves, InSlot
    <2>2. CASE Call(c)
        BY <1>0, <2>1, <2>2 DEF Call, CallsKeep
    <2>3. CASE UNCHANGED sub
        BY <2>1, <2>3 DEF CallsKeep
    <2> QED
        BY <1>1, <2>2, <2>3 DEF CallStep, ReleaseAnswered, Enqueue, AcquireLock, AcquireSlot, Cancel,
            StoreFails, Replay, Prepare, Lose, Validating, Read, ReadFails, GuardRefuses, AlreadyThere,
            BeginWrite, WriteSucceeds, WriteRejected, WriteUnanswered, Verify, Confirm, resolveWriteError,
            calls
<1>2. ASSUME NEW a \in Accounts, RecoveryStep(a) PROVE CallsKeep
    BY <1>2 DEF CallsKeep, RecoveryStep, RecoveryLock, RecoverySlot, RecoveryFails, RecoverySkips,
        RecoveryExamine, RecoveryWrites, RecoveryConfirms, calls
<1>3. CASE Environment
    BY <1>3, EnvironmentJournal, EnvironmentProjection DEF CallsKeep, Dies, Survives
<1>4. CASE RecoveryStart \/ UNCHANGED vars
    BY <1>4 DEF RecoveryStart, vars, calls, CallsKeep
<1> QED
    BY <1>1, <1>2, <1>3, <1>4 DEF Next

\* Rival in the next state.
RivalThen(o) == \E d \in Commands : /\ pc'[d] # "idle" /\ sub'[d].intent.key = o.key
                                    /\ SemanticSignature(sub'[d].intent) # SemanticSignature(o)

\* A contradiction between calls in flight stays.
LEMMA RivalStays ==
    ASSUME CallsKeep, NEW o, Rival(o)
    PROVE  RivalThen(o)
BY DEF CallsKeep, Rival, RivalThen

\* While a call that has its row works on, no override of its target wakes.
LEMMA NothingWakes ==
    ASSUME SerialInv, JournalInv, [Next]_vars, NEW c \in Commands, pc[c] \in Past, pc'[c] \in Past
    PROVE  /\ row'[K(c)].win = row[K(c)].win
           /\ \A k \in Keys : override'[k] = "active" /\ row'[k].intent.target = Target(c) =>
                    /\ override[k] = "active" /\ row[k] # NoRow /\ row'[k].intent = row[k].intent
<1>0. /\ \A d \in Commands : pc[d] \in Past => lock[Acct(d)] = d /\ row[K(d)] # NoRow
                                               /\ row[K(d)].intent.target = Target(d) /\ K(d) \in Keys
      /\ \A k \in Keys : override[k] = "active" => row[k] # NoRow
    <2>1. \A d \in Commands : pc[d] \in Past => lock[Acct(d)] = d
        BY HolderNames DEF SerialInv, SerialPerAccount, Inside, Past
    <2>2. \A k \in Keys : override[k] = "active" => row[k] # NoRow
        BY DEF JournalInv, KeyOK
    <2> QED
        BY <2>1, <2>2 DEF JournalInv, CallOK, Keys, K
<1>1. pc'[c] # "done"
    BY DEF Past, InSlot
<1>2. ASSUME RowsKeep, \A k \in Keys : Wakes(k) => row'[k].intent.target # Target(c)
      PROVE  /\ row'[K(c)].win = row[K(c)].win
             /\ \A k \in Keys : override'[k] = "active" /\ row'[k].intent.target = Target(c) =>
                    /\ override[k] = "active" /\ row[k] # NoRow /\ row'[k].intent = row[k].intent
    BY <1>0, <1>2 DEF RowsKeep, Wakes
<1>3. ASSUME NEW d \in Commands, CallStep(d)
      PROVE  RowsKeep /\ \A k \in Keys : Wakes(k) => row'[k].intent.target # Target(c)
    <2>1. RowsKeep /\ \A k \in Keys : Wakes(k) => k = K(d) /\ pc[d] \in Past /\ pc'[d] = "done"
        BY <1>3, CallRows
    <2> SUFFICES ASSUME NEW k \in Keys, Wakes(k), row'[k].intent.target = Target(c) PROVE FALSE
        BY <2>1
    <2>2. k = K(d) /\ pc[d] \in Past /\ pc'[d] = "done"
        BY <2>1
    <2>3. Target(d) = Target(c)
        BY <1>0, <2>1, <2>2 DEF RowsKeep
    <2>4. Acct(d) = Acct(c)
        BY <2>3 DEF Target, Acct
    <2> QED
        BY <1>0, <1>1, <2>2, <2>4
<1>4. ASSUME NEW a \in Accounts, RecoveryStep(a)
      PROVE  RowsKeep /\ \A k \in Keys : Wakes(k) => row'[k].intent.target # Target(c)
    <2>1. RowsKeep /\ \A k \in Keys : Wakes(k) => k = rkey[a] /\ rpc[a] # "idle"
        BY <1>4, RecoveryRows
    <2> SUFFICES ASSUME NEW k \in Keys, Wakes(k), row'[k].intent.target = Target(c) PROVE FALSE
        BY <2>1
    <2>2. row[k].intent.target[1] = a /\ lock[a] = Recovery /\ row[k] # NoRow
        BY <2>1 DEF JournalInv, WorkerOK, ROwner, SerialInv, SerialPerAccount
    <2>3. a = Acct(c)
        BY <2>1, <2>2 DEF RowsKeep, Target, Acct
    <2> QED
        BY <1>0, <2>2, <2>3, HolderNames
<1>5. CASE Environment
    <2>1. UNCHANGED row /\ \A k \in Keys : ~Wakes(k)
        BY <1>5, EnvironmentJournal, ExpireWakes DEF Wakes, JournalInv
    <2> QED
        BY <1>2, <2>1 DEF RowsKeep
<1>6. CASE RecoveryStart \/ UNCHANGED vars
    BY <1>2, <1>6 DEF RecoveryStart, vars, journal, RowsKeep, Wakes
<1> QED
    BY <1>2, <1>3, <1>4, <1>5, <1>6 DEF Next

\* The decision itself: the winner PrepareAccountMutation records is at least
\* as strong as every override that is active for the target after it.
LEMMA PrepareObeys ==
    ASSUME SerialInv, JournalInv, OverrideInv, NEW c \in Commands, Prepare(c), pc'[c] = "validate",
           NEW k \in Keys, k # sub[c].revoke, override'[k] = "active",
           row'[k].intent.target = Target(c)
    PROVE  \/ row'[k].intent = row'[K(c)].win \/ CandidateWins(row'[K(c)].win, row'[k].intent)
           \/ Rival(row'[k].intent)
<1> DEFINE S == activeCandidates(c)
           t == Target(c)
           W == Winner(now, S, t)
           w == CHOOSE x \in W : TRUE
           o == row[k].intent
<1>0. K(c) \in Keys /\ DOMAIN row = Keys /\ DOMAIN pc = Commands
    BY DEF Keys, K, JournalInv, RowsOK, SerialInv, ControlOK
<1>1. W # {}
    BY <1>0 DEF Prepare, Goto
<1>2. w \in W
    <2> HIDE DEF W
    <2> QED
        BY <1>1
<1>3. row'[K(c)].win = w /\ row'[k] = IF k = K(c) THEN row'[K(c)] ELSE row[k]
    BY <1>0, <1>1 DEF Prepare
<1>4. /\ k # K(c) /\ override[k] = "active" /\ (k \in ActiveOn(t) => ~Expired(o, now))
    <2>1. PICK ov \in {"none", "pending"} : override' = [Expire(ActiveOn(t)) EXCEPT ![K(c)] = ov]
        BY DEF Prepare
    <2>2. DOMAIN Expire(ActiveOn(t)) = Keys
        BY DEF Expire
    <2>3. k # K(c) => override'[k] = Expire(ActiveOn(t))[k]
        BY <2>1, <2>2
    <2>4. k # K(c)
        BY <1>0, <2>1, <2>2
    <2> QED
        BY <2>3, <2>4, ExpireWakes DEF JournalInv
<1>5. row'[k].intent = o /\ k \in ActiveOn(t) /\ o.target = t
    BY <1>3, <1>4 DEF ActiveOn
<1>6. o \in S /\ ~Expired(o, now)
    BY <1>4, <1>5 DEF activeCandidates
<1>7. \A i \in S : \E d \in Commands : pc[d] # "idle" /\ sub[d].intent = i
    <2>1. \A j \in ActiveOn(t) : \E d \in Commands : pc[d] # "idle" /\ sub[d].intent = row[j].intent
        BY DEF OverrideInv, Born, ActiveOn, JournalInv, KeyOK
    <2>2. \A d \in Commands : cand[d] # "out" => pc[d] # "idle"
        BY DEF OverrideInv, QueueOK
    <2>3. pc[c] # "idle"
        BY DEF Prepare
    <2> QED
        BY <2>1, <2>2, <2>3 DEF activeCandidates
<1>8. \A i \in S : IntentOK(i)
    BY <1>7, SubmissionsValid DEF OverrideInv
<1>9. \/ o = w \/ CandidateWins(w, o)
      \/ \E j \in S : j.key = o.key /\ SemanticSignature(j) # SemanticSignature(o)
    <2> HIDE DEF S, t, w, o
    <2>1. w \in Winner(now, S, t)
        BY <1>2
    <2> QED
        BY <1>5, <1>6, <1>8, <2>1, WinnerIsStrongest
<1>10. ASSUME NEW j \in S, j.key = o.key, SemanticSignature(j) # SemanticSignature(o) PROVE Rival(o)
    BY <1>7, <1>10 DEF Rival
<1> HIDE DEF S, w, o, W
<1> QED
    BY <1>3, <1>5, <1>9, <1>10

\* Call builds a submission, or adopts a recorded one.
LEMMA NextIntents ==
    ASSUME SerialInv, JournalInv, OverrideInv, [Next]_vars
    PROVE  now' \in 0..MaxClock /\ \A c \in Commands : Formed(c)'
<1>0. /\ now \in 0..MaxClock /\ DOMAIN sub = Commands /\ MaxClock \in Nat
      /\ \A c \in Commands : Formed(c) /\ K(c) \in Keys
    BY AccountControlAssumption DEF OverrideInv, JournalInv, Shapes, Keys, K
<1>1. ASSUME NEW c \in Commands, Call(c)
      PROVE  now' \in 0..MaxClock /\ \A d \in Commands : Formed(d)'
    <2>1. UNCHANGED now
        BY <1>1 DEF Call, clock
    <2>2. PICK created \in CreatedAt(c), val \in DesiredBy(c) : \E rv :
            \/ sub' = [sub EXCEPT ![c] = [intent |-> Intent(c, created, val), revoke |-> rv]]
            \/ /\ row[K(c)] # NoRow
               /\ row[K(c)].intent = Intent(c, row[K(c)].intent.created, val)
               /\ sub' = [sub EXCEPT ![c] = [intent |-> row[K(c)].intent, revoke |-> rv]]
        BY <1>1 DEF Call
    <2>3. created \in 0..MaxClock /\ val \in 0..(Values - 1)
        BY <1>0, <2>2, AccountControlAssumption DEF CreatedAt, DesiredBy
    <2>4. row[K(c)] # NoRow => row[K(c)].intent.created \in 0..MaxClock
        BY <1>0, SubmissionsValid DEF OverrideInv, Born
    <2>5. \E x \in 0..MaxClock : sub'[c].intent = Intent(c, x, val)
        BY <1>0, <2>2, <2>3, <2>4
    <2>6. \A d \in Commands \ {c} : sub'[d] = sub[d]
        BY <1>0, <2>2
    <2>7. ASSUME NEW d \in Commands PROVE \E x \in 0..MaxClock, v \in 0..(Values - 1) : sub'[d].intent = Intent(d, x, v)
        BY <1>0, <2>3, <2>5, <2>6 DEF Formed
    <2>8. \A d \in Commands : Formed(d)'
        BY <2>7 DEF Formed
    <2> QED
        BY <1>0, <2>1, <2>8
<1>same. ASSUME UNCHANGED sub PROVE \A c \in Commands : Formed(c)'
    BY <1>0, <1>same DEF Formed
<1>2. ASSUME NEW c \in Commands, CallStep(c), ~Call(c) PROVE UNCHANGED <<now, sub>>
    BY <1>2 DEF CallStep, ReleaseAnswered, Enqueue, AcquireLock, AcquireSlot, Cancel, StoreFails, Replay,
        Prepare, Lose, Validating, Read, ReadFails, GuardRefuses, AlreadyThere, BeginWrite, WriteSucceeds,
        WriteRejected, WriteUnanswered, Verify, Confirm, resolveWriteError, calls, clock
<1>3. ASSUME NEW a \in Accounts, RecoveryStep(a) PROVE UNCHANGED <<now, sub>>
    BY <1>3 DEF RecoveryStep, RecoveryLock, RecoverySlot, RecoveryFails, RecoverySkips,
        RecoveryExamine, RecoveryWrites, RecoveryConfirms, calls, clock
<1>4. CASE Environment
    <2>1. UNCHANGED sub
        BY <1>4, EnvironmentJournal
    <2>2. now' = now \/ (now < MaxClock /\ now' = now + 1)
        BY <1>4 DEF Environment, Crash, Tick, ExpireOverrides, PublishFreeze, FreezeLapses, LateWrite,
            OutsideChange, LocksChange, clock
    <2>3. now' \in 0..MaxClock
        BY <1>0, <2>2
    <2> QED
        BY <1>same, <2>1, <2>3
<1>5. CASE RecoveryStart \/ UNCHANGED vars
    BY <1>0, <1>5, <1>same DEF RecoveryStart, vars, calls, clock
<1> QED
    BY <1>0, <1>1, <1>2, <1>3, <1>4, <1>5, <1>same DEF Next

\* A candidate joins the queue with its call in flight.
LEMMA NextQueueOK ==
    ASSUME SerialInv, JournalInv, QueueOK, [Next]_vars
    PROVE  QueueOK'
<1>0. CallsKeep /\ CandOK /\ CandOK'
    BY NextCalls, NextCand DEF QueueOK
<1>1. ASSUME \A d \in Commands : cand'[d] # "out" => cand[d] # "out" \/ pc'[d] # "idle" PROVE QueueOK'
    BY <1>0, <1>1 DEF QueueOK, CallsKeep
<1>2. ASSUME NEW c \in Commands, NEW b, Finish(c, b), pc[c] # "idle"
      PROVE  \A d \in Commands : cand'[d] # "out" => cand[d] # "out" \/ pc'[d] # "idle"
    BY <1>0, <1>2 DEF Finish, CandOK, CallsKeep
<1>3. ASSUME NEW c \in Commands, CallStep(c) PROVE QueueOK'
    <2>1. CASE pc[c] # "idle" /\ \E st : Return(c, st)
        BY <1>1, <1>2, <2>1 DEF Return
    <2>2. CASE UNCHANGED cand
        BY <1>1, <2>2
    <2>3. CASE Enqueue(c)
        <3>1. \A d \in Commands : cand'[d] # "out" => cand[d] # "out" \/ d = c
            BY <1>0, <2>3 DEF Enqueue, CandOK
        <3>2. pc[c] # "idle"
            BY <2>3 DEF Enqueue
        <3> QED
            BY <1>0, <1>1, <3>1, <3>2 DEF CallsKeep
    <2>4. CASE Cancel(c)
        BY <1>1, <1>2, <2>4 DEF Cancel
    <2>5. CASE pc[c] = "idle"
        BY <1>1, <1>3, <2>3, <2>4, <2>5 DEF CallStep, ReleaseAnswered, Call, AcquireLock, AcquireSlot,
            StoreFails, Replay, Prepare, Lose, Validating, Read, ReadFails, GuardRefuses, AlreadyThere,
            BeginWrite, WriteSucceeds, WriteRejected, WriteUnanswered, Verify, Confirm, resolveWriteError,
            InSlot
    <2> QED
        BY <1>3, <2>1, <2>2, <2>3, <2>4, <2>5 DEF CallStep, ReleaseAnswered, Call, AcquireLock, AcquireSlot,
            StoreFails, Replay, Prepare, Lose, Validating, Read, ReadFails, GuardRefuses, AlreadyThere,
            BeginWrite, WriteSucceeds, WriteRejected, WriteUnanswered, Verify, Confirm, resolveWriteError,
            finishWithoutWrite, finalize, markUncertain
<1>4. ASSUME NEW a \in Accounts, RecoveryStep(a) PROVE UNCHANGED cand
    BY <1>4 DEF RecoveryStep, RecoveryLock, RecoverySlot, RecoveryFails, RecoverySkips, RecoveryExamine,
        RecoveryWrites, RecoveryConfirms
<1>5. CASE Environment \/ RecoveryStart \/ UNCHANGED vars
    <2>1. UNCHANGED cand \/ \A d \in Commands : cand'[d] = "out"
        BY <1>5 DEF Environment, Crash, Tick, ExpireOverrides, PublishFreeze, FreezeLapses, LateWrite,
            OutsideChange, LocksChange, RecoveryStart, vars
    <2> QED
        BY <1>1, <2>1
<1> QED
    BY <1>1, <1>3, <1>4, <1>5 DEF Next

\* A row is born with the submission of the call that prepares it.
LEMMA NextBorn ==
    ASSUME SerialInv, JournalInv, OverrideInv, [Next]_vars
    PROVE  \A k \in Keys : Born(k)'
<1>0. CallsKeep
    BY NextCalls
<1>1. ASSUME RowsKeep, NEW k \in Keys, row[k] # NoRow PROVE Born(k)'
    BY <1>0, <1>1 DEF OverrideInv, Born, CallsKeep, RowsKeep
<1>2. ASSUME NEW k \in Keys, row'[k] = NoRow PROVE Born(k)'
    BY <1>2 DEF Born
<1>3. ASSUME NEW c \in Commands, CallStep(c), NEW k \in Keys PROVE Born(k)'
    <2>1. RowsKeep /\ (row[k] = NoRow /\ row'[k] # NoRow => row'[k].intent = sub[c].intent /\ pc[c] = "prepare")
        BY <1>3, CallRows
    <2>2. CASE row[k] = NoRow /\ row'[k] # NoRow
        <3>1. pc'[c] # "idle" /\ sub'[c].intent = row'[k].intent
            BY <1>0, <2>1, <2>2 DEF CallsKeep
        <3> QED
            BY <3>1 DEF Born
    <2> QED
        BY <1>1, <1>2, <2>1, <2>2
<1>4. ASSUME NEW a \in Accounts, RecoveryStep(a), NEW k \in Keys PROVE Born(k)'
    BY <1>1, <1>2, <1>4, RecoveryRows
<1>5. ASSUME UNCHANGED row, NEW k \in Keys PROVE Born(k)'
    BY <1>1, <1>2, <1>5 DEF RowsKeep
<1>6. CASE Environment \/ RecoveryStart \/ UNCHANGED vars
    BY <1>5, <1>6, EnvironmentJournal DEF RecoveryStart, vars, journal
<1> QED
    BY <1>3, <1>4, <1>6 DEF Next

\* The invariant is inductive.
LEMMA NextOverrides == SerialInv /\ JournalInv /\ OverrideInv /\ [Next]_vars => OverrideInv'
<1> SUFFICES ASSUME SerialInv, JournalInv, OverrideInv, [Next]_vars PROVE OverrideInv'
    OBVIOUS
<1>0. CallsKeep
    BY NextCalls
<1>1. ASSUME NEW c \in Commands PROVE Obeys(c)'
    <2> SUFFICES ASSUME pc'[c] \in Won, NEW k \in Keys, k # sub'[c].revoke, override'[k] = "active",
                        row'[k].intent.target = Target(c)
                 PROVE  \/ row'[k].intent = row'[K(c)].win
                        \/ CandidateWins(row'[K(c)].win, row'[k].intent)
                        \/ RivalThen(row'[k].intent)
        BY DEF Obeys, ActiveOn, Rival, RivalThen, Target, K
    <2> HIDE DEF Won
    <2>0. Rival(row'[k].intent) => RivalThen(row'[k].intent)
        BY <1>0, RivalStays
    <2>1. CASE pc[c] \in Won
        <3>1. /\ row'[K(c)].win = row[K(c)].win
              /\ override[k] = "active" /\ row[k] # NoRow /\ row'[k].intent = row[k].intent
            BY <2>1, NothingWakes DEF Won
        <3>2. sub'[c] = sub[c]
            BY <1>0, <2>1 DEF CallsKeep, Won, Past, InSlot
        <3>3. k \in ActiveOn(Target(c)) \ {sub[c].revoke}
            BY <3>1, <3>2 DEF ActiveOn
        <3>4. \/ row[k].intent = row[K(c)].win \/ CandidateWins(row[K(c)].win, row[k].intent)
              \/ Rival(row[k].intent)
            BY <2>1, <3>3 DEF OverrideInv, Obeys
        <3> QED
            BY <2>0, <3>1, <3>4
    <2>2. CASE pc[c] \notin Won
        <3>1. pc'[c] # pc[c] /\ pc'[c] \notin {"idle", "done"}
            BY <2>2 DEF Won, Past, InSlot
        <3>2. CallStep(c)
            <4>1. \A d \in Commands : d # c /\ CallStep(d) => pc'[c] = pc[c]
                BY CallProjection DEF CallPattern, Unleased, Joins, GivesUp, TakesLock, TakesSlot, Works, Leaves,
                    Moves, SerialInv, ControlOK
            <4>2. \A a \in Accounts : RecoveryStep(a) => pc' = pc
                BY RecoveryProjection
            <4>3. Environment => pc' = pc \/ pc'[c] \in {"idle", "done"}
                BY EnvironmentProjection DEF Dies, Survives
            <4> QED
                BY <3>1, <4>1, <4>2, <4>3 DEF Next, RecoveryStart, vars
        <3>3. pc[c] = "prepare" /\ row[K(c)] = NoRow /\ pc'[c] = "validate"
            BY <2>2, <3>2, CallRows DEF Won
        <3>4. Prepare(c)
            BY <3>1, <3>2, <3>3 DEF CallStep, ReleaseAnswered, Call, Enqueue, AcquireLock, AcquireSlot, Cancel,
                StoreFails, Replay, Lose, Validating, Read, ReadFails, GuardRefuses, AlreadyThere, BeginWrite,
                WriteSucceeds, WriteRejected, WriteUnanswered, Verify, Confirm, resolveWriteError, Return, Goto,
                SerialInv, ControlOK
        <3>5. sub'[c] = sub[c]
            BY <1>0, <3>3 DEF CallsKeep
        <3> QED
            BY <2>0, <3>3, <3>4, <3>5, PrepareObeys
    <2> QED
        BY <2>1, <2>2
<1>2. QueueOK'
    BY NextQueueOK DEF OverrideInv
<1> QED
    BY <1>1, <1>2, NextIntents, NextBorn DEF OverrideInv

\* The invariant holds initially: no call was made.
LEMMA InitOverrides == Init => OverrideInv
<1> SUFFICES ASSUME Init PROVE OverrideInv
    OBVIOUS
<1>1. now \in 0..MaxClock /\ QueueOK
    BY AccountControlAssumption DEF Init, QueueOK, CandOK
<1>2. \A c \in Commands : Formed(c)
    <2>1. 0 \in 0..MaxClock
        BY AccountControlAssumption
    <2>2. \A c \in Commands : Request[c].val \in 0..(Values - 1) /\ sub[c].intent = Intent(c, 0, Request[c].val)
        BY AccountControlAssumption DEF Init
    <2> QED
        BY <2>1, <2>2 DEF Formed
<1>3. \A k \in Keys : Born(k)
    BY DEF Init, Born
<1>4. \A c \in Commands : Obeys(c)
    BY DEF Init, Obeys, Won, Past, InSlot
<1> QED
    BY <1>1, <1>2, <1>3, <1>4 DEF OverrideInv

\* For any commands, accounts and faults: what a submission sends, steps after
\* the arbitration that let it through, is still at least as strong as every
\* override then active for the target.
THEOREM WritesObeyOverrides == Spec => []WriteObeysOverrides
<1>1. OverrideInv => WriteObeysOverrides
    <2> SUFFICES ASSUME OverrideInv, NEW c \in Commands, pc[c] \in {"write", "rewrite"}
                 PROVE  LET w == row[K(c)].win IN
                        \A k \in ActiveOn(Target(c)) \ {sub[c].revoke} :
                            LET o == row[k].intent IN o = w \/ CandidateWins(w, o) \/ Rival(o)
        BY DEF WriteObeysOverrides
    <2>1. pc[c] \in Won
        BY DEF Won, Past, InSlot
    <2>2. Obeys(c)
        BY DEF OverrideInv
    <2> QED
        BY <2>1, <2>2 DEF Obeys
<1> QED
    BY <1>1, InitSerial, NextSerial, InitJournal, NextJournal, InitOverrides, NextOverrides, PTL DEF Spec

-----------------------------------------------------------------------------
(* Commands that overlap *)

Early == {"queued", "slot", "prepare"}

\* The patterns of a call in the candidate queue: it moves inside or outside,
\* ends before it joined, joins, or ends and leaves.
QMoves(c) ==
    /\ \E l \in Labels \ {"idle", "done"} :
        /\ pc' = [pc EXCEPT ![c] = l]
        /\ l \in Leased <=> pc[c] \in Leased
        /\ l \in Early => pc[c] \in Early
        /\ pc[c] # "done"
    /\ UNCHANGED <<cand, met, outcome>>
QAborts(c) ==
    /\ pc[c] \in {"idle", "called"} /\ pc' = [pc EXCEPT ![c] = "done"]
    /\ \E st : outcome' = [outcome EXCEPT ![c] = st]
    /\ UNCHANGED <<cand, met>>
QJoins(c) ==
    /\ pc[c] = "called" /\ pc' = [pc EXCEPT ![c] = "queued"]
    /\ cand' = [cand EXCEPT ![c] = "waiting"]
    /\ met' = met \cup {{c, d} : d \in {d \in Waiting(Target(c)) : pc[d] \in Early}}
    /\ UNCHANGED outcome
QEnds(c) ==
    /\ pc[c] \in Leased /\ pc' = [pc EXCEPT ![c] = "done"]
    /\ \E st : /\ outcome' = [outcome EXCEPT ![c] = st]
               /\ Finish(c, retainQueuedCandidate(st))
               /\ \/ UNCHANGED met /\ (st \in Applied => pc[c] \in Won)
                  \/ met' = {p \in met : c \notin p}
QPattern(c) == QMoves(c) \/ QAborts(c) \/ QJoins(c) \/ QEnds(c)

\* An ending that sets the outcome st, from a call that is in its slot.
LEMMA ReturnEnds ==
    ASSUME NEW c \in Commands, NEW st, pc[c] \in Leased, Return(c, st), UNCHANGED met,
           st \in Applied => pc[c] \in Won
    PROVE  QEnds(c)
BY DEF QEnds, Return, Goto

\* Every step of a call follows one of the patterns.
LEMMA QueueProjection ==
    ASSUME ControlOK, NEW c \in Commands, CallStep(c)
    PROVE  QPattern(c)
<1> USE DEF Goto
<1>0. /\ InSlot \subseteq Leased /\ InSlot \subseteq Labels /\ {"queued", "slot"} \subseteq Leased
      /\ {"idle", "called", "done"} \cap Leased = {} /\ Won \subseteq InSlot
      /\ InSlot \cap Early = {"prepare"} /\ {"idle", "called", "done"} \cap InSlot = {}
      /\ {"error", "uncertain", "verifying"} \cap Applied = {}
    BY DEF Leased, InSlot, Labels, Won, Past, Early, Applied
<1>1. CASE ReleaseAnswered(c)
    BY <1>1 DEF ReleaseAnswered, QPattern, QAborts, history
<1>2. CASE Call(c)
    BY <1>2 DEF Call, QPattern, QMoves, history, Labels, Leased, InSlot, Early
<1>3. CASE Enqueue(c)
    BY <1>3 DEF Enqueue, QPattern, QJoins, Early
<1>4. CASE AcquireLock(c) \/ AcquireSlot(c)
    BY <1>4 DEF AcquireLock, AcquireSlot, QPattern, QMoves, history, Labels, Leased, InSlot, Early
<1>5. CASE Cancel(c)
    <2>1. retainQueuedCandidate("error") = FALSE
        BY DEF retainQueuedCandidate
    <2> QED
        BY <1>0, <1>5, <2>1 DEF Cancel, QPattern, QAborts, QEnds, history
<1>6. CASE StoreFails(c)
    BY <1>0, <1>6, ReturnEnds DEF StoreFails, QPattern, history
<1>7. CASE Replay(c)
    BY <1>0, <1>7 DEF Replay, Return, QPattern, QEnds, InSlot
<1>8. CASE Prepare(c) \/ Validating(c) \/ Read(c) \/ BeginWrite(c)
    <2>1. UNCHANGED <<cand, met, outcome>>
        BY <1>8 DEF Prepare, Validating, Read, BeginWrite, history
    <2>2. pc[c] \in InSlot /\ \E l \in InSlot \ {"prepare"} : pc' = [pc EXCEPT ![c] = l]
        BY <1>8 DEF Prepare, Validating, Read, BeginWrite, InSlot
    <2> QED
        BY <1>0, <2>1, <2>2 DEF QPattern, QMoves
<1>9. ASSUME NEW st, finishWithoutWrite(c, st), st \notin Applied, pc[c] \in InSlot, UNCHANGED met
      PROVE  QPattern(c)
    BY <1>0, <1>9, ReturnEnds DEF finishWithoutWrite, QPattern
<1>10. ASSUME markUncertain(c), pc[c] \in InSlot, UNCHANGED met PROVE QPattern(c)
    BY <1>0, <1>10, ReturnEnds DEF markUncertain, QPattern
<1>11. ASSUME NEW st, finalize(c, st), pc[c] \in Won, UNCHANGED met PROVE QPattern(c)
    BY <1>0, <1>11, ReturnEnds DEF finalize, QPattern
<1>12. CASE Lose(c) \/ ReadFails(c) \/ GuardRefuses(c)
    BY <1>9, <1>12 DEF Lose, ReadFails, GuardRefuses, history, InSlot, Applied
<1>13. CASE AlreadyThere(c)
    BY <1>11, <1>13 DEF AlreadyThere, history, Won, Past, InSlot
<1>14. CASE WriteSucceeds(c) \/ WriteUnanswered(c)
    <2>1. UNCHANGED <<cand, met, outcome>>
        BY <1>14 DEF WriteSucceeds, WriteUnanswered
    <2>2. pc[c] \in InSlot /\ \E l \in InSlot \ {"prepare"} : pc' = [pc EXCEPT ![c] = l]
        BY <1>14 DEF WriteSucceeds, WriteUnanswered, InSlot
    <2> QED
        BY <1>0, <2>1, <2>2 DEF QPattern, QMoves
<1>15. CASE WriteRejected(c)
    <2>0. UNCHANGED met /\ pc[c] \in InSlot
        BY <1>15 DEF WriteRejected, InSlot
    <2>1. CASE finishWithoutWrite(c, "failed")
        BY <1>9, <2>0, <2>1 DEF Applied
    <2>2. CASE Return(c, "error")
        BY <1>0, <2>0, <2>2, ReturnEnds DEF QPattern
    <2>3. CASE Goto(c, "confirm") /\ UNCHANGED <<journal, health, cand, lock, outcome>>
        <3>1. "confirm" \in InSlot \ {"prepare"}
            BY DEF InSlot
        <3> QED
            BY <1>0, <2>0, <2>3, <3>1 DEF QPattern, QMoves
    <2> QED
        BY <1>15, <2>1, <2>2, <2>3 DEF WriteRejected
<1>16. CASE Verify(c)
    <2>0. UNCHANGED met /\ pc[c] \in InSlot
        BY <1>16 DEF Verify, InSlot, history
    <2>1. CASE Goto(c, "confirm") /\ UNCHANGED <<cand, lock, outcome, spent>>
        <3>1. "confirm" \in InSlot \ {"prepare"}
            BY DEF InSlot
        <3> QED
            BY <1>0, <2>0, <2>1, <3>1 DEF QPattern, QMoves
    <2>2. CASE Return(c, "verifying")
        BY <1>0, <2>0, <2>2, ReturnEnds DEF QPattern
    <2> QED
        BY <1>16, <2>1, <2>2 DEF Verify
<1>17. CASE Confirm(c)
    BY <1>10, <1>11, <1>17 DEF Confirm, history, Won, Past, InSlot
<1>18. CASE resolveWriteError(c)
    <2>0. UNCHANGED met /\ pc[c] \in InSlot /\ pc[c] \in Won
        BY <1>18 DEF resolveWriteError, InSlot, history, Won, Past
    <2>1. CASE Goto(c, "rewrite") /\ UNCHANGED <<override, health, cand, lock, outcome, spent>>
        <3>1. "rewrite" \in InSlot \ {"prepare"}
            BY DEF InSlot
        <3> QED
            BY <1>0, <2>0, <2>1, <3>1 DEF QPattern, QMoves
    <2> QED
        BY <1>10, <1>11, <1>18, <2>0, <2>1 DEF resolveWriteError
<1> QED
    BY <1>1, <1>2, <1>3, <1>4, <1>5, <1>6, <1>7, <1>8, <1>12, <1>13, <1>14, <1>15, <1>16, <1>17, <1>18
    DEF CallStep

\* finish takes nobody else off the waiting list, and keeps the memory of
\* every target somebody else waits for.
LEMMA FinishEffects ==
    ASSUME CandOK, NEW c \in Commands, NEW b, Finish(c, b)
    PROVE  /\ cand'[c] # "waiting"
           /\ \A d \in Commands \ {c} : cand'[d] = "waiting" <=> cand[d] = "waiting"
           /\ \A e \in Commands \ {c} : cand[e] = "waiting" =>
                /\ \A d \in Commands \ {c} : Target(d) = Target(e) /\ cand[d] # "out" => cand'[d] # "out"
                /\ b /\ Target(e) = Target(c) => cand'[c] # "out"
<1> DEFINE others == Waiting(Target(c)) \ {c}
<1>1. \A e \in Commands \ {c} : cand[e] = "waiting" /\ Target(e) = Target(c) => others # {}
    BY DEF Waiting
<1>2. CASE b /\ others # {}
    <2>1. cand' = [cand EXCEPT ![c] = "completed"]
        BY <1>2 DEF Finish
    <2> QED
        BY <2>1 DEF CandOK
<1>3. CASE ~(b /\ others # {})
    <2>1. \A d \in Commands : cand'[d] = IF d = c \/ (others = {} /\ Target(d) = Target(c)) THEN "out" ELSE cand[d]
        BY <1>3 DEF Finish
    <2> HIDE DEF others
    <2> QED
        BY <1>1, <1>3, <2>1
<1> QED
    BY <1>2, <1>3

\* Once the weaker of two overlapping calls has won an arbitration, the
\* stronger has ended without an effect.
Ordered(c, d) ==
    LET i == sub[c].intent IN
    /\ K(c) # K(d)
    /\ pc[d] \in Won \/ outcome[d] \in Applied
    /\ CandidateWins(i, sub[d].intent) /\ ~Expired(i, now) /\ ~Rival(i)
    => pc[c] = "done" /\ outcome[c] \notin Applied

\* A call that is waiting or has applied is visible to every call that
\* overlapped it and has not been arbitrated.
Seen(c, d) == pc[d] \in Early /\ (pc[c] \in Leased \/ outcome[c] \in Applied) => cand[c] # "out"

\* Calls that overlapped: about one target, and both made.
Pair(c, d) == c # d /\ Target(c) = Target(d) /\ pc[c] \in Leased \cup {"done"}

CallQueued(c) == /\ pc[c] \in Leased <=> cand[c] = "waiting"
                 /\ pc[c] # "done" => outcome[c] = "none"

OrderInv ==
    /\ outcome = [c \in Commands |-> outcome[c]]
    /\ \A c \in Commands : CallQueued(c)
    /\ \A c, d \in Commands : {c, d} \in met => Pair(c, d) /\ Seen(c, d) /\ Ordered(c, d)

\* A command does not win against a stronger one it can see.
LEMMA WeakerLoses ==
    ASSUME SerialInv, JournalInv, OverrideInv, NEW c \in Commands, NEW d \in Commands,
           Prepare(d), pc'[d] = "validate", cand[c] # "out", K(c) # K(d), Target(c) = Target(d),
           CandidateWins(sub[c].intent, sub[d].intent), ~Expired(sub[c].intent, now),
           ~Rival(sub[c].intent)
    PROVE  FALSE
<1> DEFINE S == activeCandidates(d)
           W == Winner(now, S, Target(d))
           i == sub[c].intent
           j == sub[d].intent
<1>0. DOMAIN pc = Commands
    BY DEF SerialInv, ControlOK
<1>1. PICK w \in W : w.id = j.id
    BY <1>0 DEF Prepare, Goto
<1>2. \A x \in S : \E e \in Commands : pc[e] # "idle" /\ sub[e].intent = x
    <2>1. \A k \in ActiveOn(Target(d)) : \E e \in Commands : pc[e] # "idle" /\ sub[e].intent = row[k].intent
        BY DEF OverrideInv, Born, ActiveOn, JournalInv, KeyOK
    <2>2. \A e \in Commands : cand[e] # "out" => pc[e] # "idle"
        BY DEF OverrideInv, QueueOK
    <2>3. pc[d] # "idle"
        BY DEF Prepare
    <2> QED
        BY <2>1, <2>2, <2>3 DEF activeCandidates
<1>3. \A x \in S : IntentOK(x)
    BY <1>2, SubmissionsValid DEF OverrideInv
<1>4. i \in S /\ j \in S /\ w \in S
    BY DEF activeCandidates, Winner, Candidates, Live
<1>5. i.target = Target(d)
    BY DEF JournalInv, Shapes
<1>6. w = j
    <2>1. PICK e \in Commands : sub[e].intent = w
        BY <1>2, <1>4
    <2>2. PICK x \in 0..MaxClock, u \in 0..(Values - 1) : w = Intent(e, x, u)
        BY <2>1 DEF OverrideInv, Formed
    <2>3. PICK y \in 0..MaxClock, v \in 0..(Values - 1) : j = Intent(d, y, v)
        BY DEF OverrideInv, Formed
    <2> HIDE DEF j, W
    <2> QED
        BY <1>1, <2>2, <2>3, SameIntent
<1>7. i = w \/ CandidateWins(w, i)
    <2>1. ~ \E x \in S : x.key = i.key /\ SemanticSignature(x) # SemanticSignature(i)
        BY <1>2 DEF Rival
    <2> HIDE DEF S, i
    <2>2. ~Expired(i, now)
        BY DEF i
    <2> QED
        BY <1>3, <1>4, <1>5, <2>1, <2>2, WinnerIsStrongest
<1>8. /\ i.auth \in Authorities /\ i.created \in Int /\ i.id \in Int
      /\ j.auth \in Authorities /\ j.created \in Int /\ j.id \in Int
    <2>1. i.created \in Int /\ i.id \in Int /\ j.created \in Int /\ j.id \in Int
        BY AccountControlAssumption, SubmissionsValid DEF OverrideInv, IntentOK
    <2>2. \A e \in Commands : sub[e].intent.auth \in Authorities
        BY SubmissionsValid DEF OverrideInv
    <2> QED
        BY <2>1, <2>2
<1>9. AuthorityRank[i.auth] \in Int /\ AuthorityRank[j.auth] \in Int
    BY <1>8 DEF Authorities, AuthorityRank
<1>10. ~(i = j) /\ ~CandidateWins(j, i)
    BY <1>8, <1>9 DEF CandidateWins
<1> QED
    BY <1>6, <1>7, <1>10

\* Time and calls only take premises away.
LEMMA PremisesBack ==
    ASSUME OverrideInv, CallsKeep, now' \in Int, now <= now', NEW c \in Commands, pc[c] # "idle",
           ~Expired(sub'[c].intent, now'), ~RivalThen(sub'[c].intent)
    PROVE  sub'[c].intent = sub[c].intent /\ ~Expired(sub[c].intent, now) /\ ~Rival(sub[c].intent)
<1>1. sub'[c] = sub[c]
    BY DEF CallsKeep
<1>2. sub[c].intent.expires \in Int
    BY SubmissionsValid DEF OverrideInv
<1>3. ~Expired(sub[c].intent, now)
    BY <1>1, <1>2, AccountControlAssumption DEF Expired, OverrideInv
<1> QED
    BY <1>1, <1>3, RivalStays

\* The order of a pair survives a step in which nothing but an arbitration
\* moves the weaker call forward.
LEMMA OrderedStays ==
    ASSUME SerialInv, JournalInv, OverrideInv, OrderInv, CallsKeep, now' \in Int, now <= now',
           NEW c \in Commands, NEW d \in Commands, {c, d} \in met,
           pc[c] = "done" => pc'[c] = "done" /\ outcome'[c] = outcome[c],
           pc'[d] \in Won \/ outcome'[d] \in Applied =>
                \/ pc[d] \in Won \/ outcome[d] \in Applied
                \/ Prepare(d) /\ pc'[d] = "validate"
    PROVE  Ordered(c, d)'
<1> SUFFICES ASSUME K(c) # K(d), pc'[d] \in Won \/ outcome'[d] \in Applied,
                    CandidateWins(sub'[c].intent, sub'[d].intent),
                    ~Expired(sub'[c].intent, now'), ~RivalThen(sub'[c].intent)
             PROVE  pc'[c] = "done" /\ outcome'[c] \notin Applied
    BY DEF Ordered, Rival, RivalThen, K
<1>1. {d, c} = {c, d}
    OBVIOUS
<1>2. Pair(c, d) /\ Pair(d, c) /\ Seen(c, d) /\ Ordered(c, d)
    BY <1>1 DEF OrderInv
<1>3. pc[c] # "idle" /\ pc[d] # "idle"
    BY <1>2 DEF Pair, Leased, InSlot
<1>4. sub'[c].intent = sub[c].intent /\ ~Expired(sub[c].intent, now) /\ ~Rival(sub[c].intent)
    BY <1>3, PremisesBack
<1>5. sub'[d].intent = sub[d].intent
    BY <1>3 DEF CallsKeep
<1>6. CASE pc[d] \in Won \/ outcome[d] \in Applied
    <2>1. pc[c] = "done" /\ outcome[c] \notin Applied
        BY <1>2, <1>4, <1>5, <1>6 DEF Ordered
    <2> QED
        BY <2>1
<1>7. CASE Prepare(d) /\ pc'[d] = "validate"
    <2>1. cand[c] # "out" => FALSE
        BY <1>2, <1>4, <1>5, <1>7, WeakerLoses DEF Pair
    <2>2. pc[d] \in Early
        BY <1>7 DEF Prepare, Early
    <2> QED
        BY <1>2, <2>1, <2>2 DEF Seen, Pair
<1> QED
    BY <1>6, <1>7

\* A step of a call keeps the order of the pairs.
LEMMA CallOrder ==
    ASSUME SerialInv, JournalInv, OverrideInv, OrderInv, CallsKeep, UNCHANGED now,
           NEW e \in Commands, CallStep(e)
    PROVE  OrderInv'
<1>0. /\ DOMAIN pc = Commands /\ DOMAIN outcome = Commands /\ DOMAIN cand = Commands
      /\ CandOK /\ ControlOK /\ now' \in Int /\ now <= now'
    BY AccountControlAssumption DEF SerialInv, ControlOK, OrderInv, OverrideInv, QueueOK, CandOK
<1>1. QPattern(e)
    BY <1>0, QueueProjection
<1>2. /\ {"idle", "called", "done"} \cap Leased = {} /\ Early \subseteq Leased /\ Won \subseteq Leased
      /\ "queued" \in Early /\ Won \cap Early = {} /\ "done" \notin Won /\ "none" \notin Applied
      /\ \A st \in Applied : retainQueuedCandidate(st)
    BY DEF Leased, InSlot, Early, Won, Past, Applied, retainQueuedCandidate
<1>3. /\ outcome' = [c \in Commands |-> outcome'[c]]
      /\ \A c \in Commands \ {e} : pc'[c] = pc[c] /\ outcome'[c] = outcome[c]
      /\ pc[e] # "done"
    BY <1>0, <1>1, <1>2 DEF QPattern, QMoves, QAborts, QJoins, QEnds, Leased, InSlot, OrderInv
<1>4. \A c \in Commands : CallQueued(c)
    BY DEF OrderInv
<1>5. ASSUME NEW c \in Commands, NEW d \in Commands, {c, d} \in met
      PROVE  Pair(c, d) /\ Pair(d, c) /\ Seen(c, d)
    <2>1. {d, c} = {c, d}
        OBVIOUS
    <2> QED
        BY <1>5, <2>1 DEF OrderInv
<1>6. pc'[e] \in Won /\ pc[e] \notin Won => Prepare(e) /\ pc'[e] = "validate"
    <2> SUFFICES ASSUME pc'[e] \in Won, pc[e] \notin Won PROVE Prepare(e) /\ pc'[e] = "validate"
        OBVIOUS
    <2>1. pc[e] = "prepare" /\ pc'[e] = "validate"
        BY CallRows DEF Won
    <2> QED
        BY <2>1 DEF CallStep, ReleaseAnswered, Call, Enqueue, AcquireLock, AcquireSlot, Cancel,
            StoreFails, Replay, Lose, Validating, Read, ReadFails, GuardRefuses, AlreadyThere, BeginWrite,
            WriteSucceeds, WriteRejected, WriteUnanswered, Verify, Confirm, resolveWriteError, Return, Goto,
            SerialInv, ControlOK
<1>7. ASSUME NEW c \in Commands, NEW d \in Commands, {c, d} \in met, {c, d} \in met'
      PROVE  Ordered(c, d)'
    <2>1. outcome'[d] \in Applied => outcome[d] \in Applied \/ pc[d] \in Won
        <3>1. CASE d # e
            BY <1>3, <3>1
        <3>2. ASSUME d = e, QEnds(e) PROVE outcome'[d] \in Applied => pc[d] \in Won
            BY <1>0, <1>7, <3>2 DEF QEnds
        <3>3. ASSUME d = e, QAborts(e) PROVE FALSE
            BY <1>2, <1>5, <1>7, <3>3 DEF QAborts, Pair
        <3>4. ASSUME QMoves(e) \/ QJoins(e) PROVE outcome' = outcome
            BY <3>4 DEF QMoves, QJoins
        <3> QED
            BY <1>1, <3>1, <3>2, <3>3, <3>4 DEF QPattern
    <2>2. pc'[d] \in Won => pc[d] \in Won \/ (Prepare(d) /\ pc'[d] = "validate")
        BY <1>3, <1>6
    <2>3. pc[c] = "done" => pc'[c] = "done" /\ outcome'[c] = outcome[c]
        BY <1>3
    <2> QED
        BY <1>0, <1>7, <2>1, <2>2, <2>3, OrderedStays
<1> USE DEF Pair, Seen, CallQueued
<1>8. CASE QMoves(e)
    <2>1. PICK l : /\ pc' = [pc EXCEPT ![e] = l] /\ (l \in Leased <=> pc[e] \in Leased)
                   /\ (l \in Early => pc[e] \in Early) /\ l # "done"
        BY <1>8 DEF QMoves
    <2>2. UNCHANGED <<cand, met, outcome>> /\ pc'[e] = l
        BY <1>0, <1>8, <2>1 DEF QMoves
    <2>3. \A c \in Commands : CallQueued(c)'
        BY <1>3, <1>4, <2>1, <2>2
    <2>4. ASSUME NEW c \in Commands, NEW d \in Commands, {c, d} \in met PROVE Pair(c, d)' /\ Seen(c, d)'
        <3>1. Pair(c, d)'
            BY <1>2, <1>3, <1>5, <2>1, <2>2, <2>4 DEF Target
        <3>2. Seen(c, d)'
            BY <1>3, <1>5, <2>1, <2>2, <2>4
        <3> QED
            BY <3>1, <3>2
    <2> QED
        BY <1>3, <1>7, <2>2, <2>3, <2>4 DEF OrderInv
<1>9. CASE QAborts(e)
    <2>1. UNCHANGED <<cand, met>> /\ pc'[e] = "done" /\ pc[e] \in {"idle", "called"}
        BY <1>0, <1>9 DEF QAborts
    <2>2. \A c \in Commands : CallQueued(c)'
        BY <1>2, <1>3, <1>4, <2>1
    <2>3. ASSUME NEW c \in Commands, NEW d \in Commands, {c, d} \in met PROVE Pair(c, d)' /\ Seen(c, d)'
        <3>1. c # e /\ d # e
            BY <1>2, <1>5, <2>1, <2>3
        <3> QED
            BY <1>3, <1>5, <2>1, <2>3, <3>1 DEF Target
    <2> QED
        BY <1>3, <1>7, <2>1, <2>2, <2>3 DEF OrderInv
<1>10. CASE QJoins(e)
    <2>1. /\ UNCHANGED outcome /\ pc[e] = "called" /\ pc'[e] = "queued" /\ cand'[e] = "waiting"
          /\ \A c \in Commands \ {e} : cand'[c] = cand[c]
          /\ met' = met \cup {{e, d} : d \in {d \in Waiting(Target(e)) : pc[d] \in Early}}
        BY <1>0, <1>10 DEF QJoins
    <2>2. \A c \in Commands : CallQueued(c)'
        BY <1>2, <1>3, <1>4, <2>1
    <2>3. ASSUME NEW c \in Commands, NEW d \in Commands, {c, d} \in met
          PROVE  Pair(c, d)' /\ Seen(c, d)' /\ Ordered(c, d)'
        <3>1. c # e /\ d # e
            BY <1>2, <1>5, <2>1, <2>3
        <3>2. Pair(c, d)' /\ Seen(c, d)'
            BY <1>3, <1>5, <2>1, <2>3, <3>1 DEF Target
        <3> QED
            BY <1>7, <2>1, <2>3, <3>2
    <2>4. ASSUME NEW f \in Waiting(Target(e)), pc[f] \in Early, NEW c \in Commands, NEW d \in Commands,
                 {c, d} = {e, f}
          PROVE  Pair(c, d)' /\ Seen(c, d)' /\ Ordered(c, d)'
        <3>1. f \in Commands /\ f # e /\ Target(f) = Target(e) /\ cand[f] = "waiting"
            BY <1>2, <2>1, <2>4 DEF Waiting
        <3>2. (c = e /\ d = f) \/ (c = f /\ d = e)
            BY <2>4, <3>1
        <3>3. pc'[e] = "queued" /\ pc'[f] = pc[f] /\ cand'[e] = "waiting" /\ cand'[f] = "waiting"
            BY <1>3, <2>1, <3>1
        <3>4. outcome'[e] = "none" /\ outcome'[f] = "none"
            <4>1. pc[f] # "done" /\ pc[e] # "done"
                BY <1>2, <2>1, <2>4
            <4> QED
                BY <1>4, <2>1, <3>1, <4>1
        <3>5. pc'[e] \notin Won /\ pc'[f] \notin Won
            BY <1>2, <2>4, <3>3
        <3>6. Pair(c, d)' /\ Seen(c, d)'
            BY <1>2, <2>4, <3>1, <3>2, <3>3 DEF Target
        <3>7. Ordered(c, d)'
            BY <1>2, <3>2, <3>4, <3>5 DEF Ordered
        <3> QED
            BY <3>6, <3>7
    <2>5. ASSUME NEW c \in Commands, NEW d \in Commands, {c, d} \in met'
          PROVE  Pair(c, d)' /\ Seen(c, d)' /\ Ordered(c, d)'
        <3>1. {c, d} \in met \/ \E f \in Waiting(Target(e)) : pc[f] \in Early /\ {c, d} = {e, f}
            BY <2>1, <2>5
        <3> QED
            BY <2>3, <2>4, <3>1
    <2> QED
        BY <1>3, <2>2, <2>5 DEF OrderInv
<1>11. CASE QEnds(e)
    <2>1. PICK st : /\ outcome' = [outcome EXCEPT ![e] = st] /\ Finish(e, retainQueuedCandidate(st))
        BY <1>11 DEF QEnds
    <2>2. pc'[e] = "done" /\ outcome'[e] = st /\ pc[e] \in Leased /\ met' \subseteq met
        BY <1>0, <1>11, <2>1 DEF QEnds
    <2> DEFINE b == retainQueuedCandidate(st)
    <2>3. /\ cand'[e] # "waiting"
          /\ \A d \in Commands \ {e} : cand'[d] = "waiting" <=> cand[d] = "waiting"
          /\ \A f \in Commands \ {e} : cand[f] = "waiting" =>
                /\ \A d \in Commands \ {e} : Target(d) = Target(f) /\ cand[d] # "out" => cand'[d] # "out"
                /\ b /\ Target(f) = Target(e) => cand'[e] # "out"
        <3>1. Finish(e, b)
            BY <2>1
        <3> HIDE DEF b
        <3> QED
            BY <1>0, <3>1, FinishEffects
    <2>4. \A c \in Commands : CallQueued(c)'
        BY <1>2, <1>3, <1>4, <2>2, <2>3
    <2>5. ASSUME NEW c \in Commands, NEW d \in Commands, {c, d} \in met PROVE Pair(c, d)' /\ Seen(c, d)'
        <3>1. Pair(c, d) /\ Seen(c, d)
            BY <1>5, <2>5
        <3>2. Pair(c, d)'
            BY <1>3, <2>2, <3>1 DEF Target
        <3>3. Seen(c, d)'
            <4> SUFFICES ASSUME pc'[d] \in Early, pc'[c] \in Leased \/ outcome'[c] \in Applied
                         PROVE  cand'[c] # "out"
                OBVIOUS
            <4>1. d # e /\ pc[d] \in Early /\ cand[d] = "waiting"
                BY <1>2, <1>3, <1>4, <2>2
            <4>2. CASE c = e
                <5>1. st \in Applied
                    BY <1>2, <2>2, <4>2
                <5> QED
                    BY <1>2, <2>3, <3>1, <4>1, <4>2, <5>1
            <4>3. CASE c # e
                <5>1. cand[c] # "out"
                    BY <1>3, <3>1, <4>1, <4>3
                <5> QED
                    BY <2>3, <3>1, <4>1, <4>3, <5>1
            <4> QED
                BY <4>2, <4>3
        <3> QED
            BY <3>2, <3>3
    <2> QED
        BY <1>3, <1>7, <2>2, <2>4, <2>5 DEF OrderInv
<1> QED
    BY <1>1, <1>8, <1>9, <1>10, <1>11 DEF QPattern

\* A step that moves no call keeps the order of the pairs; so does a crash.
LEMMA QuietOrder ==
    ASSUME SerialInv, JournalInv, OverrideInv, OrderInv, CallsKeep, now' \in Int, now <= now',
           UNCHANGED <<met, outcome>>,
           \/ UNCHANGED <<pc, cand>>
           \/ /\ pc' = [c \in Commands |-> IF pc[c] = "idle" THEN "idle" ELSE "done"]
              /\ cand' = [c \in Commands |-> "out"]
    PROVE  OrderInv'
<1>0. {"idle", "done"} \cap (Leased \cup Early \cup Won) = {}
    BY DEF Leased, InSlot, Early, Won, Past
<1>1. \A c \in Commands : pc'[c] = pc[c] \/ pc'[c] = IF pc[c] = "idle" THEN "idle" ELSE "done"
    OBVIOUS
<1>2. \A c \in Commands : CallQueued(c)'
    BY <1>0 DEF OrderInv, CallQueued
<1>3. ASSUME NEW c \in Commands, NEW d \in Commands, {c, d} \in met
      PROVE  Pair(c, d)' /\ Seen(c, d)' /\ Ordered(c, d)'
    <2>1. Pair(c, d) /\ Seen(c, d)
        BY <1>3 DEF OrderInv
    <2>2. Pair(c, d)'
        BY <1>0, <2>1 DEF Pair, Target
    <2>3. Seen(c, d)'
        BY <1>0, <1>1, <2>1 DEF Seen
    <2>4. Ordered(c, d)'
        BY <1>0, <1>1, <1>3, OrderedStays
    <2> QED
        BY <2>2, <2>3, <2>4
<1> QED
    BY <1>2, <1>3 DEF OrderInv

\* The order of the pairs is inductive.
LEMMA NextOrder == SerialInv /\ JournalInv /\ OverrideInv /\ OrderInv /\ [Next]_vars => OrderInv'
<1> SUFFICES ASSUME SerialInv, JournalInv, OverrideInv, OrderInv, [Next]_vars PROVE OrderInv'
    OBVIOUS
<1>0. CallsKeep /\ now \in Int /\ now' \in Int
    BY NextCalls, NextIntents, AccountControlAssumption DEF OverrideInv
<1>1. ASSUME NEW c \in Commands, CallStep(c) PROVE OrderInv'
    <2>1. UNCHANGED now
        BY <1>1 DEF CallStep, ReleaseAnswered, Call, Enqueue, AcquireLock, AcquireSlot, Cancel, StoreFails,
            Replay, Prepare, Lose, Validating, Read, ReadFails, GuardRefuses, AlreadyThere, BeginWrite,
            WriteSucceeds, WriteRejected, WriteUnanswered, Verify, Confirm, resolveWriteError, clock
    <2> QED
        BY <1>0, <1>1, <2>1, CallOrder
<1>2. ASSUME NEW a \in Accounts, RecoveryStep(a) PROVE OrderInv'
    <2>1. UNCHANGED <<now, pc, cand, met, outcome>>
        BY <1>2 DEF RecoveryStep, RecoveryLock, RecoverySlot, RecoveryFails, RecoverySkips, RecoveryExamine,
            RecoveryWrites, RecoveryConfirms, history, clock
    <2> QED
        BY <1>0, <2>1, QuietOrder
<1>3. CASE Crash
    <2>1. UNCHANGED <<now, met, outcome>>
        BY <1>3 DEF Crash, history
    <2>2. /\ pc' = [c \in Commands |-> IF pc[c] = "idle" THEN "idle" ELSE "done"]
          /\ cand' = [c \in Commands |-> "out"]
        BY <1>3 DEF Crash
    <2> QED
        BY <1>0, <2>1, <2>2, QuietOrder
<1>4. ASSUME Environment, ~Crash PROVE OrderInv'
    <2>1. UNCHANGED <<pc, cand, met, outcome>>
        BY <1>4 DEF Environment, Tick, ExpireOverrides, PublishFreeze, FreezeLapses, LateWrite,
            OutsideChange, LocksChange, history
    <2>2. now' = now \/ now' = now + 1
        BY <1>4 DEF Environment, Tick, ExpireOverrides, PublishFreeze, FreezeLapses, LateWrite,
            OutsideChange, LocksChange, clock
    <2>3. now <= now'
        BY <1>0, <2>2
    <2> QED
        BY <1>0, <2>1, <2>3, QuietOrder
<1>5. CASE RecoveryStart \/ UNCHANGED vars
    <2>1. UNCHANGED <<now, pc, cand, met, outcome>>
        BY <1>5 DEF RecoveryStart, vars, history, clock
    <2> QED
        BY <1>0, <2>1, QuietOrder
<1> QED
    BY <1>1, <1>2, <1>3, <1>4, <1>5 DEF Next

\* For any commands, accounts and faults: of two commands that waited together
\* the weaker never applies beside the stronger, whoever got the lock first.
THEOREM OverlapsKeepOrder == Spec => []OverlapOrder
<1>1. Init => OrderInv
    BY DEF Init, OrderInv, CallQueued, Leased, InSlot
<1>2. OrderInv => OverlapOrder
    <2> SUFFICES ASSUME OrderInv, NEW c \in Commands, NEW d \in Commands, {c, d} \in met, K(c) # K(d),
                        {outcome[c], outcome[d]} \subseteq {"applied", "applied_noop"},
                        CandidateWins(sub[c].intent, sub[d].intent), ~Expired(sub[c].intent, now),
                        ~Rival(sub[c].intent)
                 PROVE  FALSE
        BY DEF OverlapOrder
    <2>1. Ordered(c, d)
        BY DEF OrderInv
    <2> QED
        BY <2>1 DEF Ordered, Applied
<1> QED
    BY <1>1, <1>2, InitSerial, NextSerial, InitJournal, NextJournal, InitOverrides, NextOverrides, NextOrder,
       PTL DEF Spec
=============================================================================
