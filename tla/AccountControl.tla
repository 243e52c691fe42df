--------------------------- MODULE AccountControl ---------------------------
(***************************************************************************)
(* The single writer of account state: accountcontrol.Service               *)
(* (internal/accountcontrol), its journal and override tables               *)
(* (internal/store/accountcontrol.go), and the part of reconcile.Engine     *)
(* that builds submissions (internal/reconcile/account_control.go).         *)
(*                                                                         *)
(* A command is one call of an Engine entry point (ManualPause,             *)
(* ManualResume, ReleaseManualHold, a policy decision, an agent action).    *)
(* Two commands with equal requests are a command and its retry.  A call    *)
(* moves through program counters that name what it does next; each step    *)
(* is one store transaction, one critical section or one network exchange   *)
(* together with the bookkeeping transaction that depends only on it.       *)
(*                                                                         *)
(* A journal row is named by its request idempotency key, and so is the     *)
(* override that was prepared with it: there is at most one of each.        *)
(***************************************************************************)
EXTENDS Arbiter, FiniteSets

CONSTANTS
    Commands,           \* calls, positive integers
    Request,            \* what each call asks for
    Accounts,
    Values,             \* above every value a call asks for; numbers the intents
    MaxSlots,           \* maxConcurrentAccountMutations
    MaxClock,           \* bound on time
    MaxDisturbances     \* bound on faults and changes from outside

ASSUME AccountControlAssumption ==
    /\ Commands \subseteq Nat \ {0} /\ IsFiniteSet(Commands)
    /\ IsFiniteSet(Accounts)
    /\ Values \in Nat /\ Values > 1
    /\ MaxSlots \in Nat \ {0}
    /\ MaxClock \in Nat
    /\ MaxDisturbances \in Nat
    /\ \A c \in Commands : /\ Request[c].acct \in Accounts
                           /\ Request[c].key \in Nat \ {0}
                           /\ Request[c].ttl \in Nat
                           /\ Request[c].val \in 0..(Values - 1)
                           /\ Request[c].auth \in Authorities
                           /\ Request[c].auth \in MustExpire => Request[c].ttl # 0

VARIABLES
    row, override,      \* account_mutations and account_overrides, by key
    upstream,           \* the account state Sub2API holds
    late,               \* writes without an answer that may still land
    held,               \* accounts under a credential, rate, balance or cost lock
    health,             \* accounts whose stored control row says HealthLocked
    mode,               \* the effective freeze mode
    now, spent,         \* the clock, and the disturbances so far
    pc, sub, control,   \* each call: where it is, its submission, the control row it loaded
    cand, lock,         \* candidateQueue and accountLocks
    todo, rpc, rkey,    \* recovery, per account: rows to visit, where it is, its row
    rcontrol,           \* and the control row it loaded
    writes, met, outcome \* history: write calls per row, calls that overlapped, results

journal == <<row, override>>
world == <<upstream, late, held, health, mode>>
clock == <<now, spent>>
calls == <<sub, control>>
recovery == <<todo, rpc, rkey, rcontrol>>
history == <<writes, met>>
vars == <<row, override, upstream, late, held, health, mode, now, spent, pc, sub, control,
          cand, lock, todo, rpc, rkey, rcontrol, writes, met, outcome>>

Keys == {Request[c].key : c \in Commands}
K(c) == Request[c].key
Acct(c) == Request[c].acct
Target(c) == <<Request[c].acct, Request[c].op>>

\* MutationStatus.Terminal
Pending == {"prepared", "validating", "executing", "verifying", "uncertain"}
Terminal == {"applied", "applied_noop", "blocked", "failed", "superseded", "expired"}
Unsent == {"prepared", "validating"}
Modes == {"active", "agent_paused", "read_only", "writes_frozen"}
MaxAttempts == 2
Free == 0
Recovery == -1          \* the recovery pass as a holder of locks and leases
None == 0               \* no override to revoke
NoRow == [status |-> "none"]
NoState == [sched |-> -1, load |-> -1]      \* mutation.Before is nil

-----------------------------------------------------------------------------
(* Intents, and the state they ask for.  A load factor of 0 is "not         *)
(* configured" (nil), which counts as 100.                                   *)

\* Equal requests made at the same time have the same identity: mapped()
\* digests the key and the semantics.
Identity(c, created, val) ==
    ((CHOOSE d \in Commands : Request[d] = Request[c]) * (MaxClock + 1) + created) * Values + val

Intent(c, created, val) ==
    LET r == Request[c] IN
    [id |-> Identity(c, created, val), key |-> r.ikey, target |-> Target(c), val |-> val,
     auth |-> r.auth, producer |-> r.producer, reason |-> r.reason, created |-> created,
     expires |-> IF r.ttl = 0 THEN NoExpiry ELSE created + r.ttl]

\* The signature a row is compared by: a release names the command, every
\* other submission its intent.
Signature(c, i) == IF Request[c].revokes = "must" THEN <<"release", Acct(c)>>
                                                  ELSE SemanticSignature(i)

accountMatchesIntent(state, i) == state[i.target[2]] = i.val

unsafeTarget(i, state) ==
    CASE i.target[2] = "sched" -> i.val = 1
      [] i.target[2] = "load" ->
            IF i.val = 0 THEN state.load # 0
            ELSE i.val > (IF state.load = 0 THEN 100 ELSE state.load)

\* What the freeze modes forbid (the first half of checkSafety).
Forbidden(i, m) ==
    \/ m = "writes_frozen"
    \/ i.producer = "agent_operator" /\ m \in {"agent_paused", "read_only"}
    \/ i.auth = "active_policy" /\ m = "read_only"

\* checkSafety refuses.  The locks are read again here; the health lock is
\* the one in the control row loaded earlier.  stale stands for stale
\* telemetry or an active cooldown.
Blocked(i, state, healthLocked, stale) ==
    \/ Forbidden(i, mode)
    \/ unsafeTarget(i, state) /\ (i.target[1] \in held \/ healthLocked)
    \/ i.auth \in {"active_policy", "autonomous_agent"} /\ stale

-----------------------------------------------------------------------------
(* Who holds what *)

InSlot == {"prepare", "superseded", "expired", "validate", "read", "guard", "write",
           "written", "confirm", "resolve", "rewrite"}
Leased == {"queued", "slot"} \cup InSlot
RecInSlot == {"examine", "write", "written"}

Recovering == \E a \in Accounts : todo[a] # {} \/ rpc[a] # "idle"
leases == {c \in Commands : pc[c] \in Leased} \cup (IF Recovering THEN {Recovery} ELSE {})
SlotsInUse == Cardinality({c \in Commands : pc[c] \in InSlot})
                + Cardinality({a \in Accounts : rpc[a] \in RecInSlot})

Disturb == spent < MaxDisturbances /\ spent' = spent + 1

Goto(c, l) == pc' = [pc EXCEPT ![c] = l]

Init ==
    /\ row = [k \in Keys |-> NoRow]
    /\ override = [k \in Keys |-> "none"]
    /\ upstream \in [Accounts -> [sched : {0, 1}, load : {0}]]
    /\ late = {} /\ held = {} /\ health = {}
    /\ mode = "active" /\ now = 0 /\ spent = 0
    /\ pc = [c \in Commands |-> "idle"]
    /\ sub = [c \in Commands |-> [intent |-> Intent(c, 0, Request[c].val), revoke |-> None]]
    /\ control = [c \in Commands |-> FALSE]
    /\ cand = [c \in Commands |-> "out"]
    /\ lock = [a \in Accounts |-> Free]
    /\ todo = [a \in Accounts |-> {}]
    /\ rpc = [a \in Accounts |-> "idle"]
    /\ rkey = [a \in Accounts |-> None]
    /\ rcontrol = [a \in Accounts |-> FALSE]
    /\ writes = [k \in Keys |-> 0]
    /\ met = {}
    /\ outcome = [c \in Commands |-> "none"]

-----------------------------------------------------------------------------
(* Store transactions *)

\* Slip: the mutation's status is stored as the override's.
OverrideStatusFor_Raw(st) == st

\* OverrideStatus that goes with a mutation's final status.
OverrideStatusFor(st) ==
    CASE st \in {"applied", "applied_noop"} -> "active"
      [] st \in {"blocked", "superseded", "expired"} -> st
      [] OTHER -> "failed"

ActiveOn(target) == {k \in Keys : override[k] = "active" /\ row[k].intent.target = target}

\* expireAccountOverrides and ExpireActiveAccountOverrides
Expire(S) == [k \in Keys |-> IF k \in S /\ Expired(row[k].intent, now) THEN "expired"
                             ELSE override[k]]

\* UpdateAccountMutation
Save(k, st) == row' = [row EXCEPT ![k].status = st]

\* Slip: the override is left out of the final transaction.
FinalizeAccountMutation_RowOnly(k, st, ov, revoke) == Save(k, st) /\ UNCHANGED override

\* FinalizeAccountMutation: the row, its own override and the override it
\* revokes, in one transaction.
FinalizeAccountMutation(k, st, ov, revoke) ==
    /\ Save(k, st)
    /\ override' = [j \in Keys |->
            IF j = k THEN (IF override[k] = "none" THEN "none" ELSE ov)
            ELSE IF j = revoke /\ override[j] = "active" THEN "revoked" ELSE override[j]]

-----------------------------------------------------------------------------
(* candidateQueue.finish, and the deferred releases of Submit *)

Waiting(target) == {d \in Commands : cand[d] = "waiting" /\ Target(d) = target}

\* Slip: completed candidates are not swept with the last waiter.
Finish_NoSweep(c, retain) ==
    cand' = [cand EXCEPT ![c] = IF retain /\ Waiting(Target(c)) \ {c} # {} THEN "completed" ELSE "out"]

Finish(c, retain) ==
    LET others == Waiting(Target(c)) \ {c} IN
    cand' = IF retain /\ others # {} THEN [cand EXCEPT ![c] = "completed"]
            ELSE [d \in Commands |->
                    IF d = c \/ (others = {} /\ Target(d) = Target(c)) THEN "out" ELSE cand[d]]

\* Slip: only an unfinished mutation is worth remembering.
retainQueuedCandidate_Unfinished(st) == st \in {"executing", "verifying", "uncertain"}

retainQueuedCandidate(st) == st \in {"applied", "applied_noop", "executing", "verifying", "uncertain"}

\* Slip: the account lock is not released on the way out.
Return_KeepsLock(c, st) ==
    /\ Finish(c, retainQueuedCandidate(st))
    /\ UNCHANGED lock
    /\ Goto(c, "done")
    /\ outcome' = [outcome EXCEPT ![c] = st]

\* Submit returns: slot, candidate, account lock and lease are given back.
Return(c, st) ==
    /\ Finish(c, retainQueuedCandidate(st))
    /\ lock' = [lock EXCEPT ![Acct(c)] = Free]
    /\ Goto(c, "done")
    /\ outcome' = [outcome EXCEPT ![c] = st]

finishWithoutWrite(c, st) ==
    /\ FinalizeAccountMutation(K(c), st, OverrideStatusFor(st), None)
    /\ Return(c, st)
    /\ UNCHANGED health

markUncertain(c) ==
    /\ Save(K(c), "uncertain")
    /\ Return(c, "uncertain")
    /\ UNCHANGED <<override, health>>

\* finalize.  The control row that was loaded before the write is stored back
\* whole.  When the transaction fails the row is saved as verifying, if even
\* that works.
finalize(c, st) ==
    \/ /\ FinalizeAccountMutation(K(c), st, "active", row[K(c)].revoke)
       /\ health' = IF control[c] THEN health \cup {Acct(c)} ELSE health \ {Acct(c)}
       /\ Return(c, st)
       /\ UNCHANGED spent
    \/ /\ Disturb
       /\ \E s \in {row[K(c)].status, "verifying"} : Save(K(c), s)
       /\ Return(c, "verifying")
       /\ UNCHANGED <<override, health>>

-----------------------------------------------------------------------------
(* Building a submission: the Engine's entry points *)

\* FindActiveOverride for a ManualHold: the newest one.
Holds(target) == {k \in ActiveOn(target) : /\ row[k].intent.auth = "manual_hold"
                                           /\ ~Expired(row[k].intent, now)}
NewestHold(target) ==
    IF Holds(target) = {} THEN None
    ELSE CHOOSE k \in Holds(target) : \A j \in Holds(target) :
            row[j].intent.created <= row[k].intent.created

\* ReleaseManualHoldCommand answers from the journal, or has nothing to release.
ReleaseAnswered(c) ==
    /\ pc[c] = "idle"
    /\ Request[c].revokes = "must"
    /\ row[K(c)] # NoRow \/ NewestHold(Target(c)) = None
    /\ Goto(c, "done")
    /\ outcome' = [outcome EXCEPT ![c] =
            IF row[K(c)] # NoRow /\ row[K(c)].sig = Signature(c, sub[c].intent) THEN row[K(c)].status
            ELSE "error"]
    /\ UNCHANGED <<journal, world, clock, calls, cand, lock, recovery, history>>

\* A policy decision is created at the watermark of its observation, an agent
\* action when its command was recorded, every other command now.
CreatedAt(c) ==
    IF Request[c].auth = "active_policy" \/ Request[c].producer = "agent_operator" THEN 0..now ELSE {now}

\* A release asks for what the policy wants by the locks in the last snapshot,
\* which may be out of date: either state.
DesiredBy(c) == IF Request[c].revokes = "must" THEN {0, 1} ELSE {Request[c].val}

\* submitConverted lets a retry that finds the row of its command adopt the
\* recorded lifetime when nothing else differs.
Call(c) ==
    /\ pc[c] = "idle"
    /\ Request[c].revokes = "must" => row[K(c)] = NoRow /\ NewestHold(Target(c)) # None
    /\ \E created \in CreatedAt(c), val \in DesiredBy(c) :
        LET recorded == row[K(c)].intent
            adopted == /\ Request[c].auth # "active_policy"
                       /\ row[K(c)] # NoRow
                       /\ recorded = Intent(c, recorded.created, val)
        IN sub' = [sub EXCEPT ![c] =
                    [intent |-> IF adopted THEN recorded ELSE Intent(c, created, val),
                     revoke |-> IF Request[c].revokes = "no" THEN None
                                ELSE NewestHold(Target(c))]]
    /\ Goto(c, "called")
    /\ UNCHANGED <<journal, world, clock, control, cand, lock, recovery, history, outcome>>

-----------------------------------------------------------------------------
(* Submit, up to the slot *)

\* The barrier lease, then candidateQueue.add.
Enqueue(c) ==
    /\ pc[c] = "called"
    /\ cand' = [cand EXCEPT ![c] = "waiting"]
    /\ met' = met \cup {{c, d} : d \in {d \in Waiting(Target(c)) :
                                            pc[d] \in {"queued", "slot", "prepare"}}}
    /\ Goto(c, "queued")
    /\ UNCHANGED <<journal, world, clock, calls, lock, recovery, writes, outcome>>

AcquireLock(c) ==
    /\ pc[c] = "queued"
    /\ lock[Acct(c)] = Free
    /\ lock' = [lock EXCEPT ![Acct(c)] = c]
    /\ Goto(c, "slot")
    /\ UNCHANGED <<journal, world, clock, calls, cand, recovery, history, outcome>>

AcquireSlot(c) ==
    /\ pc[c] = "slot"
    /\ SlotsInUse < MaxSlots
    /\ Goto(c, "prepare")
    /\ UNCHANGED <<journal, world, clock, calls, cand, lock, recovery, history, outcome>>

\* Slip: a cancelled wait returns a token it never took.
Cancel_ReturnsToken(c) ==
    /\ pc[c] \in {"called", "queued", "slot"}
    /\ Disturb
    /\ IF pc[c] = "called" THEN UNCHANGED cand ELSE Finish(c, FALSE)
    /\ lock' = [lock EXCEPT ![Acct(c)] = Free]
    /\ Goto(c, "done")
    /\ outcome' = [outcome EXCEPT ![c] = "error"]
    /\ UNCHANGED <<journal, world, now, calls, recovery, history>>

\* The caller's context ends while it waits.
Cancel(c) ==
    /\ pc[c] \in {"called", "queued", "slot"}
    /\ Disturb
    /\ IF pc[c] = "called" THEN UNCHANGED cand ELSE Finish(c, FALSE)
    /\ lock' = IF pc[c] = "slot" THEN [lock EXCEPT ![Acct(c)] = Free] ELSE lock
    /\ Goto(c, "done")
    /\ outcome' = [outcome EXCEPT ![c] = "error"]
    /\ UNCHANGED <<journal, world, now, calls, recovery, history>>

-----------------------------------------------------------------------------
(* submitLocked *)

\* Some transaction of the step fails: nothing is stored, Submit returns an
\* error and the candidate is not retained.
StoreFails(c) ==
    /\ pc[c] \in InSlot \ {"write", "rewrite", "written"}
    /\ Disturb
    /\ Return(c, "error")
    /\ UNCHANGED <<journal, world, now, calls, recovery, history>>

\* The key was used before: the recorded result, or an idempotency conflict.
\* The call competes with nobody.
Replay(c) ==
    /\ pc[c] = "prepare"
    /\ row[K(c)] # NoRow
    /\ Return(c, IF row[K(c)].sig = Signature(c, sub[c].intent) THEN row[K(c)].status ELSE "error")
    /\ met' = {p \in met : c \notin p}
    /\ UNCHANGED <<journal, world, clock, calls, recovery, writes>>

\* Slip: only what is queued now is arbitrated.
activeCandidates_QueueOnly(c) ==
    {sub[d].intent : d \in {d \in Commands : cand[d] # "out" /\ Target(d) = Target(c) /\ K(d) # K(c)}}
    \cup {sub[c].intent}

\* activeCandidates: durable overrides, queued or just completed commands
\* under another key, and the submission itself.
activeCandidates(c) ==
    {row[k].intent : k \in {k \in ActiveOn(Target(c)) \ {sub[c].revoke} : ~Expired(row[k].intent, now)}}
    \cup {sub[d].intent : d \in {d \in Commands : /\ cand[d] # "out"
                                                 /\ Target(d) = Target(c)
                                                 /\ K(d) # K(c)}}
    \cup {sub[c].intent}

\* PrepareAccountMutation: the row and its pending override, with the winner
\* of the arbitration, in one transaction.
Prepare(c) ==
    LET mine == sub[c].intent
        winner == Winner(now, activeCandidates(c), Target(c))
        decision == IF winner # {} THEN (IF \E w \in winner : w.id = mine.id THEN "validate" ELSE "superseded")
                    ELSE IF Expired(mine, now) THEN "expired" ELSE "superseded"
    IN
    /\ pc[c] = "prepare"
    /\ row[K(c)] = NoRow
    /\ row' = [row EXCEPT ![K(c)] =
                [status |-> "prepared", attempts |-> 0, before |-> NoState, intent |-> mine,
                 win |-> IF winner = {} THEN mine ELSE CHOOSE w \in winner : TRUE,
                 sig |-> Signature(c, mine), revoke |-> sub[c].revoke, stale |-> Request[c].stale]]
    /\ override' = [Expire(ActiveOn(Target(c))) EXCEPT
                        ![K(c)] = IF Request[c].persist THEN "pending" ELSE "none"]
    /\ Goto(c, decision)
    /\ UNCHANGED <<world, clock, calls, cand, lock, recovery, history, outcome>>

\* The command lost the arbitration or had expired.
Lose(c) ==
    /\ pc[c] \in {"superseded", "expired"}
    /\ finishWithoutWrite(c, pc[c])
    /\ UNCHANGED <<upstream, late, held, mode, clock, calls, recovery, history>>

Validating(c) ==
    /\ pc[c] = "validate"
    /\ Save(K(c), "validating")
    /\ Goto(c, "read")
    /\ UNCHANGED <<override, world, clock, calls, cand, lock, recovery, history, outcome>>

Read(c) ==
    /\ pc[c] = "read"
    /\ row' = [row EXCEPT ![K(c)].before = upstream[Acct(c)]]
    /\ control' = [control EXCEPT ![c] = Acct(c) \in health]
    /\ Goto(c, "guard")
    /\ UNCHANGED <<override, world, clock, sub, cand, lock, recovery, history, outcome>>

\* The read fails, the account is gone, or the guard cannot read the store.
ReadFails(c) ==
    /\ pc[c] \in {"read", "guard"}
    /\ Disturb
    /\ \E st \in {"failed", "blocked"} :
        /\ pc[c] = "guard" => st = "failed"
        /\ finishWithoutWrite(c, st)
    /\ UNCHANGED <<upstream, late, held, mode, now, calls, recovery, history>>

Guarded(c) == LET r == row[K(c)] IN Blocked(r.win, r.before, control[c], r.stale)

GuardRefuses(c) ==
    /\ pc[c] = "guard"
    /\ Guarded(c)
    /\ finishWithoutWrite(c, "blocked")
    /\ UNCHANGED <<upstream, late, held, mode, clock, calls, recovery, history>>

AlreadyThere(c) ==
    /\ pc[c] = "guard"
    /\ ~Guarded(c)
    /\ accountMatchesIntent(row[K(c)].before, row[K(c)].win)
    /\ finalize(c, "applied_noop")
    /\ UNCHANGED <<upstream, late, held, mode, now, calls, recovery, history>>

\* Slip: the attempt is not counted.
Attempt_Uncounted(k) == row' = [row EXCEPT ![k].status = "executing"]

\* The attempt is journalled before the write goes out.
Attempt(k) == row' = [row EXCEPT ![k].status = "executing", ![k].attempts = @ + 1]

BeginWrite(c) ==
    /\ pc[c] = "guard"
    /\ ~Guarded(c)
    /\ ~accountMatchesIntent(row[K(c)].before, row[K(c)].win)
    /\ Attempt(K(c))
    /\ Goto(c, "write")
    /\ UNCHANGED <<override, world, clock, calls, cand, lock, recovery, history, outcome>>

-----------------------------------------------------------------------------
(* executor.write, and what follows it *)

Put(a, i) == upstream' = [upstream EXCEPT ![a][i.target[2]] = i.val]
CountWrite(k) == writes' = [writes EXCEPT ![k] = @ + 1]

WriteSucceeds(c) ==
    /\ pc[c] \in {"write", "rewrite"}
    /\ Put(Acct(c), row[K(c)].win)
    /\ CountWrite(K(c))
    /\ Goto(c, IF pc[c] = "write" THEN "written" ELSE "confirm")
    /\ UNCHANGED <<journal, late, held, health, mode, clock, calls, cand, lock, recovery, met, outcome>>

\* Refused for certain (a 4xx answer).  After the first attempt that is final,
\* unless the store fails too.
WriteRejected(c) ==
    /\ pc[c] \in {"write", "rewrite"}
    /\ Disturb
    /\ CountWrite(K(c))
    /\ \/ pc[c] = "write" /\ finishWithoutWrite(c, "failed")
       \/ pc[c] = "write" /\ Return(c, "error") /\ UNCHANGED <<journal, health>>
       \/ pc[c] = "rewrite" /\ Goto(c, "confirm") /\ UNCHANGED <<journal, health, cand, lock, outcome>>
    /\ UNCHANGED <<upstream, late, held, mode, now, calls, recovery, met>>

\* No answer (ambiguousWriteError): the write may land now, later or never.
WriteUnanswered(c) ==
    /\ pc[c] \in {"write", "rewrite"}
    /\ Disturb
    /\ CountWrite(K(c))
    /\ late' = late \cup {row[K(c)].win}
    /\ Goto(c, IF pc[c] = "write" THEN "resolve" ELSE "confirm")
    /\ UNCHANGED <<journal, upstream, held, health, mode, now, calls, cand, lock, recovery, met, outcome>>

\* The row is saved as verifying; when that fails the call returns with the
\* row still executing, but its candidate is retained.
Verify(c) ==
    /\ pc[c] = "written"
    /\ \/ Save(K(c), "verifying") /\ Goto(c, "confirm") /\ UNCHANGED <<cand, lock, outcome, spent>>
       \/ Disturb /\ Return(c, "verifying") /\ UNCHANGED row
    /\ UNCHANGED <<override, world, now, calls, recovery, history>>

\* The read after the last write decides: applied only when it matches.
Confirm(c) ==
    /\ pc[c] = "confirm"
    /\ \/ /\ accountMatchesIntent(upstream[Acct(c)], row[K(c)].win)
          /\ finalize(c, "applied")
       \/ /\ ~accountMatchesIntent(upstream[Acct(c)], row[K(c)].win)
          /\ markUncertain(c)
          /\ UNCHANGED spent
       \/ Disturb /\ markUncertain(c)
    /\ UNCHANGED <<upstream, late, held, mode, now, calls, recovery, history>>

\* resolveWriteError: one controlled retry, only when nothing has changed.
MayRetry(c) ==
    LET r == row[K(c)] IN upstream[Acct(c)] = r.before /\ r.attempts < MaxAttempts

resolveWriteError(c) ==
    /\ pc[c] = "resolve"
    /\ LET there == accountMatchesIntent(upstream[Acct(c)], row[K(c)].win) IN
        \/ there /\ finalize(c, "applied")
        \/ /\ ~there /\ MayRetry(c)
           /\ Attempt(K(c))
           /\ Goto(c, "rewrite")
           /\ UNCHANGED <<override, health, cand, lock, outcome, spent>>
        \/ ~there /\ ~MayRetry(c) /\ markUncertain(c) /\ UNCHANGED spent
        \/ Disturb /\ markUncertain(c)
    /\ UNCHANGED <<upstream, late, held, mode, now, calls, recovery, history>>

-----------------------------------------------------------------------------
(* ReconcilePendingAccountMutations, at startup and before each full pass.   *)
(* One worker per account visits its rows in order of creation.              *)

RecoveryStart ==
    /\ ~Recovering
    /\ todo' = [a \in Accounts |->
                    {k \in Keys : row[k].status \in Pending /\ row[k].intent.target[1] = a}]
    /\ todo' # todo
    /\ UNCHANGED <<journal, world, clock, pc, calls, cand, lock, rpc, rkey, rcontrol, history, outcome>>

RecoveryLock(a) ==
    /\ rpc[a] = "idle"
    /\ lock[a] = Free
    /\ \E k \in todo[a] :
        /\ \A j \in todo[a] : row[k].intent.created <= row[j].intent.created
        /\ rkey' = [rkey EXCEPT ![a] = k]
        /\ todo' = [todo EXCEPT ![a] = @ \ {k}]
    /\ lock' = [lock EXCEPT ![a] = Recovery]
    /\ rpc' = [rpc EXCEPT ![a] = "slot"]
    /\ UNCHANGED <<journal, world, clock, pc, calls, cand, rcontrol, history, outcome>>

RecoverySlot(a) ==
    /\ rpc[a] = "slot"
    /\ SlotsInUse < MaxSlots
    /\ rpc' = [rpc EXCEPT ![a] = "examine"]
    /\ UNCHANGED <<journal, world, clock, pc, calls, cand, lock, todo, rkey, rcontrol, history, outcome>>

\* recoverOne returns.
RecoveryDone(a) ==
    /\ rpc' = [rpc EXCEPT ![a] = "idle"]
    /\ rkey' = [rkey EXCEPT ![a] = None]
    /\ rcontrol' = [rcontrol EXCEPT ![a] = FALSE]
    /\ lock' = [lock EXCEPT ![a] = Free]

RecoveryFails(a) ==
    /\ rpc[a] \in RecInSlot \cup {"slot"}
    /\ Disturb
    /\ RecoveryDone(a)
    /\ UNCHANGED <<journal, world, now, pc, calls, cand, todo, history, outcome>>

\* The row is read again under the lock: what has finished meanwhile stays.
RecoverySkips(a) ==
    /\ rpc[a] = "examine"
    /\ row[rkey[a]].status \in Terminal
    /\ RecoveryDone(a)
    /\ UNCHANGED <<journal, world, clock, pc, calls, cand, todo, history, outcome>>

\* Slip: recovery trusts the list it was given.
StillPending_Listed(a) == TRUE

StillPending(a) == row[rkey[a]].status \in Pending

\* What recoverOne does with a pending row, from the state it reads now.  It
\* works for the winner recorded in the row.
RecoveryVerdict(a) ==
    LET r == row[rkey[a]]
        gone == Expired(r.win, now)
        refused == Blocked(r.win, upstream[a], a \in health, r.stale)
    IN IF r.status \in Unsent /\ gone THEN "expired"
       ELSE IF r.status \in Unsent /\ refused THEN "blocked"
       ELSE IF accountMatchesIntent(upstream[a], r.win) THEN "applied"
       ELSE IF gone THEN "expired"
       ELSE IF r.before = NoState /\ r.status \notin Unsent THEN "uncertain"
       ELSE IF r.before \notin {NoState, upstream[a]} \/ r.attempts >= MaxAttempts THEN "uncertain"
       ELSE IF refused THEN "blocked"
       ELSE "retry"

\* The final transaction of a recovered row.
RecoveryFinish(a, st) ==
    LET k == rkey[a] IN
    /\ IF st = "uncertain" THEN Save(k, st) /\ UNCHANGED override
       ELSE FinalizeAccountMutation(k, st,
                IF st = "applied" /\ Expired(row[k].win, now) THEN "expired" ELSE OverrideStatusFor(st),
                IF st = "applied" THEN row[k].revoke ELSE None)
    /\ RecoveryDone(a)

RecoveryExamine(a) ==
    /\ rpc[a] = "examine"
    /\ StillPending(a)
    /\ \/ /\ RecoveryVerdict(a) # "retry"
          /\ RecoveryFinish(a, RecoveryVerdict(a))
          /\ UNCHANGED spent
       \/ /\ RecoveryVerdict(a) = "retry"
          /\ row' = [row EXCEPT ![rkey[a]].status = "executing", ![rkey[a]].attempts = @ + 1,
                                ![rkey[a]].before = upstream[a]]
          /\ rcontrol' = [rcontrol EXCEPT ![a] = a \in health]
          /\ rpc' = [rpc EXCEPT ![a] = "write"]
          /\ UNCHANGED <<override, lock, rkey, spent>>
       \/ /\ ~(row[rkey[a]].status \in Unsent /\ Expired(row[rkey[a]].win, now))
          /\ Disturb                       \* the account cannot be read
          /\ RecoveryFinish(a, "uncertain")
    /\ UNCHANGED <<world, now, pc, calls, cand, todo, history, outcome>>

RecoveryWrites(a) ==
    /\ rpc[a] = "write"
    /\ CountWrite(rkey[a])
    /\ \/ /\ Put(a, row[rkey[a]].win)
          /\ rpc' = [rpc EXCEPT ![a] = "written"]
          /\ UNCHANGED <<journal, late, lock, rkey, rcontrol, spent>>
       \/ /\ Disturb
          /\ late' \in {late, late \cup {row[rkey[a]].win}}
          /\ RecoveryFinish(a, "uncertain") \/ (RecoveryDone(a) /\ UNCHANGED journal)
          /\ UNCHANGED upstream
    /\ UNCHANGED <<held, health, mode, now, pc, calls, cand, todo, met, outcome>>

\* Like finalize, an applied recovery stores back the control row it loaded.
RecoveryConfirms(a) ==
    /\ rpc[a] = "written"
    /\ \/ /\ accountMatchesIntent(upstream[a], row[rkey[a]].win)
          /\ RecoveryFinish(a, "applied")
          /\ health' = IF rcontrol[a] THEN health \cup {a} ELSE health \ {a}
          /\ UNCHANGED spent
       \/ /\ ~accountMatchesIntent(upstream[a], row[rkey[a]].win)
          /\ RecoveryFinish(a, "uncertain")
          /\ UNCHANGED <<health, spent>>
       \/ Disturb /\ RecoveryFinish(a, "uncertain") /\ UNCHANGED health
    /\ UNCHANGED <<upstream, late, held, mode, now, pc, calls, cand, todo, history, outcome>>

-----------------------------------------------------------------------------
(* Everything around the service *)

\* The process dies; its memory goes, the journal and the world stay.
Crash ==
    /\ Disturb
    /\ pc' = [c \in Commands |-> IF pc[c] = "idle" THEN "idle" ELSE "done"]
    /\ cand' = [c \in Commands |-> "out"]
    /\ lock' = [a \in Accounts |-> Free]
    /\ todo' = [a \in Accounts |-> {}]
    /\ rpc' = [a \in Accounts |-> "idle"]
    /\ rkey' = [a \in Accounts |-> None]
    /\ rcontrol' = [a \in Accounts |-> FALSE]
    /\ UNCHANGED <<journal, world, now, calls, history, outcome>>

Tick ==
    /\ now < MaxClock
    /\ now' = now + 1
    /\ UNCHANGED <<journal, world, spent, pc, calls, cand, lock, recovery, history, outcome>>

\* The expiry worker (ExpireActiveAccountOverrides).
ExpireOverrides ==
    /\ override' = Expire({k \in Keys : override[k] = "active"})
    /\ override' # override
    /\ UNCHANGED <<row, world, clock, pc, calls, cand, lock, recovery, history, outcome>>

\* Slip: the mode is published without waiting for leases.
PublishFreeze_Eager ==
    /\ Disturb
    /\ mode' \in Modes \ {mode}
    /\ UNCHANGED <<journal, upstream, late, held, health, now, pc, calls, cand, lock, recovery,
                   history, outcome>>

\* UpdateFreezeState, behind the exclusive side of the barrier (FreezeGate).
PublishFreeze ==
    /\ leases = {}
    /\ Disturb
    /\ mode' \in Modes \ {mode}
    /\ UNCHANGED <<journal, upstream, late, held, health, now, pc, calls, cand, lock, recovery,
                   history, outcome>>

FreezeLapses ==
    /\ mode # "active"
    /\ mode' = "active"
    /\ UNCHANGED <<journal, upstream, late, held, health, clock, pc, calls, cand, lock, recovery,
                   history, outcome>>

\* An unanswered write lands, or turns out to be lost.
LateWrite ==
    /\ \E i \in late : /\ late' = late \ {i}
                       /\ Put(i.target[1], i) \/ UNCHANGED upstream
    /\ UNCHANGED <<journal, held, health, mode, clock, pc, calls, cand, lock, recovery,
                   history, outcome>>

\* An operator changes the account in Sub2API itself.
OutsideChange ==
    /\ Disturb
    /\ \E a \in Accounts : upstream' = [upstream EXCEPT ![a].sched = 1 - @]
    /\ UNCHANGED <<journal, late, held, health, mode, now, pc, calls, cand, lock, recovery,
                   history, outcome>>

\* A balance, cost, credential or rate lock, or the stored health lock
\* (UpsertControl in reconcileAccount), comes or goes.
LocksChange ==
    /\ Disturb
    /\ \E a \in Accounts :
        \/ held' = (IF a \in held THEN held \ {a} ELSE held \cup {a}) /\ UNCHANGED health
        \/ health' = (IF a \in health THEN health \ {a} ELSE health \cup {a}) /\ UNCHANGED held
    /\ UNCHANGED <<journal, upstream, late, mode, now, pc, calls, cand, lock, recovery,
                   history, outcome>>

CallStep(c) ==
    \/ ReleaseAnswered(c) \/ Call(c) \/ Enqueue(c) \/ AcquireLock(c) \/ AcquireSlot(c)
    \/ Cancel(c) \/ StoreFails(c) \/ Replay(c) \/ Prepare(c) \/ Lose(c) \/ Validating(c)
    \/ Read(c) \/ ReadFails(c) \/ GuardRefuses(c) \/ AlreadyThere(c) \/ BeginWrite(c)
    \/ WriteSucceeds(c) \/ WriteRejected(c) \/ WriteUnanswered(c) \/ Verify(c)
    \/ Confirm(c) \/ resolveWriteError(c)

RecoveryStep(a) ==
    \/ RecoveryLock(a) \/ RecoverySlot(a) \/ RecoveryFails(a) \/ RecoverySkips(a)
    \/ RecoveryExamine(a) \/ RecoveryWrites(a) \/ RecoveryConfirms(a)

Environment ==
    \/ Crash \/ Tick \/ ExpireOverrides \/ PublishFreeze \/ FreezeLapses
    \/ LateWrite \/ OutsideChange \/ LocksChange

Next ==
    \/ \E c \in Commands : CallStep(c)
    \/ RecoveryStart
    \/ \E a \in Accounts : RecoveryStep(a)
    \/ Environment

Spec == Init /\ [][Next]_vars

(***************************************************************************)
(* Fairness.  A call in flight goes on; fairness is strong because a waiter *)
(* for an account lock or a slot gets its turn although others pass: both   *)
(* are channels, and Go serves those blocked on a channel in arrival order. *)
(* Nothing forces a caller to call, recovery to start, or a disturbance to  *)
(* happen.                                                                  *)
(***************************************************************************)
CallProgress(c) ==
    \/ Enqueue(c) \/ AcquireLock(c) \/ AcquireSlot(c) \/ Replay(c) \/ Prepare(c) \/ Lose(c)
    \/ Validating(c) \/ Read(c) \/ GuardRefuses(c) \/ AlreadyThere(c) \/ BeginWrite(c)
    \/ WriteSucceeds(c) \/ Verify(c) \/ Confirm(c) \/ resolveWriteError(c)

RecoveryProgress(a) ==
    \/ RecoveryLock(a) \/ RecoverySlot(a) \/ RecoverySkips(a) \/ RecoveryExamine(a)
    \/ RecoveryWrites(a) \/ RecoveryConfirms(a)

Fairness ==
    /\ \A c \in Commands : SF_vars(CallProgress(c))
    /\ \A a \in Accounts : SF_vars(RecoveryProgress(a))

FairSpec == Spec /\ Fairness

-----------------------------------------------------------------------------
(* Properties *)

Statuses == Pending \cup Terminal
OverrideStatuses == {"none", "pending", "active", "blocked", "failed", "superseded",
                     "expired", "revoked"}
Labels == {"idle", "called", "queued", "slot", "done"} \cup InSlot

TypeOK ==
    /\ \A k \in Keys : row[k].status \in Statuses \cup {"none"}
    /\ override \in [Keys -> OverrideStatuses]
    /\ pc \in [Commands -> Labels]
    /\ cand \in [Commands -> {"out", "waiting", "completed"}]
    /\ lock \in [Accounts -> Commands \cup {Free, Recovery}]
    /\ rpc \in [Accounts -> {"idle", "slot"} \cup RecInSlot]
    /\ SlotsInUse <= MaxSlots
    /\ mode \in Modes

\* The lease covers the whole exchange: between its guard and its write, and
\* at the unguarded second attempt of resolveWriteError, no command and no
\* recovery is about to send what the published freeze mode forbids.
FreezeRespected ==
    /\ \A c \in Commands : pc[c] \in {"write", "rewrite"} => ~Forbidden(row[K(c)].win, mode)
    /\ \A a \in Accounts : rpc[a] = "write" => ~Forbidden(row[rkey[a]].win, mode)

\* Across retries, crashes and recovery passes a row never sends more writes
\* than it journalled, and never more than two.
WriteBudget ==
    \A k \in Keys : row[k] # NoRow => writes[k] <= row[k].attempts /\ row[k].attempts <= MaxAttempts

\* The final transaction is atomic: an override is pending exactly as long as
\* its mutation is, and only an applied mutation leaves one active.
OverrideFollowsJournal ==
    \A k \in Keys :
        /\ override[k] = "pending" => row[k].status \in Pending
        /\ row[k].status \in Pending => override[k] \in {"none", "pending"}
        /\ override[k] \in {"active", "revoked"} => row[k].status \in {"applied", "applied_noop"}

\* One account, one actor: commands and recovery on an account are strictly
\* serial, and whatever way one of them ends, by an answer, an error, a
\* cancelled wait or a crash, it leaves no account locked.
Inside(a) == {c \in Commands : Acct(c) = a /\ pc[c] \in InSlot \cup {"slot"}}
SerialPerAccount ==
    \A a \in Accounts :
        /\ \A c \in Inside(a) : lock[a] = c
        /\ rpc[a] # "idle" <=> lock[a] = Recovery
        /\ lock[a] \in Inside(a) \cup {Free, Recovery}

\* A finished mutation is history: no late recovery, retry or crash changes
\* its status or wakes the override of a command that did not apply.
FinalIsFinal ==
    [][\A k \in Keys :
        /\ row[k].status \in Terminal => row'[k].status = row[k].status
        /\ override[k] \in {"blocked", "failed", "superseded", "expired", "revoked"}
                => override'[k] = override[k]]_vars

\* An applied candidate stays visible only while a command that overlapped it
\* waits; no memory of it remains afterwards.
NoLeftoverCandidate ==
    \A c \in Commands : cand[c] = "completed" => Waiting(Target(c)) # {}

\* Calls in flight whose intent conflicts with o by idempotency key: retries
\* of o's own command that were built before its row existed.
Rival(o) == \E d \in Commands : /\ pc[d] # "idle"
                               /\ sub[d].intent.key = o.key
                               /\ SemanticSignature(sub[d].intent) # SemanticSignature(o)

\* What a submission sends is at least as strong as every override that is
\* active for the target at that moment, unless the command revokes it; an
\* override with a rival is out of the arbitration (IdempotencyConflict).
WriteObeysOverrides ==
    \A c \in Commands : pc[c] \in {"write", "rewrite"} =>
        LET w == row[K(c)].win IN
        \A k \in ActiveOn(Target(c)) \ {sub[c].revoke} :
            LET o == row[k].intent IN o = w \/ CandidateWins(w, o) \/ Rival(o)

\* The outcome does not depend on who gets the account lock first: of two
\* commands that waited together the weaker never applies beside the
\* stronger, unless the stronger has expired or has a rival.  A retry that is
\* answered with the recorded result (IdempotentReplay) applies nothing.
OverlapOrder ==
    \A c, d \in Commands :
        LET i == sub[c].intent
            j == sub[d].intent IN
        ~ /\ {c, d} \in met /\ K(c) # K(d)
          /\ {outcome[c], outcome[d]} \subseteq {"applied", "applied_noop"}
          /\ CandidateWins(i, j) /\ ~Expired(i, now) /\ ~Rival(i)

\* Every call in flight returns, whatever the others and recovery do.
EveryCallReturns ==
    \A c \in Commands : pc[c] \in Leased ~> pc[c] = "done"

\* A ManualHold is permanent until it is released (README.md, "must be
\* explicitly released"): recovery never writes over one that is active.
RecoveryObeysHolds ==
    \A a \in Accounts : rpc[a] = "write" =>
        LET r == row[rkey[a]] IN
        \A k \in Holds(r.win.target) \ {r.revoke} :
            row[k].intent = r.win \/ CandidateWins(r.win, row[k].intent)

\* ReleaseManualHold "only revokes the hold" and arbitrates again: once it has
\* returned without an error the hold it named is no longer active.
ReleaseRevokes ==
    \A c \in Commands :
        ( /\ Request[c].revokes = "must"
          /\ outcome[c] \in {"applied", "applied_noop", "superseded", "expired"}
          /\ sub[c].revoke # None ) => override[sub[c].revoke] # "active"

\* The service uses the barrier only through what it promises.
Gate == INSTANCE FreezeGate WITH Holders <- Commands \cup {Recovery}
UsesGate == Gate!GateSpec

=============================================================================
