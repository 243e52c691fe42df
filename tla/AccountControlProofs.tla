------------------------ MODULE AccountControlProofs ------------------------
(***************************************************************************)
(* Proofs about the account executor, for any commands, accounts, limits    *)
(* and number of faults.                                                    *)
(*                                                                         *)
(* The long part is a projection: what every step does to the control state *)
(* (program counters, account locks, recovery) is one of a few patterns, and *)
(* the invariants about locks, slots and leases follow from the patterns    *)
(* alone.                                                                   *)
(***************************************************************************)
EXTENDS AccountControl, FiniteSetTheorems, TLAPS

\* Program counters of a call that holds its account lock.
Locked == InSlot \cup {"slot"}

ControlOK ==
    /\ pc \in [Commands -> Labels]
    /\ lock \in [Accounts -> Commands \cup {Free, Recovery}]
    /\ rpc \in [Accounts -> {"idle", "slot"} \cup RecInSlot]

-----------------------------------------------------------------------------
(* The patterns of a call *)

Moves(c, l) == pc' = [pc EXCEPT ![c] = l] /\ UNCHANGED lock

Unleased(c) == pc[c] \in {"idle", "called"} /\ \E l \in {"called", "done"} : Moves(c, l)
Joins(c) == pc[c] = "called" /\ Moves(c, "queued")
GivesUp(c) == pc[c] = "queued" /\ Moves(c, "done")
TakesLock(c) == /\ pc[c] = "queued" /\ lock[Acct(c)] = Free
                /\ pc' = [pc EXCEPT ![c] = "slot"]
                /\ lock' = [lock EXCEPT ![Acct(c)] = c]
TakesSlot(c) == pc[c] = "slot" /\ SlotsInUse < MaxSlots /\ Moves(c, "prepare")
Works(c) == pc[c] \in InSlot /\ \E l \in InSlot : Moves(c, l)
Leaves(c) == /\ pc[c] \in Locked
             /\ pc' = [pc EXCEPT ![c] = "done"]
             /\ lock' = [lock EXCEPT ![Acct(c)] = Free]

CallPattern(c) ==
    \/ Unleased(c) \/ Joins(c) \/ GivesUp(c) \/ TakesLock(c) \/ TakesSlot(c) \/ Works(c) \/ Leaves(c)

\* The call actions of Submit touch nothing of recovery or of the barrier,
\* and move the call along the patterns.
LEMMA CallProjection ==
    ASSUME NEW c \in Commands, CallStep(c)
    PROVE  CallPattern(c) /\ UNCHANGED <<todo, rpc, rkey, rcontrol, mode>>
<1> USE DEF Goto, Moves
<1>1. CASE ReleaseAnswered(c) \/ Call(c)
    BY <1>1 DEF ReleaseAnswered, Call, CallPattern, Unleased, world, recovery
<1>2. CASE Enqueue(c)
    BY <1>2 DEF Enqueue, CallPattern, Joins, world, recovery
<1>3. CASE AcquireLock(c)
    BY <1>3 DEF AcquireLock, CallPattern, TakesLock, world, recovery
<1>4. CASE AcquireSlot(c)
    BY <1>4 DEF AcquireSlot, CallPattern, TakesSlot, world, recovery
<1>5. CASE Cancel(c)
    BY <1>5 DEF Cancel, CallPattern, Unleased, GivesUp, Leaves, Locked, world, recovery
<1>6. CASE StoreFails(c) \/ Replay(c)
    BY <1>6 DEF StoreFails, Replay, Return, CallPattern, Leaves, Locked, InSlot, world, recovery
<1>7. CASE Prepare(c)
    BY <1>7 DEF Prepare, CallPattern, Works, InSlot, world, recovery
<1>8. CASE Lose(c) \/ ReadFails(c) \/ GuardRefuses(c)
    BY <1>8 DEF Lose, ReadFails, GuardRefuses, finishWithoutWrite, Return, CallPattern, Leaves, Locked,
                InSlot, recovery
<1>9. CASE Validating(c) \/ Read(c) \/ BeginWrite(c)
    BY <1>9 DEF Validating, Read, BeginWrite, CallPattern, Works, InSlot, world, recovery
<1>10. CASE AlreadyThere(c)
    BY <1>10 DEF AlreadyThere, finalize, Return, CallPattern, Leaves, Locked, InSlot, recovery
<1>11. CASE WriteSucceeds(c) \/ WriteUnanswered(c)
    BY <1>11 DEF WriteSucceeds, WriteUnanswered, CallPattern, Works, InSlot, recovery
<1>12. CASE WriteRejected(c)
    BY <1>12 DEF WriteRejected, finishWithoutWrite, Return, CallPattern, Works, Leaves, Locked, InSlot, recovery
<1>13. CASE Verify(c)
    BY <1>13 DEF Verify, Return, CallPattern, Works, Leaves, Locked, InSlot, world, recovery
<1>14. CASE Confirm(c)
    BY <1>14 DEF Confirm, finalize, markUncertain, Return, CallPattern, Leaves, Locked, InSlot, recovery
<1>15. CASE resolveWriteError(c)
    BY <1>15 DEF resolveWriteError, finalize, markUncertain, Return, CallPattern, Works, Leaves, Locked,
                 InSlot, recovery
<1> QED
    BY <1>1, <1>2, <1>3, <1>4, <1>5, <1>6, <1>7, <1>8, <1>9, <1>10, <1>11, <1>12, <1>13, <1>14, <1>15
    DEF CallStep

-----------------------------------------------------------------------------
(* The patterns of recovery *)

RecTakesLock(a) == /\ rpc[a] = "idle" /\ lock[a] = Free
                   /\ rpc' = [rpc EXCEPT ![a] = "slot"]
                   /\ lock' = [lock EXCEPT ![a] = Recovery]
                   /\ \E k \in todo[a] : todo' = [todo EXCEPT ![a] = @ \ {k}] /\ rkey' = [rkey EXCEPT ![a] = k]
RecTakesSlot(a) == /\ rpc[a] = "slot" /\ SlotsInUse < MaxSlots
                   /\ rpc' = [rpc EXCEPT ![a] = "examine"]
                   /\ UNCHANGED <<lock, todo, rkey>>
RecWorks(a) == /\ rpc[a] \in RecInSlot
               /\ \E l \in {"write", "written"} : rpc' = [rpc EXCEPT ![a] = l]
               /\ UNCHANGED <<lock, todo, rkey>>
RecLeaves(a) == /\ rpc[a] # "idle"
                /\ rpc' = [rpc EXCEPT ![a] = "idle"]
                /\ lock' = [lock EXCEPT ![a] = Free]
                /\ UNCHANGED todo

RecoveryPattern(a) == RecTakesLock(a) \/ RecTakesSlot(a) \/ RecWorks(a) \/ RecLeaves(a)

\* recoverOne moves along its own patterns and touches no call.
LEMMA RecoveryProjection ==
    ASSUME NEW a \in Accounts, RecoveryStep(a)
    PROVE  RecoveryPattern(a) /\ UNCHANGED <<pc, mode>>
<1>1. CASE RecoveryLock(a)
    BY <1>1 DEF RecoveryLock, RecoveryPattern, RecTakesLock, world
<1>2. CASE RecoverySlot(a)
    BY <1>2 DEF RecoverySlot, RecoveryPattern, RecTakesSlot, world
<1>3. CASE RecoveryFails(a) \/ RecoverySkips(a)
    BY <1>3 DEF RecoveryFails, RecoverySkips, RecoveryDone, RecoveryPattern, RecLeaves, RecInSlot, world
<1>4. CASE RecoveryExamine(a)
    BY <1>4 DEF RecoveryExamine, RecoveryFinish, RecoveryDone, RecoveryPattern, RecWorks, RecLeaves, RecInSlot, world
<1>5. CASE RecoveryWrites(a)
    BY <1>5 DEF RecoveryWrites, RecoveryFinish, RecoveryDone, RecoveryPattern, RecWorks, RecLeaves, RecInSlot
<1>6. CASE RecoveryConfirms(a)
    BY <1>6 DEF RecoveryConfirms, RecoveryFinish, RecoveryDone, RecoveryPattern, RecLeaves
<1> QED
    BY <1>1, <1>2, <1>3, <1>4, <1>5, <1>6 DEF RecoveryStep

\* Around the service only a crash touches the control state.
Survives == UNCHANGED <<pc, lock, rpc, todo, rkey>>
Dies == /\ pc' = [c \in Commands |-> IF pc[c] = "idle" THEN "idle" ELSE "done"]
        /\ lock' = [a \in Accounts |-> Free]
        /\ todo' = [a \in Accounts |-> {}]
        /\ rpc' = [a \in Accounts |-> "idle"]
        /\ UNCHANGED mode

\* Of the steps outside the service, only a crash resets the control state and
\* only a publication or a lapse changes the mode.
LEMMA EnvironmentProjection ==
    ASSUME Environment
    PROVE  \/ Dies
           \/ Survives /\ mode' = mode
           \/ Survives /\ (leases = {} \/ mode' = "active") /\ mode' \in Modes
<1>1. CASE Crash
    BY <1>1 DEF Crash, Dies, world
<1>2. CASE Tick \/ ExpireOverrides
    BY <1>2 DEF Tick, ExpireOverrides, Survives, world, recovery
<1>3. CASE PublishFreeze \/ FreezeLapses
    BY <1>3 DEF PublishFreeze, FreezeLapses, Survives, recovery, Modes
<1>4. CASE LateWrite \/ OutsideChange \/ LocksChange
    BY <1>4 DEF LateWrite, OutsideChange, LocksChange, Survives, recovery
<1> QED
    BY <1>1, <1>2, <1>3, <1>4 DEF Environment

-----------------------------------------------------------------------------
(* Locks *)

SerialInv == ControlOK /\ SerialPerAccount

\* Commands are neither the free marker nor recovery.
LEMMA HolderNames == \A c \in Commands : c # Free /\ c # Recovery /\ Acct(c) \in Accounts
<1>1. \A c \in Commands : c \in Nat \ {0} /\ Request[c].acct \in Accounts
    BY AccountControlAssumption
<1> QED
    BY <1>1 DEF Free, Recovery, Acct

\* A call that follows a pattern keeps every account serial: it is inside
\* exactly while the lock names it.
LEMMA CallSerial ==
    ASSUME SerialInv, NEW c \in Commands, CallPattern(c), UNCHANGED rpc
    PROVE  SerialInv'
<1> USE HolderNames DEF SerialInv, ControlOK
<1>0. Free # Recovery
    BY DEF Free, Recovery
<1>1. ASSUME NEW l \in Labels, Moves(c, l), pc[c] \in Locked <=> l \in Locked
      PROVE  SerialInv'
    <2>1. \A d \in Commands : pc'[d] \in Locked <=> pc[d] \in Locked
        BY <1>1 DEF Moves
    <2>2. \A a \in Accounts : Inside(a)' = Inside(a)
        BY <2>1 DEF Inside, Locked
    <2> QED
        BY <1>1, <2>2 DEF Moves, SerialPerAccount
<1>2. CASE Unleased(c) \/ Joins(c) \/ GivesUp(c) \/ TakesSlot(c) \/ Works(c)
    BY <1>1, <1>2 DEF Unleased, Joins, GivesUp, TakesSlot, Works, Labels, Locked, InSlot
<1>3. CASE TakesLock(c)
    <2>1. \A a \in Accounts : Inside(a)' = IF a = Acct(c) THEN Inside(a) \cup {c} ELSE Inside(a)
        BY <1>3 DEF TakesLock, Inside, InSlot
    <2>2. Inside(Acct(c)) = {}
        BY <1>3 DEF TakesLock, SerialPerAccount, Inside
    <2>3. ControlOK'
        BY <1>3 DEF TakesLock, Labels
    <2> QED
        BY <1>0, <1>3, <2>1, <2>2, <2>3 DEF TakesLock, SerialPerAccount
<1>4. CASE Leaves(c)
    <2>1. \A a \in Accounts : Inside(a)' = Inside(a) \ {c}
        BY <1>4 DEF Leaves, Inside, InSlot
    <2>2. c \in Inside(Acct(c)) /\ lock[Acct(c)] = c
        BY <1>4 DEF Leaves, Inside, Locked, SerialPerAccount
    <2>3. \A a \in Accounts \ {Acct(c)} : c \notin Inside(a)
        BY DEF Inside
    <2>4. Inside(Acct(c)) = {c}
        BY <2>2 DEF SerialPerAccount, Inside
    <2>5. ControlOK'
        BY <1>4 DEF Leaves, Labels
    <2> QED
        BY <1>0, <1>4, <2>1, <2>2, <2>3, <2>4, <2>5 DEF Leaves, SerialPerAccount
<1> QED
    BY <1>2, <1>3, <1>4 DEF CallPattern

\* So does recovery, which takes the same lock as the calls.
LEMMA RecoverySerial ==
    ASSUME SerialInv, NEW a \in Accounts, RecoveryPattern(a), UNCHANGED pc
    PROVE  SerialInv'
<1> USE HolderNames DEF SerialInv, ControlOK
<1>0. Free # Recovery
    BY DEF Free, Recovery
<1>1. \A b \in Accounts : Inside(b)' = Inside(b) /\ Inside(b) \subseteq Commands
    BY DEF Inside
<1>2. CASE RecTakesLock(a)
    BY <1>0, <1>1, <1>2 DEF RecTakesLock, SerialPerAccount
<1>3. CASE RecTakesSlot(a) \/ RecWorks(a)
    BY <1>1, <1>3 DEF RecTakesSlot, RecWorks, SerialPerAccount, RecInSlot
<1>4. CASE RecLeaves(a)
    BY <1>0, <1>1, <1>4 DEF RecLeaves, SerialPerAccount
<1> QED
    BY <1>2, <1>3, <1>4 DEF RecoveryPattern

\* A crash leaves nobody inside and nothing locked.
LEMMA CrashSerial ==
    ASSUME SerialInv, Dies
    PROVE  SerialInv'
<1>1. \A a \in Accounts : Inside(a)' = {}
    BY DEF Dies, Inside, InSlot
<1>2. ControlOK'
    BY DEF SerialInv, ControlOK, Dies, Labels
<1> QED
    BY <1>1, <1>2 DEF Dies, SerialInv, SerialPerAccount, Free, Recovery

\* The process starts with every account free.
LEMMA InitSerial == Init => SerialInv
<1> SUFFICES ASSUME Init PROVE SerialInv
    OBVIOUS
<1>1. ControlOK
    BY DEF Init, ControlOK, Labels
<1>2. \A a \in Accounts : Inside(a) = {}
    BY DEF Init, Inside, InSlot
<1> QED
    BY <1>1, <1>2 DEF Init, SerialInv, SerialPerAccount, Free, Recovery

\* Every step of the system keeps the accounts serial.
LEMMA NextSerial == SerialInv /\ [Next]_vars => SerialInv'
<1> SUFFICES ASSUME SerialInv, [Next]_vars PROVE SerialInv'
    OBVIOUS
<1>1. ASSUME NEW c \in Commands, CallStep(c) PROVE SerialInv'
    BY <1>1, CallProjection, CallSerial
<1>2. ASSUME NEW a \in Accounts, RecoveryStep(a) PROVE SerialInv'
    BY <1>2, RecoveryProjection, RecoverySerial
<1>3. ASSUME UNCHANGED <<pc, lock, rpc>> PROVE SerialInv'
    BY <1>3 DEF SerialInv, ControlOK, SerialPerAccount, Inside
<1>4. CASE RecoveryStart
    BY <1>3, <1>4 DEF RecoveryStart
<1>5. CASE Environment
    BY <1>3, <1>5, EnvironmentProjection, CrashSerial DEF Survives
<1>6. CASE UNCHANGED vars
    BY <1>3, <1>6 DEF vars
<1> QED
    BY <1>1, <1>2, <1>4, <1>5, <1>6 DEF Next

\* For any commands, accounts and faults: an account is never worked on by
\* two actors at once, and no way of ending leaves its lock behind.
THEOREM AccountsSerial == Spec => []SerialPerAccount
<1>1. SerialInv => SerialPerAccount
    BY DEF SerialInv
<1> QED
    BY <1>1, InitSerial, NextSerial, PTL DEF Spec

-----------------------------------------------------------------------------
(* Slots *)

Occupied == {c \in Commands : pc[c] \in InSlot}
RecOccupied == {a \in Accounts : rpc[a] \in RecInSlot}
SlotsInv == ControlOK /\ SlotsInUse <= MaxSlots

\* The semaphore's users are finitely many.
LEMMA FiniteSlots ==
    /\ IsFiniteSet(Occupied) /\ Cardinality(Occupied) \in Nat
    /\ IsFiniteSet(RecOccupied) /\ Cardinality(RecOccupied) \in Nat
    /\ SlotsInUse = Cardinality(Occupied) + Cardinality(RecOccupied)
<1>1. Occupied \in SUBSET Commands /\ RecOccupied \in SUBSET Accounts
    BY DEF Occupied, RecOccupied
<1>2. IsFiniteSet(Occupied) /\ IsFiniteSet(RecOccupied)
    BY <1>1, FS_Subset, AccountControlAssumption
<1> QED
    BY <1>2, FS_CardinalityType DEF SlotsInUse, Occupied, RecOccupied

\* Whoever takes a slot found one free; everybody else gives slots back or
\* keeps what he has.
LEMMA SlotsBound ==
    ASSUME SlotsInv, ControlOK',
           \/ Occupied' \subseteq Occupied /\ RecOccupied' \subseteq RecOccupied
           \/ /\ SlotsInUse < MaxSlots
              /\ \/ \E c \in Commands : Occupied' = Occupied \cup {c} /\ RecOccupied' = RecOccupied
                 \/ \E a \in Accounts : RecOccupied' = RecOccupied \cup {a} /\ Occupied' = Occupied
    PROVE  SlotsInv'
<1>0. MaxSlots \in Nat
    BY AccountControlAssumption
<1>1. /\ IsFiniteSet(Occupied') /\ Cardinality(Occupied') \in Nat
      /\ IsFiniteSet(RecOccupied') /\ Cardinality(RecOccupied') \in Nat
      /\ SlotsInUse' = Cardinality(Occupied') + Cardinality(RecOccupied')
    <2>1. Occupied' \in SUBSET Commands /\ RecOccupied' \in SUBSET Accounts
        BY DEF Occupied, RecOccupied
    <2>2. IsFiniteSet(Occupied') /\ IsFiniteSet(RecOccupied')
        BY <2>1, FS_Subset, AccountControlAssumption
    <2> QED
        BY <2>2, FS_CardinalityType DEF SlotsInUse, Occupied, RecOccupied
<1>2. CASE Occupied' \subseteq Occupied /\ RecOccupied' \subseteq RecOccupied
    <2>1. Cardinality(Occupied') <= Cardinality(Occupied)
        BY <1>2, FiniteSlots, FS_Subset
    <2>2. Cardinality(RecOccupied') <= Cardinality(RecOccupied)
        BY <1>2, FiniteSlots, FS_Subset
    <2> QED
        BY <1>0, <1>1, <2>1, <2>2, FiniteSlots DEF SlotsInv
<1>3. ASSUME SlotsInUse < MaxSlots, NEW c \in Commands, Occupied' = Occupied \cup {c},
             RecOccupied' = RecOccupied
      PROVE  SlotsInv'
    <2>0. Cardinality(Occupied \cup {c}) =
            IF c \in Occupied THEN Cardinality(Occupied) ELSE Cardinality(Occupied) + 1
        BY FiniteSlots, FS_AddElement
    <2>1. Cardinality(Occupied') = Cardinality(Occupied) \/ Cardinality(Occupied') = Cardinality(Occupied) + 1
        BY <1>3, <2>0
    <2> QED
        BY <1>0, <1>1, <1>3, <2>1, FiniteSlots DEF SlotsInv
<1>4. ASSUME SlotsInUse < MaxSlots, NEW a \in Accounts, RecOccupied' = RecOccupied \cup {a},
             Occupied' = Occupied
      PROVE  SlotsInv'
    <2>0. Cardinality(RecOccupied \cup {a}) =
            IF a \in RecOccupied THEN Cardinality(RecOccupied) ELSE Cardinality(RecOccupied) + 1
        BY FiniteSlots, FS_AddElement
    <2>1. Cardinality(RecOccupied') = Cardinality(RecOccupied) \/ Cardinality(RecOccupied') = Cardinality(RecOccupied) + 1
        BY <1>4, <2>0
    <2> QED
        BY <1>0, <1>1, <1>4, <2>1, FiniteSlots DEF SlotsInv
<1> QED
    BY <1>2, <1>3, <1>4

\* maxConcurrentAccountMutations is a bound on calls and recovery together.
LEMMA NextSlots == SerialInv /\ SlotsInv /\ [Next]_vars => SlotsInv'
<1> SUFFICES ASSUME SerialInv, SlotsInv, [Next]_vars PROVE SlotsInv'
    OBVIOUS
<1>0. ControlOK /\ ControlOK'
    BY NextSerial DEF SerialInv
<1>1. ASSUME NEW c \in Commands, CallStep(c) PROVE SlotsInv'
    <2>1. CallPattern(c) /\ rpc' = rpc
        BY <1>1, CallProjection
    <2>2. RecOccupied' = RecOccupied
        BY <2>1 DEF RecOccupied
    <2>3. CASE TakesSlot(c)
        <3>1. Occupied' = Occupied \cup {c}
            BY <1>0, <2>3 DEF TakesSlot, Moves, Occupied, InSlot, ControlOK
        <3> QED
            BY <1>0, <2>2, <2>3, <3>1, SlotsBound DEF TakesSlot
    <2>4. CASE ~TakesSlot(c)
        <3>1. Occupied' \subseteq Occupied
            BY <1>0, <2>1, <2>4 DEF CallPattern, Unleased, Joins, GivesUp, TakesLock, Works, Leaves,
                Moves, Occupied, InSlot, ControlOK
        <3> QED
            BY <1>0, <2>2, <3>1, SlotsBound
    <2> QED
        BY <2>3, <2>4
<1>2. ASSUME NEW a \in Accounts, RecoveryStep(a) PROVE SlotsInv'
    <2>1. RecoveryPattern(a) /\ pc' = pc
        BY <1>2, RecoveryProjection
    <2>2. Occupied' = Occupied
        BY <2>1 DEF Occupied
    <2>3. CASE RecTakesSlot(a)
        <3>1. RecOccupied' = RecOccupied \cup {a}
            BY <1>0, <2>3 DEF RecTakesSlot, RecOccupied, RecInSlot, ControlOK
        <3> QED
            BY <1>0, <2>2, <2>3, <3>1, SlotsBound DEF RecTakesSlot
    <2>4. CASE ~RecTakesSlot(a)
        <3>1. RecOccupied' \subseteq RecOccupied
            BY <1>0, <2>1, <2>4 DEF RecoveryPattern, RecTakesLock, RecWorks, RecLeaves, RecOccupied,
                RecInSlot, ControlOK
        <3> QED
            BY <1>0, <2>2, <3>1, SlotsBound
    <2> QED
        BY <2>3, <2>4
<1>3. ASSUME UNCHANGED <<pc, rpc>> PROVE SlotsInv'
    BY <1>0, <1>3, SlotsBound DEF Occupied, RecOccupied
<1>4. CASE Environment
    <2>1. CASE Dies
        <3>1. Occupied' = {} /\ RecOccupied' = {}
            BY <2>1 DEF Dies, Occupied, RecOccupied, InSlot, RecInSlot
        <3> QED
            BY <1>0, <3>1, SlotsBound
    <2> QED
        BY <1>3, <1>4, <2>1, EnvironmentProjection DEF Survives
<1>5. CASE RecoveryStart \/ UNCHANGED vars
    BY <1>3, <1>5 DEF RecoveryStart, vars
<1> QED
    BY <1>1, <1>2, <1>4, <1>5 DEF Next

\* The process starts with every slot free.
LEMMA InitSlots == Init => SlotsInv
<1> SUFFICES ASSUME Init PROVE SlotsInv
    OBVIOUS
<1>1. Occupied = {} /\ RecOccupied = {}
    BY DEF Init, Occupied, RecOccupied, InSlot, RecInSlot
<1>2. SlotsInUse = 0
    BY <1>1, FiniteSlots, FS_EmptySet
<1> QED
    BY <1>2, InitSerial, AccountControlAssumption DEF SlotsInv, SerialInv

\* Calls and recovery together never exceed the semaphore's capacity.
THEOREM SlotsBounded == Spec => [](SlotsInUse <= MaxSlots)
<1>1. SlotsInv => SlotsInUse <= MaxSlots
    BY DEF SlotsInv
<1> QED
    BY <1>1, InitSerial, NextSerial, InitSlots, NextSlots, PTL DEF Spec

-----------------------------------------------------------------------------
(* Leases *)

\* Every step uses the barrier as FreezeGate allows.
LEMMA NextGate == SerialInv /\ mode \in Modes /\ [Next]_vars => [Gate!GateNext]_(Gate!gateVars)
<1> SUFFICES ASSUME SerialInv, mode \in Modes, [Next]_vars PROVE [Gate!GateNext]_(Gate!gateVars)
    OBVIOUS
<1> DEFINE H == Commands \cup {Recovery}
           CallLeases == {c \in Commands : pc[c] \in Leased}
<1>0. ControlOK /\ Recovery \notin Commands
    BY HolderNames DEF SerialInv
<1>1. leases = CallLeases \cup (IF Recovering THEN {Recovery} ELSE {}) /\ leases \subseteq H
    BY DEF leases
<1>2. ASSUME NEW S \in SUBSET H, leases' = leases \ S, mode' = mode PROVE [Gate!GateNext]_(Gate!gateVars)
    BY <1>2 DEF Gate!GateNext, Gate!Return
<1>3. ASSUME NEW p \in H, p \notin leases, leases' = leases \cup {p}, mode' = mode
      PROVE [Gate!GateNext]_(Gate!gateVars)
    BY <1>3 DEF Gate!GateNext, Gate!Admit
<1>4. ASSUME leases' = leases, mode' = mode PROVE [Gate!GateNext]_(Gate!gateVars)
    BY <1>4 DEF Gate!gateVars
<1>5. ASSUME NEW c \in Commands, CallStep(c) PROVE [Gate!GateNext]_(Gate!gateVars)
    <2>1. CallPattern(c) /\ mode' = mode /\ rpc' = rpc /\ todo' = todo
        BY <1>5, CallProjection
    <2>2. Recovering' = Recovering
        BY <2>1 DEF Recovering
    <2>3. CASE Joins(c)
        <3>1. c \notin CallLeases /\ CallLeases' = CallLeases \cup {c}
            BY <1>0, <2>3 DEF Joins, Moves, Leased, InSlot, ControlOK
        <3>2. c \notin leases /\ leases' = leases \cup {c}
            BY <1>0, <2>2, <3>1 DEF leases
        <3> QED
            BY <1>3, <2>1, <3>2
    <2>4. CASE GivesUp(c) \/ Leaves(c)
        <3>1. CallLeases' = CallLeases \ {c}
            BY <1>0, <2>4 DEF GivesUp, Leaves, Moves, Leased, InSlot, ControlOK
        <3>2. leases' = leases \ {c} /\ {c} \in SUBSET H
            BY <1>0, <2>2, <3>1 DEF leases
        <3> QED
            BY <1>2, <2>1, <3>2
    <2>5. CASE Unleased(c) \/ TakesLock(c) \/ TakesSlot(c) \/ Works(c)
        <3>1. CallLeases' = CallLeases
            BY <1>0, <2>5 DEF Unleased, TakesLock, TakesSlot, Works, Moves, Leased, InSlot, ControlOK
        <3>2. leases' = leases
            BY <2>2, <3>1 DEF leases
        <3> QED
            BY <1>4, <2>1, <3>2
    <2> QED
        BY <2>1, <2>3, <2>4, <2>5 DEF CallPattern
<1>6. ASSUME NEW a \in Accounts, RecoveryStep(a) PROVE [Gate!GateNext]_(Gate!gateVars)
    <2>1. RecoveryPattern(a) /\ pc' = pc /\ mode' = mode
        BY <1>6, RecoveryProjection
    <2>2. Recovering
        BY <2>1 DEF RecoveryPattern, RecTakesLock, RecTakesSlot, RecWorks, RecLeaves, RecInSlot, Recovering
    <2>3. CASE Recovering'
        <3>1. leases' = leases
            BY <2>1, <2>2, <2>3 DEF leases
        <3> QED
            BY <1>4, <2>1, <3>1
    <2>4. CASE ~Recovering'
        <3>1. leases' = leases \ {Recovery} /\ {Recovery} \in SUBSET H
            BY <1>0, <2>1, <2>2, <2>4 DEF leases
        <3> QED
            BY <1>2, <2>1, <3>1
    <2> QED
        BY <2>3, <2>4
<1>7. CASE RecoveryStart
    <2>1. ~Recovering /\ pc' = pc /\ mode' = mode
        BY <1>7 DEF RecoveryStart, world
    <2>2. CASE Recovering'
        <3>1. Recovery \notin leases /\ leases' = leases \cup {Recovery}
            BY <1>0, <2>1, <2>2 DEF leases
        <3> QED
            BY <1>3, <2>1, <3>1
    <2>3. CASE ~Recovering'
        <3>1. leases' = leases
            BY <2>1, <2>3 DEF leases
        <3> QED
            BY <1>4, <2>1, <3>1
    <2> QED
        BY <2>2, <2>3
<1>8. CASE Environment
    <2>1. CASE Dies
        <3>1. leases' = {}
            BY <2>1 DEF Dies, leases, Leased, InSlot, Recovering
        <3>2. leases' = leases \ leases /\ leases \in SUBSET H
            BY <1>1, <3>1
        <3> QED
            BY <1>2, <2>1, <3>2 DEF Dies
    <2>2. CASE Survives
        <3>1. leases' = leases
            BY <2>2 DEF Survives, leases, Recovering
        <3>2. CASE mode' = mode
            BY <1>4, <3>1, <3>2
        <3>3. CASE leases = {} /\ mode' \in Modes
            <4>1. mode' \in Gate!Modes
                BY <3>3 DEF Modes, Gate!Modes
            <4> QED
                BY <3>1, <3>3, <4>1 DEF Gate!GateNext, Gate!Publish
        <3>4. CASE mode' = "active"
            BY <3>1, <3>4 DEF Gate!GateNext, Gate!Lapse
        <3> QED
            BY <1>8, <2>2, <3>2, <3>3, <3>4, EnvironmentProjection DEF Dies
    <2> QED
        BY <1>8, <2>1, <2>2, EnvironmentProjection
<1>9. CASE UNCHANGED vars
    BY <1>4, <1>9 DEF vars, leases, Recovering
<1> QED
    BY <1>5, <1>6, <1>7, <1>8, <1>9 DEF Next

\* The effective freeze mode is always one of the four.
LEMMA ModeOK == SerialInv /\ mode \in Modes /\ [Next]_vars => (mode \in Modes)'
<1> SUFFICES ASSUME SerialInv, mode \in Modes, [Next]_vars PROVE mode' \in Modes
    OBVIOUS
<1>1. ASSUME NEW c \in Commands, CallStep(c) PROVE mode' = mode
    BY <1>1, CallProjection
<1>2. ASSUME NEW a \in Accounts, RecoveryStep(a) PROVE mode' = mode
    BY <1>2, RecoveryProjection
<1>3. CASE Environment
    BY <1>3, EnvironmentProjection DEF Dies
<1>4. CASE RecoveryStart \/ UNCHANGED vars
    BY <1>4 DEF RecoveryStart, vars, world
<1> QED
    BY <1>1, <1>2, <1>3, <1>4 DEF Next

\* The account executor uses the barrier only through FreezeGate: together
\* with BarrierImplementsGate, every lease it holds is one the barrier grants.
THEOREM AccountControlUsesGate == Spec => UsesGate
<1>1. Init => Gate!GateInit /\ mode \in Modes
    BY DEF Init, Gate!GateInit, leases, Leased, InSlot, Recovering, Modes
<1> QED
    BY <1>1, InitSerial, NextSerial, ModeOK, NextGate, PTL DEF Spec, UsesGate, Gate!GateSpec
=============================================================================
