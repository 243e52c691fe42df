----------------------------- MODULE FreezeGate -----------------------------
(***************************************************************************)
(* What the automation barrier promises its callers, and all that the      *)
(* account executor relies on: leases are shared, and the freeze mode is   *)
(* published only while no lease is out, so a mode read under a lease is   *)
(* still the published mode at the external write the lease covers.  The   *)
(* one exception is time: a mode with an ExpiresAt lapses to "active"      *)
(* without any publication (effectiveFreezeState, checkSafety).            *)
(*                                                                         *)
(* AutomationBarrier implements this specification, and AccountControl     *)
(* uses the barrier through it.                                            *)
(***************************************************************************)
CONSTANT Holders    \* every party that may hold a mutation lease

VARIABLES
    leases,         \* the set of parties that hold a mutation lease now
    mode            \* the freeze mode the store returns

gateVars == <<leases, mode>>

\* model.AgentFreezeMode*: the modes that checkSafety tells apart.
Modes == {"active", "agent_paused", "read_only", "writes_frozen"}

GateInit == leases = {} /\ mode = "active"

Admit(p) ==
    /\ p \notin leases
    /\ leases' = leases \cup {p}
    /\ UNCHANGED mode

\* A lease is returned by its holder; a crash returns several at once.
Return(S) ==
    /\ leases' = leases \ S
    /\ UNCHANGED mode

Publish(m) ==
    /\ leases = {}
    /\ mode' = m
    /\ UNCHANGED leases

Lapse ==
    /\ mode' = "active"
    /\ UNCHANGED leases

GateNext ==
    \/ \E p \in Holders : Admit(p)
    \/ \E S \in SUBSET Holders : Return(S)
    \/ \E m \in Modes : Publish(m)
    \/ Lapse

GateSpec == GateInit /\ [][GateNext]_gateVars
=============================================================================
