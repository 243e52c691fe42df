-------------------------- MODULE MCAccountControl --------------------------
(* Small instances of AccountControl: one tuple of requests per question.    *)
EXTENDS AccountControl

MCBase == [acct |-> 1, op |-> "sched", val |-> 0, auth |-> "manual_hold", producer |-> "admin_ui",
           ttl |-> 0, key |-> 1, ikey |-> 1, reason |-> "", persist |-> TRUE, revokes |-> "no",
           stale |-> FALSE]
WithKey(r, k) == [r EXCEPT !.key = k, !.ikey = k]

ManualPause(k) == WithKey(MCBase, k)
ManualResume(k) == [WithKey(MCBase, k) EXCEPT !.val = 1, !.auth = "administrator_command",
                        !.ttl = 1, !.revokes = "if_any"]
PolicyResume(k) == [WithKey(MCBase, k) EXCEPT !.val = 1, !.auth = "active_policy",
                        !.producer = "policy_engine", !.persist = FALSE]
ReleaseHold(k) == [PolicyResume(k) EXCEPT !.reason = "release", !.revokes = "must"]
AgentPause(k) == [WithKey(MCBase, k) EXCEPT !.auth = "autonomous_agent",
                        !.producer = "agent_operator", !.ttl = 2]
AgentLoad(k, a) == [AgentPause(k) EXCEPT !.acct = a, !.op = "load", !.val = 50]

\* Stronger, weaker and revoking commands on one target.
OverlapRequests == <<ManualPause(1), ReleaseHold(2), PolicyResume(3)>>

\* An agent's short-lived override and a policy decision, under faults.
FaultRequests == <<[AgentPause(1) EXCEPT !.ttl = 1], PolicyResume(2)>>

\* A permanent hold and a policy decision.
HoldRequests == <<ManualPause(1), PolicyResume(2)>>

\* A command and its retry wait for one account, and two accounts for the only
\* slot, with each other and with recovery.
LiveRequests == <<ManualResume(1), AgentLoad(2, 2), ManualResume(1)>>

\* An agent's pause below a hold that is then released.
ReleaseRequests == <<AgentPause(1), ManualPause(2), ReleaseHold(3)>>

Two == 1..2
Three == 1..3
=============================================================================
