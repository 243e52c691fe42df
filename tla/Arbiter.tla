------------------------------- MODULE Arbiter -------------------------------
(***************************************************************************)
(* The pure arbitration function of the control plane                       *)
(* (internal/controlplane/arbiter.go, intent.go, types.go).                  *)
(*                                                                         *)
(* An intent is a record with at least the fields                            *)
(*   id       its identity; for adapted intents a digest of key and          *)
(*            semantics, so two different intents never share it             *)
(*   key      its idempotency key                                            *)
(*   target   its conflict key: the resource and the operation               *)
(*   auth     its authority                                                  *)
(*   created, expires   its lifetime; expires = NoExpiry for a nil pointer   *)
(* and every other field is semantic content.  Arbitrate sorts its input     *)
(* canonically before it looks at it, so the input is a set here.            *)
(***************************************************************************)
EXTENDS Integers

NoExpiry == -1

Authorities == {"manual_hold", "administrator_command", "emergency_automation",
                "autonomous_agent", "active_policy", "optimization"}

\* authorityRank: the smaller rank wins.
AuthorityRank == [ manual_hold |-> 0, administrator_command |-> 1,
                   emergency_automation |-> 2, autonomous_agent |-> 3,
                   active_policy |-> 4, optimization |-> 5 ]

\* Authorities whose intents must carry an expiration (Intent.Validate).
MustExpire == {"administrator_command", "autonomous_agent", "optimization"}

\* Intent.Validate, as far as arbitration depends on it: the lifetime rules.
Validate(i) ==
    /\ i.expires # NoExpiry => i.expires > i.created
    /\ i.auth \in MustExpire => i.expires # NoExpiry

\* Slip: an intent is dropped an instant before it expires.
Expired_Early(i, now) == i.expires # NoExpiry /\ now + 1 >= i.expires

\* Intent.Expired: the expiration instant itself is already expired.
Expired(i, now) == i.expires # NoExpiry /\ now >= i.expires

\* semanticSignature: everything except the two identities.
SemanticSignature(i) == [f \in DOMAIN i \ {"id", "key"} |-> i[f]]

\* Slip: age decides before authority.
CandidateWins_NewestFirst(l, r) ==
    \/ l.created > r.created
    \/ l.created = r.created /\ AuthorityRank[l.auth] < AuthorityRank[r.auth]
    \/ l.created = r.created /\ AuthorityRank[l.auth] = AuthorityRank[r.auth] /\ l.id < r.id

\* Slip: no final tie-break.
CandidateWins_NoTieBreak(l, r) ==
    \/ AuthorityRank[l.auth] < AuthorityRank[r.auth]
    \/ AuthorityRank[l.auth] = AuthorityRank[r.auth] /\ l.created > r.created

\* candidateWins: higher authority, then newer, then smaller identity.  The
\* final comparison of canonical keys is never reached: equal ids are equal
\* intents.
CandidateWins(l, r) ==
    \/ AuthorityRank[l.auth] < AuthorityRank[r.auth]
    \/ /\ AuthorityRank[l.auth] = AuthorityRank[r.auth]
       /\ \/ l.created > r.created
          \/ l.created = r.created /\ l.id < r.id

-----------------------------------------------------------------------------
(* Arbitrate *)

Live(now, S) == {i \in S : Validate(i) /\ ~Expired(i, now)}

\* The live intents that share i's idempotency key, in whatever bucket.
KeyGroup(now, S, i) == {j \in Live(now, S) : j.key = i.key}

\* sameIdempotentSemantics fails for the group: every member is ignored.
IdempotencyConflict(now, S, i) ==
    \E j, k \in KeyGroup(now, S, i) : SemanticSignature(j) # SemanticSignature(k)

\* Of semantically identical intents only the one with the smallest id counts.
Duplicate(now, S, i) == \E j \in KeyGroup(now, S, i) : j.id < i.id

\* Slip: a conflict anywhere spoils the arbitration of every target.
Candidates_GlobalConflict(now, S, target) ==
    {i \in Live(now, S) : /\ i.target = target
                          /\ \A j \in Live(now, S) : ~IdempotencyConflict(now, S, j)
                          /\ ~Duplicate(now, S, i)}

\* The candidates of one bucket that take part in its decision.
Candidates(now, S, target) ==
    {i \in Live(now, S) : /\ i.target = target
                          /\ ~IdempotencyConflict(now, S, i)
                          /\ ~Duplicate(now, S, i)}

\* The winner of a bucket, as a set with at most one element.
Winner(now, S, target) ==
    {i \in Candidates(now, S, target) :
        \A j \in Candidates(now, S, target) : j = i \/ CandidateWins(i, j)}
=============================================================================
