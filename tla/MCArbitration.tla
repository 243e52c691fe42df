---------------------------- MODULE MCArbitration ----------------------------
(* Every intent over two targets, two idempotency keys, three authorities,   *)
(* two creation times and a lifetime of two instants or none, in pools of    *)
(* three: pools in which duplicates, conflicts, expiry and every tie of      *)
(* candidateWins occur.                                                      *)
EXTENDS Arbitration

MCShapes ==
    {s \in [key : {1, 2}, target : {1, 2},
            auth : {"manual_hold", "administrator_command", "active_policy"},
            created : {0, 1}, ttl : {0, 2}] :
        s.auth \in MustExpire => s.ttl # 0}

\* The digest of key and semantics that mapped() assigns as the identity:
\* injective, and in an order that follows neither age nor authority.
MCDigest(s) ==
    ((((s.key * 3 + s.target) * 6 + AuthorityRank[s.auth]) * 4 + s.created * 2
        + s.ttl \div 2) * 101) % 223

MCIntent(s, id) ==
    [id |-> id, key |-> s.key, target |-> s.target, auth |-> s.auth, created |-> s.created,
     expires |-> IF s.ttl = 0 THEN NoExpiry ELSE s.created + s.ttl]

\* Beside the canonical intents, re-submissions of the permanent holds under
\* a second identity: same key, same semantics.
MCIntents ==
    {MCIntent(s, MCDigest(s)) : s \in MCShapes}
    \cup {MCIntent(s, 223 + MCDigest(s)) :
            s \in {s \in MCShapes : s.auth = "manual_hold" /\ s.ttl = 0 /\ s.target = 1}}
=============================================================================
