-------------------------- MODULE ArbitrationProofs --------------------------
(***************************************************************************)
(* Proofs about Arbitrate, for any set of intents with distinct identities. *)
(***************************************************************************)
EXTENDS Arbitration, FiniteSetTheorems, WellFoundedInduction, TLAPS

\* What the pool's history leaves: a finite set of known intents.
PoolOK == now \in Nat /\ pool \subseteq Intents /\ IsFiniteSet(pool)

\* Every non-empty set of naturals has a least element.
LEMMA LeastNat ==
    ASSUME NEW T, T \subseteq Nat, T # {}
    PROVE  \E n \in T : \A k \in T : n <= k
<1> DEFINE R == {ss \in Nat \X Nat : ss[1] < ss[2]}
<1>1. IsWellFoundedOn(R, Nat)
    BY NatLessThanWellFounded, Zenon DEF OpToRel
<1>2. \E n \in T : \A k \in T : ~(<<k, n>> \in R)
    <2> HIDE DEF R
    <2> QED
        BY <1>1, WFMin
<1>3. PICK n \in T : \A k \in T : ~(<<k, n>> \in R)
    BY <1>2
<1>4. ASSUME NEW k \in T PROVE n <= k
    <2>1. k \in Nat /\ n \in Nat /\ ~(<<k, n>> \in R)
        BY <1>3
    <2>2. k < n => <<k, n>> \in R
        BY <2>1
    <2> QED
        BY <2>1, <2>2
<1> QED
    BY <1>4

\* authorityRank is injective on the six authorities, the hold being first.
LEMMA Ranks ==
    /\ \A a \in Authorities : AuthorityRank[a] \in Nat
    /\ \A a \in Authorities : AuthorityRank[a] = 0 <=> a = "manual_hold"
BY DEF Authorities, AuthorityRank

-----------------------------------------------------------------------------
\* candidateWins is a strict total order on intents with distinct identities,
\* so the sort of Arbitrate has one possible result.
LEMMA WinsTotal ==
    ASSUME NEW i \in Intents, NEW j \in Intents, i # j
    PROVE  CandidateWins(i, j) \/ CandidateWins(j, i)
<1>1. /\ AuthorityRank[i.auth] \in Nat /\ AuthorityRank[j.auth] \in Nat
      /\ i.created \in Nat /\ j.created \in Nat /\ i.id \in Nat /\ j.id \in Nat /\ i.id # j.id
    BY Ranks, IntentsAssumption
<1> QED
    BY <1>1 DEF CandidateWins

\* candidateWins never answers yes both ways.
LEMMA WinsAsymmetric ==
    ASSUME NEW i \in Intents, NEW j \in Intents, CandidateWins(i, j)
    PROVE  ~CandidateWins(j, i)
<1>1. /\ AuthorityRank[i.auth] \in Nat /\ AuthorityRank[j.auth] \in Nat
      /\ i.created \in Nat /\ j.created \in Nat /\ i.id \in Nat /\ j.id \in Nat
    BY Ranks, IntentsAssumption
<1> QED
    BY <1>1 DEF CandidateWins

\* candidateWins is transitive.
LEMMA WinsTransitive ==
    ASSUME NEW i \in Intents, NEW j \in Intents, NEW k \in Intents,
           CandidateWins(i, j), CandidateWins(j, k)
    PROVE  CandidateWins(i, k)
<1>1. /\ AuthorityRank[i.auth] \in Nat /\ AuthorityRank[j.auth] \in Nat /\ AuthorityRank[k.auth] \in Nat
      /\ i.created \in Nat /\ j.created \in Nat /\ k.created \in Nat
      /\ i.id \in Nat /\ j.id \in Nat /\ k.id \in Nat
    BY Ranks, IntentsAssumption
<1> QED
    BY <1>1 DEF CandidateWins

-----------------------------------------------------------------------------
\* A finite set of intents has a member that beats all the others: one that
\* is beaten by as few as possible is beaten by none, because whoever beat it
\* would be beaten by fewer.
LEMMA StrongestExists ==
    ASSUME NEW C, C \subseteq Intents, IsFiniteSet(C), C # {}
    PROVE  \E i \in C : \A j \in C : j = i \/ CandidateWins(i, j)
<1> DEFINE Beats(i) == {j \in C : CandidateWins(j, i)}
           Counts == {Cardinality(Beats(i)) : i \in C}
<1>1. \A i \in C : IsFiniteSet(Beats(i)) /\ Cardinality(Beats(i)) \in Nat
    <2>1. \A i \in C : Beats(i) \in SUBSET C
        OBVIOUS
    <2> QED
        BY <2>1, FS_Subset, FS_CardinalityType
<1>2. PICK n \in Counts : \A k \in Counts : n <= k
    <2>1. Counts \subseteq Nat /\ Counts # {}
        BY <1>1
    <2> QED
        BY <2>1, LeastNat
<1>3. PICK i \in C : n = Cardinality(Beats(i))
    OBVIOUS
<1>4. Beats(i) = {}
    <2> SUFFICES ASSUME NEW j \in Beats(i) PROVE FALSE
        OBVIOUS
    <2>1. j \in C /\ CandidateWins(j, i)
        OBVIOUS
    <2>2. Beats(j) \in SUBSET Beats(i)
        BY <2>1, WinsTransitive
    <2>3. j \notin Beats(j)
        BY <2>1, WinsAsymmetric
    <2>4. Cardinality(Beats(j)) <= Cardinality(Beats(i)) /\ Cardinality(Beats(j)) # Cardinality(Beats(i))
        <3> HIDE DEF Beats
        <3> QED
            BY <1>1, <2>2, <2>3, FS_Subset
    <2>5. n <= Cardinality(Beats(j)) /\ n \in Nat /\ Cardinality(Beats(j)) \in Nat
        BY <1>1, <1>2, <1>3, <2>1
    <2> HIDE DEF Beats
    <2> QED
        BY <1>3, <2>4, <2>5
<1>5. \A j \in C : j = i \/ CandidateWins(i, j)
    BY <1>4, WinsTotal
<1> QED
    BY <1>5

\* Arbitrate is decisive: a bucket with candidates has exactly one winner.
LEMMA Decisive ==
    ASSUME NEW S, S \subseteq Intents, IsFiniteSet(S), NEW n, NEW t
    PROVE  Cardinality(Winner(n, S, t)) = IF Candidates(n, S, t) = {} THEN 0 ELSE 1
<1> DEFINE C == Candidates(n, S, t)
<1>1. C \subseteq Intents /\ IsFiniteSet(C)
    <2>1. C \in SUBSET S
        BY DEF Candidates, Live
    <2> QED
        BY <2>1, FS_Subset
<1>2. CASE C = {}
    <2>1. Winner(n, S, t) = {}
        BY <1>2 DEF Winner
    <2> QED
        BY <1>2, <2>1, FS_EmptySet
<1>3. CASE C # {}
    <2> HIDE DEF C
    <2>1. PICK i \in C : \A j \in C : j = i \/ CandidateWins(i, j)
        BY <1>1, <1>3, StrongestExists
    <2>2. Winner(n, S, t) = {i}
        BY <1>1, <2>1, WinsAsymmetric DEF Winner, C
    <2>3. Cardinality({i}) = 1
        BY FS_Singleton
    <2> QED
        BY <1>3, <2>2, <2>3 DEF C
<1> QED
    BY <1>2, <1>3

-----------------------------------------------------------------------------
\* The pool only ever holds finitely many known intents.
LEMMA PoolInvariant == Spec => []PoolOK
<1>1. Init => PoolOK
    BY FS_EmptySet DEF Init, PoolOK
<1>2. PoolOK /\ [Next]_arbitrationVars => PoolOK'
    <2> SUFFICES ASSUME PoolOK, [Next]_arbitrationVars PROVE PoolOK'
        OBVIOUS
    <2>1. ASSUME NEW i \in Intents, Arrive(i) PROVE PoolOK'
        BY <2>1, FS_AddElement DEF Arrive, PoolOK
    <2>2. ASSUME NEW i \in Intents, Withdraw(i) PROVE PoolOK'
        BY <2>2, FS_RemoveElement DEF Withdraw, PoolOK
    <2>3. CASE Tick
        BY <2>3 DEF Tick, PoolOK
    <2>4. CASE UNCHANGED arbitrationVars
        BY <2>4 DEF arbitrationVars, PoolOK
    <2> QED
        BY <2>1, <2>2, <2>3, <2>4 DEF Next
<1> QED
    BY <1>1, <1>2, PTL DEF Spec

\* Whatever intents compete, every bucket with a candidate has one winner.
THEOREM ArbitrationOneWinner == Spec => []OneWinner
<1>1. PoolOK => OneWinner
    BY Decisive DEF PoolOK, OneWinner, Win
<1> QED
    BY <1>1, PoolInvariant, PTL

\* A live hold outside an idempotency conflict is represented among the
\* candidates by the member of its key group with the smallest identity.
LEMMA HoldRepresented ==
    ASSUME PoolOK, NEW i \in pool, Validate(i), ~Expired(i, now),
           ~IdempotencyConflict(now, pool, i)
    PROVE  \E j \in Candidates(now, pool, i.target) : j.auth = i.auth
<1> DEFINE G == KeyGroup(now, pool, i)
           Ids == {g.id : g \in G}
<1>1. i \in G /\ G \subseteq pool /\ G \subseteq Intents
    BY DEF KeyGroup, Live, PoolOK
<1>2. PICK n \in Ids : \A k \in Ids : n <= k
    <2>1. Ids \subseteq Nat /\ Ids # {}
        BY <1>1, IntentsAssumption
    <2> HIDE DEF Ids
    <2> QED
        BY <2>1, LeastNat
<1>3. PICK j \in G : n = j.id
    OBVIOUS
<1>4. \A g \in G : j.id <= g.id
    BY <1>2, <1>3
<1>5. KeyGroup(now, pool, j) = G
    BY <1>3 DEF KeyGroup
<1>6. ~Duplicate(now, pool, j)
    BY <1>1, <1>4, <1>5, IntentsAssumption DEF Duplicate
<1>7. ~IdempotencyConflict(now, pool, j)
    BY <1>5 DEF IdempotencyConflict
<1>8. SemanticSignature(i) = SemanticSignature(j)
    BY <1>1, <1>3 DEF IdempotencyConflict
<1>9. i.target = j.target /\ i.auth = j.auth
    <2>1. {"target", "auth"} \subseteq DOMAIN i \ {"id", "key"}
        BY <1>1, IntentsAssumption
    <2>2. SemanticSignature(i)["target"] = i.target /\ SemanticSignature(i)["auth"] = i.auth
        BY <2>1 DEF SemanticSignature
    <2>3. {"target", "auth"} \subseteq DOMAIN j \ {"id", "key"}
        BY <1>1, <1>3, IntentsAssumption
    <2>4. SemanticSignature(j)["target"] = j.target /\ SemanticSignature(j)["auth"] = j.auth
        BY <2>3 DEF SemanticSignature
    <2> QED
        BY <1>8, <2>2, <2>4
<1>10. j \in Candidates(now, pool, i.target)
    BY <1>3, <1>6, <1>7, <1>9 DEF Candidates, KeyGroup
<1> QED
    BY <1>9, <1>10

\* No other authority ever outvotes a live ManualHold: the winner of its
\* target is a hold, whatever else is submitted and whenever.
THEOREM ArbitrationHoldStands == Spec => []HoldStands
<1>1. PoolOK => HoldStands
    <2> SUFFICES ASSUME PoolOK, NEW i \in pool, i.auth = "manual_hold", Validate(i),
                        i.expires = NoExpiry \/ now < i.expires,
                        ~IdempotencyConflict(now, pool, i), NEW w \in Win(i.target)
                 PROVE  w.auth = "manual_hold"
        BY DEF HoldStands
    <2>1. i \in Intents /\ now \in Nat /\ i.expires \in Nat \cup {NoExpiry}
        BY IntentsAssumption DEF PoolOK
    <2>2. ~Expired(i, now)
        BY <2>1 DEF Expired, NoExpiry
    <2>3. PICK j \in Candidates(now, pool, i.target) : j.auth = "manual_hold"
        BY <2>2, HoldRepresented
    <2>4. w = j \/ CandidateWins(w, j)
        BY DEF Win, Winner
    <2>5. w \in Intents
        BY DEF Win, Winner, Candidates, Live, PoolOK
    <2>6. CASE CandidateWins(w, j)
        <3>1. AuthorityRank[w.auth] <= AuthorityRank[j.auth] /\ AuthorityRank[j.auth] = 0
            BY <2>3, <2>5, <2>6, Ranks, IntentsAssumption DEF CandidateWins, Authorities
        <3>2. AuthorityRank[w.auth] = 0 /\ w.auth \in Authorities
            BY <2>5, <3>1, Ranks, IntentsAssumption
        <3> QED
            BY <3>2, Ranks
    <2> QED
        BY <2>3, <2>4, <2>6
<1> QED
    BY <1>1, PoolInvariant, PTL

-----------------------------------------------------------------------------
(* What a step may change *)

\* Equal signatures expire together.
LEMMA SameExpiry ==
    ASSUME NEW i \in Intents, NEW j \in Intents, SemanticSignature(i) = SemanticSignature(j)
    PROVE  i.expires = j.expires
<1>1. {"expires"} \subseteq DOMAIN i \ {"id", "key"} /\ {"expires"} \subseteq DOMAIN j \ {"id", "key"}
    BY IntentsAssumption
<1>2. SemanticSignature(i)["expires"] = i.expires /\ SemanticSignature(j)["expires"] = j.expires
    BY <1>1 DEF SemanticSignature
<1> QED
    BY <1>2

\* An instant later no intent is live that was not.
LEMMA LiveShrinks ==
    ASSUME NEW S, S \subseteq Intents, NEW n \in Nat
    PROVE  Live(n + 1, S) \subseteq Live(n, S)
<1>1. \A i \in Intents : i.expires \in Int
    BY IntentsAssumption DEF NoExpiry
<1> QED
    BY <1>1 DEF Live, Expired

\* A winner outlives the instant unless it expires, when no conflict ends: the
\* other candidates of the next instant are candidates now, because a duplicate
\* expires together with the intent it stands behind.
LEMMA WinnerOutlives ==
    ASSUME NEW S, S \subseteq Intents, NEW n \in Nat, NEW t, NEW w \in Winner(n, S, t),
           ~(w.expires # NoExpiry /\ w.expires <= n + 1),
           \A i \in S : IdempotencyConflict(n, S, i) => IdempotencyConflict(n + 1, S, i)
    PROVE  w \in Winner(n + 1, S, t)
<1>0. /\ Live(n + 1, S) \subseteq Live(n, S)
      /\ \A i : KeyGroup(n + 1, S, i) \subseteq KeyGroup(n, S, i)
    BY LiveShrinks DEF KeyGroup
<1>1. w \in Live(n, S) /\ w \in S /\ w.target = t /\ ~IdempotencyConflict(n, S, w) /\ ~Duplicate(n, S, w)
    BY DEF Winner, Candidates, Live
<1>2. w \in Live(n + 1, S)
    <2>1. w.expires \in Int
        BY <1>1, IntentsAssumption DEF NoExpiry
    <2> QED
        BY <1>1, <2>1 DEF Live, Expired
<1>3. w \in Candidates(n + 1, S, t)
    BY <1>0, <1>1, <1>2 DEF Candidates, IdempotencyConflict, Duplicate
<1>4. ASSUME NEW j \in Candidates(n + 1, S, t) PROVE j \in Candidates(n, S, t)
    <2>1. j \in Live(n + 1, S) /\ j \in S /\ j.target = t /\ ~IdempotencyConflict(n, S, j)
          /\ ~Duplicate(n + 1, S, j)
        BY <1>4 DEF Candidates, Live
    <2>2. ~Duplicate(n, S, j)
        <3> SUFFICES ASSUME NEW g \in KeyGroup(n, S, j), g.id < j.id PROVE FALSE
            BY DEF Duplicate
        <3>1. g \in Live(n, S) /\ g \in S /\ g.key = j.key
            BY DEF KeyGroup, Live
        <3>2. j \in KeyGroup(n, S, j)
            BY <1>0, <2>1 DEF KeyGroup
        <3>3. SemanticSignature(g) = SemanticSignature(j)
            BY <2>1, <3>2 DEF IdempotencyConflict
        <3>4. g.expires = j.expires
            BY <2>1, <3>1, <3>3, SameExpiry
        <3>5. g \in Live(n + 1, S)
            BY <2>1, <3>1, <3>4 DEF Live, Expired
        <3>6. g \in KeyGroup(n + 1, S, j)
            BY <3>1, <3>5 DEF KeyGroup
        <3> QED
            BY <2>1, <3>6 DEF Duplicate
    <2> QED
        BY <1>0, <2>1, <2>2 DEF Candidates
<1> QED
    BY <1>3, <1>4 DEF Winner

\* For any intents: the passage of time unseats a winner only by its own
\* expiry, or by ending an idempotency conflict.
THEOREM ArbitrationTime == Spec => TimeUnseatsOnlyExpired
<1>1. PoolOK /\ [Next]_arbitrationVars =>
        [now' # now =>
            \A t \in Targets : \A w \in Win(t) :
                \/ w \in Win(t)'
                \/ w.expires # NoExpiry /\ w.expires <= now'
                \/ \E i \in pool : IdempotencyConflict(now, pool, i)
                                   /\ ~IdempotencyConflict(now', pool, i)]_arbitrationVars
    <2> SUFFICES ASSUME PoolOK, [Next]_arbitrationVars, now' # now, NEW t \in Targets, NEW w \in Win(t),
                        ~(w.expires # NoExpiry /\ w.expires <= now'),
                        \A i \in pool : IdempotencyConflict(now, pool, i) => IdempotencyConflict(now', pool, i)
                 PROVE  w \in Win(t)'
        OBVIOUS
    <2>1. now' = now + 1 /\ UNCHANGED pool
        BY DEF Next, Arrive, Withdraw, Tick, arbitrationVars
    <2>2. w \in Winner(now + 1, pool, t)
        BY <2>1, WinnerOutlives DEF PoolOK, Win
    <2> QED
        BY <2>1, <2>2 DEF Win
<1> QED
    BY <1>1, PoolInvariant, PTL DEF Spec, TimeUnseatsOnlyExpired

\* A newcomer that shares no key with an intent for the target adds at most
\* itself to the target's candidates.
LEMMA NewcomerAdds ==
    ASSUME NEW S, NEW x, NEW n, NEW t, \A i \in S : ~(i.key = x.key /\ i.target = t)
    PROVE  /\ Candidates(n, S, t) \subseteq Candidates(n, S \cup {x}, t)
           /\ Candidates(n, S \cup {x}, t) \subseteq Candidates(n, S, t) \cup {x}
<1>1. ASSUME NEW i \in S, i.target = t
      PROVE  /\ KeyGroup(n, S \cup {x}, i) = KeyGroup(n, S, i)
             /\ i \in Live(n, S \cup {x}) <=> i \in Live(n, S)
    <2>1. i.key # x.key
        BY <1>1
    <2> QED
        BY <2>1 DEF KeyGroup, Live
<1>2. ASSUME NEW i \in S, i.target = t
      PROVE  i \in Candidates(n, S \cup {x}, t) <=> i \in Candidates(n, S, t)
    <2>1. IdempotencyConflict(n, S \cup {x}, i) <=> IdempotencyConflict(n, S, i)
        BY <1>1, <1>2 DEF IdempotencyConflict
    <2>2. Duplicate(n, S \cup {x}, i) <=> Duplicate(n, S, i)
        BY <1>1, <1>2 DEF Duplicate
    <2> QED
        BY <1>1, <1>2, <2>1, <2>2 DEF Candidates
<1>3. \A i \in Candidates(n, S, t) : i \in S /\ i.target = t
    BY DEF Candidates, Live
<1>4. \A i \in Candidates(n, S \cup {x}, t) : (i \in S \/ i = x) /\ i.target = t
    BY DEF Candidates, Live
<1> QED
    BY <1>2, <1>3, <1>4

\* The candidates of C that win against every other one.
Strongest(C) == {i \in C : \A j \in C : j = i \/ CandidateWins(i, j)}

\* One more candidate takes the decision over or leaves it as it is.
LEMMA NewcomerWinsOrNot ==
    ASSUME NEW C, C \subseteq Intents, NEW x \in Intents
    PROVE  Strongest(C \cup {x}) = Strongest(C) \/ Strongest(C \cup {x}) = {x}
<1> DEFINE V == Strongest(C)
           W == Strongest(C \cup {x})
<1>0. /\ V = {i \in C : \A j \in C : j = i \/ CandidateWins(i, j)}
      /\ W = {i \in C \cup {x} : \A j \in C \cup {x} : j = i \/ CandidateWins(i, j)}
    BY DEF Strongest
<1> HIDE DEF V, W
<1> USE <1>0
<1> SUFFICES W = V \/ W = {x}
    BY DEF V, W
<1>1. CASE x \in W
    <2>1. ASSUME NEW w \in W, w # x PROVE FALSE
        <3>1. CandidateWins(x, w) /\ CandidateWins(w, x) /\ w \in Intents
            BY <1>1, <2>1
        <3> QED
            BY <3>1, WinsAsymmetric
    <2> QED
        BY <1>1, <2>1
<1>2. CASE x \notin W
    <2>1. PICK j \in C : j # x /\ ~CandidateWins(x, j)
        BY <1>2
    <2>2. CandidateWins(j, x)
        BY <2>1, WinsTotal
    <2>3. ASSUME NEW v \in V PROVE v \in W
        <3>1. v = j \/ CandidateWins(v, j)
            BY <2>3
        <3>2. CandidateWins(v, x)
            BY <2>2, <2>3, <3>1, WinsTransitive
        <3> QED
            BY <2>3, <3>2
    <2>4. ASSUME NEW w \in W PROVE w \in V
        BY <1>2, <2>4
    <2> QED
        BY <2>3, <2>4
<1> QED
    BY <1>1, <1>2

\* For any intents: a newcomer changes a decision only by winning it, or by
\* sharing the idempotency key of an intent for the same target.
THEOREM ArbitrationNewcomer == Spec => NewcomerChangesOnlyItsOwn
<1>1. PoolOK /\ [Next]_arbitrationVars =>
        [\A x \in pool' \ pool : \A t \in Targets :
            \/ Win(t)' = Win(t)
            \/ Win(t)' = {x}
            \/ \E i \in pool : i.key = x.key /\ i.target = t]_arbitrationVars
    <2> SUFFICES ASSUME PoolOK, [Next]_arbitrationVars, NEW x \in pool' \ pool, NEW t \in Targets,
                        \A i \in pool : ~(i.key = x.key /\ i.target = t)
                 PROVE  Win(t)' = Win(t) \/ Win(t)' = {x}
        OBVIOUS
    <2>1. x \in Intents /\ pool' = pool \cup {x} /\ UNCHANGED now
        BY DEF Next, Arrive, Withdraw, Tick, arbitrationVars
    <2> DEFINE C == Candidates(now, pool, t)
               D == Candidates(now, pool \cup {x}, t)
    <2>2. C \subseteq D /\ D \subseteq C \cup {x}
        BY NewcomerAdds
    <2>3. C \subseteq Intents
        BY DEF Candidates, Live, PoolOK
    <2>4. Win(t)' = Winner(now, pool \cup {x}, t)
        BY <2>1 DEF Win
    <2>5. Winner(now, pool \cup {x}, t) = Strongest(D) /\ Win(t) = Strongest(C)
        BY DEF Winner, Win, Strongest
    <2> HIDE DEF C, D
    <2>6. D = C \/ D = C \cup {x}
        BY <2>2
    <2>7. Strongest(C \cup {x}) = Strongest(C) \/ Strongest(C \cup {x}) = {x}
        BY <2>1, <2>3, NewcomerWinsOrNot
    <2> QED
        BY <2>4, <2>5, <2>6, <2>7
<1> QED
    BY <1>1, PoolInvariant, PTL DEF Spec, NewcomerChangesOnlyItsOwn
=============================================================================
