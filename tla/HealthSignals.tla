---------------------------- MODULE HealthSignals ----------------------------
(***************************************************************************)
(* What the monitor's checks and the real traffic say about an account:    *)
(* internal/health/v3.go and the parts of internal/reconcile/engine.go     *)
(* that feed it.  Pure operators, no state.                                *)
(*                                                                         *)
(* A check is a record [status, class, http, latency] of the monitor       *)
(* history (oldest first in a sequence); the text of its message is known  *)
(* by the error class it was stored with.  A traffic window is             *)
(* [ok, hard, other, week]: successes, errors that count (credential,      *)
(* infrastructure, capacity, unknown), errors that do not, and the         *)
(* monitor's seven-day availability (100 when it has none).                *)
(* Rates are compared by cross-multiplication, so all numbers are whole.   *)
(***************************************************************************)
EXTENDS Integers, Sequences, FiniteSets

CONSTANTS
    Settings,       \* model.Settings: thresholds, a zero stands for "unset"
    AccountPolicy,  \* model.Policy: the settings this account overrides
    Recent, Kept    \* lengths of the short and the long window (10 and 60)

ASSUME WindowsAssumption == Recent \in 1..Kept /\ Kept \in Nat

larger(a, b) == IF a > b THEN a ELSE b

\* The settings of the account: its own policy wins, field by field.
ResolveSettings ==
    [k \in DOMAIN Settings |-> IF k \in DOMAIN AccountPolicy THEN AccountPolicy[k] ELSE Settings[k]]

\* The thresholds the evaluator uses: what the engine passes, where it is sane,
\* else the built-in value.
normalizeV3Policy ==
    LET s == ResolveSettings
        Sane(value, ok, default) == IF ok THEN value ELSE default
        pauseBelow == Sane(s.pauseBelow, s.pauseBelow \in 1..99, 80)
        warning    == Sane(s.warning, s.warning > 0, 5000)
        full       == Sane(s.full, s.full \in 1..100, 85)
        reduce80   == Sane(s.reduce80, s.reduce80 \in 1..(full - 1), 70)
    IN  [ minTraffic |-> larger(20, s.minSamples),
          streak     |-> larger(1, s.failureThreshold),
          inWindow   |-> larger(s.hardFailures10, s.failureThreshold),
          pauseBelow |-> pauseBelow,
          healthyAt  |-> Sane(s.healthyAt, s.healthyAt \in (pauseBelow + 1)..100, 95),
          warning    |-> warning,
          critical   |-> Sane(s.critical, s.critical > warning, 15000),
          full       |-> full,
          reduce80   |-> reduce80,
          reduce50   |-> Sane(s.reduce50, s.reduce50 \in 1..(reduce80 - 1), 55),
          slowRate   |-> Sane(s.slowRate, s.slowRate \in 1..100, 10) ]

\* The stored error class decides the status code the classifier sees.
v3CheckFromHistory(item) ==
    [item EXCEPT !.http = CASE item.class = "credential" -> 401
                            [] item.class = "infrastructure" /\ item.http = 0 -> 502
                            [] item.class = "capacity" -> 429
                            [] OTHER -> item.http]

\* Specific causes are recognised before the bare status; order matters.
ClassifyCheck(check) ==
    LET slowAt == IF ResolveSettings.warning > 0 THEN ResolveSettings.warning ELSE 6000
    IN  IF check.http \in {401, 403} THEN "credential_failure"
        ELSE IF check.class = "model_capability" THEN "model_unsupported"
        ELSE IF check.class = "semantic" THEN "semantic_mismatch"
        ELSE IF check.class = "client" THEN "client_error"
        ELSE IF check.http = 429 THEN "capacity_limited"
        ELSE IF check.http >= 500 \/ check.class = "infrastructure" THEN "infrastructure_failure"
        ELSE IF check.http >= 400 \/ check.status = "client_error" THEN "client_error"
        ELSE IF check.status = "degraded" \/ check.latency >= slowAt THEN "performance_slow"
        ELSE IF check.status = "operational" THEN "operational"
        ELSE IF check.status \in {"failed", "error"} THEN "infrastructure_failure"
        ELSE "unknown"

Signal(item) == ClassifyCheck(v3CheckFromHistory(item))

Succeeded == {"operational", "performance_slow", "semantic_mismatch"}
Counted   == Succeeded \cup {"credential_failure", "infrastructure_failure", "capacity_limited"}

\* The indices of the last n checks.
classifiedWindow(hist, n) == {i \in 1..Len(hist) : i > Len(hist) - n}

countClass(hist, W, class) == Cardinality({i \in W : Signal(hist[i]) = class})

\* The share of a class among the checks of the window that count is at least pct.
classRateReaches(hist, W, class, pct) ==
    LET counted == Cardinality({i \in W : Signal(hist[i]) \in Counted})
    IN  counted > 0 /\ 100 * countClass(hist, W, class) >= pct * counted

\* How many of the newest checks lie in the class.
trailingClassCount(hist, class) ==
    Len(hist) - Cardinality({i \in 1..Len(hist) :
                                \E j \in i..Len(hist) : Signal(hist[j]) \notin class})

trailingV3Successes(hist) == trailingClassCount(hist, Succeeded)

\* The k-th smallest of the latencies measured at the indices I.
KthLatency(hist, I, k) ==
    CHOOSE v \in {hist[i].latency : i \in I} :
        /\ Cardinality({i \in I : hist[i].latency < v}) < k
        /\ Cardinality({i \in I : hist[i].latency <= v}) >= k

Measured(hist) == {i \in 1..Len(hist) : Signal(hist[i]) \in Succeeded /\ hist[i].latency > 0}

percentile90(hist) ==
    LET I == Measured(hist)
    IN  IF I = {} THEN 0 ELSE KthLatency(hist, I, (9 * Cardinality(I) + 9) \div 10)

\* Twice the median, which is whole.
v3LatencyBaseline(hist) ==
    LET I == Measured(hist)
        n == Cardinality(I)
    IN  IF I = {} THEN 0
        ELSE KthLatency(hist, I, (n + 1) \div 2) + KthLatency(hist, I, n \div 2 + 1)

absoluteLatencyPenalty(latency) ==
    LET p == normalizeV3Policy
    IN  IF latency <= 0 \/ latency < p.warning THEN 0
        ELSE IF latency < p.critical THEN 4
        ELSE IF latency < 2 * p.critical THEN 8
        ELSE IF latency < 4 * p.critical THEN 16
        ELSE 30

relativeLatencyPenalty(latency, twice) ==
    IF latency <= 0 \/ twice <= 0 \/ 4 * latency <= 3 * twice THEN 0
    ELSE IF latency <= twice THEN 4
    ELSE IF 2 * latency <= 3 * twice THEN 8
    ELSE IF 2 * latency <= 5 * twice THEN 14
    ELSE IF latency <= 4 * twice THEN 22
    ELSE 30

longTermPenalty(rate) ==
    IF rate >= 99 THEN 0
    ELSE IF rate >= 97 THEN 1
    ELSE IF rate >= 95 THEN 2
    ELSE IF rate >= 90 THEN 5
    ELSE IF rate >= 80 THEN 8
    ELSE 10

setLoadFromQuality(quality) ==
    LET p == normalizeV3Policy
    IN  IF quality >= p.full THEN 100
        ELSE IF quality >= p.reduce80 THEN 80
        ELSE IF quality >= p.reduce50 THEN 50
        ELSE 25

\* Each cause that holds caps the load; the smallest cap wins.
capLoad(load, caps) ==
    LET bounds == {load} \cup {c[2] : c \in {d \in caps : d[1]}}
    IN  CHOOSE b \in bounds : \A a \in bounds : b <= a

EligibleCount(traffic) == traffic.ok + traffic.hard

\* The decision: pause the account, or the share of its load it may carry.
EvaluateV3(hist, traffic) ==
    LET p        == normalizeV3Policy
        last     == classifiedWindow(hist, Recent)
        infra    == countClass(hist, last, "infrastructure_failure")
        capacity == countClass(hist, last, "capacity_limited")
        p90      == percentile90(hist)
        latency  == larger(absoluteLatencyPenalty(p90), relativeLatencyPenalty(p90, v3LatencyBaseline(hist)))
        unmeasured == IF p90 = 0 /\ countClass(hist, 1..Len(hist), "performance_slow") > 0 THEN 4 ELSE 0
        quality  == larger(0, 100 - latency - unmeasured - longTermPenalty(traffic.week))
        enough   == EligibleCount(traffic) >= p.minTraffic
        proven   == enough /\ 100 * traffic.ok >= p.healthyAt * EligibleCount(traffic)
        failing  == enough /\ 100 * traffic.ok < p.pauseBelow * EligibleCount(traffic)
        down     == \/ trailingClassCount(hist, {"infrastructure_failure"}) >= p.streak
                    \/ infra >= p.inWindow
        refused  == hist # <<>> /\ Signal(hist[Len(hist)]) = "credential_failure"
        slow     == \E n \in {Recent, Kept} :
                        classRateReaches(hist, classifiedWindow(hist, n), "performance_slow", p.slowRate)
        caps     == { <<infra >= 1, 50>>, <<infra >= 2, 25>>, <<capacity >= 1, 50>>, <<capacity >= 2, 25>>,
                      <<slow, 80>>, <<down /\ proven, 25>>,
                      <<countClass(hist, last, "semantic_mismatch") > 0 /\ ~proven, 80>> }
        pause    == refused \/ failing \/ (down /\ ~proven)
    IN  [pause |-> pause, load |-> IF pause THEN 0 ELSE capLoad(setLoadFromQuality(quality), caps)]

\* What the engine keeps of it: with how many successes the history ends.
healthDecisionFromResult(hist, traffic) ==
    [pause |-> EvaluateV3(hist, traffic).pause, load |-> EvaluateV3(hist, traffic).load,
     successes |-> trailingV3Successes(hist)]

loadStageForPercent(percent) ==
    IF percent <= 25 THEN "limited25"
    ELSE IF percent <= 50 THEN "limited50"
    ELSE IF percent <= 80 THEN "limited80"
    ELSE "healthy"
=============================================================================
