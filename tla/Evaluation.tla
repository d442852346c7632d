------------------------------ MODULE Evaluation ------------------------------
(***************************************************************************)
(* The evaluation layer as pure operators: what a replayed or observed     *)
(* output becomes (evaluation/runner.py, gates.py, scorers.py,             *)
(* pipeline.py) and what a complete grid of runs may claim                 *)
(* (statistics.py, suite_comparison.py).                                   *)
(*                                                                         *)
(* An output is abstracted to what the scorers and the gates tell apart:   *)
(* the oracle fields it answers rightly, the forbidden marks it carries    *)
(* and whether it is an object a scorer can read.                          *)
(***************************************************************************)
EXTENDS Integers, FiniteSets, FiniteSetsExt, Sequences

ErrorClasses == {"timeout", "output_limit", "parse_error", "runner_error"}

NoOutput == [right |-> {}, marks |-> {}, readable |-> FALSE]
Success(output, n) == [ok |-> TRUE, error |-> "none", output |-> output, attempts |-> n]
Failure(error, n) == [ok |-> FALSE, error |-> error, output |-> NoOutput, attempts |-> n]

(***************************************************************************)
(* Replaying a frozen artifact.  `late` says, for each of the three times  *)
(* the clock is consulted, whether the budget was already spent.           *)
(***************************************************************************)
ReplayOnce(artifact, late, n) ==
    IF late[1] THEN Failure("timeout", n)
    ELSE IF ~artifact.pinned THEN Failure("runner_error", n)
    ELSE IF artifact.large THEN Failure("output_limit", n)
    ELSE IF late[2] THEN Failure("timeout", n)
    ELSE IF ~artifact.strict THEN Failure("parse_error", n)
    ELSE IF late[3] THEN Failure("timeout", n)
    ELSE Success(artifact.output, n)

\* Whether the loop returns this result instead of trying again.
Settled(replay, envelope) ==
    \/ replay.ok
    \/ replay.error \notin envelope.retryOn
    \/ replay.attempts > envelope.retries

\* late is a sequence of clock readings, one for every attempt the envelope
\* allows.
RunReplay(artifact, late, envelope) ==
    LET try(n) == ReplayOnce(artifact, late[n], n)
        last == CHOOSE n \in 1 .. envelope.retries + 1 :
                    /\ Settled(try(n), envelope)
                    /\ \A k \in 1 .. n - 1 : ~Settled(try(k), envelope)
    IN  try(last)

(***************************************************************************)
(* Scores and gates.                                                       *)
(***************************************************************************)
Unscored == << >>

\* One entry per field of the oracle; an output that is no object, or an
\* oracle without fields, cannot be scored.
ScoreWithOracle(output, oracle) ==
    IF output.readable /\ oracle # {}
    THEN [d \in oracle |-> IF d \in output.right THEN 1 ELSE 0]
    ELSE Unscored

Gates == {"integrity", "critical_safety", "regression", "resource", "privacy",
          "evaluator_integrity"}

PatternGate(replay, configured, mark) ==
    IF ~replay.ok \/ ~configured THEN "not_applicable"
    ELSE IF mark \in replay.output.marks THEN "fail" ELSE "pass"

\* floors: the lowest score accepted, by dimension.
RegressionGate(replay, scores, floors) ==
    IF ~replay.ok \/ scores = Unscored \/ DOMAIN floors = {} THEN "not_applicable"
    ELSE IF \E d \in DOMAIN floors : d \notin DOMAIN scores \/ scores[d] < floors[d]
         THEN "fail"
         ELSE "pass"

\* The tool every score here is made by, and whether a configuration names
\* another runner or another scorer.
ScorerTool == "oracle"
Foreign(runner, config) ==
    config.runner \notin {"any", runner} \/ config.scorer \notin {"any", ScorerTool}

EvaluateGates(replay, scores, runner, config) ==
    [g \in Gates |->
        CASE g = "integrity"       -> IF replay.error = "runner_error" THEN "fail" ELSE "pass"
          [] g = "resource"        -> IF replay.error \in {"timeout", "output_limit"}
                                      THEN "fail" ELSE "pass"
          [] g = "critical_safety" -> PatternGate(replay, config.safety, "unsafe")
          [] g = "privacy"         -> PatternGate(replay, config.privacy, "private")
          [] g = "regression"      -> RegressionGate(replay, scores, config.floors)
          [] OTHER -> IF config.runner = "any" /\ config.scorer = "any" THEN "not_applicable"
                      ELSE IF Foreign(runner, config) THEN "fail" ELSE "pass"]

AssembleVerdict(replay, gates, scores) ==
    IF ~replay.ok THEN "error"
    ELSE IF \E g \in DOMAIN gates : gates[g] = "fail" THEN "fail"
    ELSE IF scores = Unscored THEN "inconclusive" ELSE "pass"

(***************************************************************************)
(* The records made of one observation: the attempt always, the result     *)
(* once a score exists, the run for a verdict of pass or fail.             *)
(***************************************************************************)
Observe(replay, oracle, runner, config) ==
    LET scores  == IF replay.ok THEN ScoreWithOracle(replay.output, oracle) ELSE Unscored
        gates   == EvaluateGates(replay, scores, runner, config)
        broken  == replay.ok /\ scores = Unscored
        verdict == IF broken THEN "error" ELSE AssembleVerdict(replay, gates, scores)
    IN  [attempts |-> replay.attempts, scores |-> scores, gates |-> gates,
         verdict  |-> verdict,
         status   |-> IF broken THEN "scorer_error"
                      ELSE IF replay.ok THEN "completed" ELSE replay.error,
         result   |-> replay.ok /\ ~broken,
         run      |-> verdict \in {"pass", "fail"}]

(***************************************************************************)
(* The comparison of two arms over a complete grid.                        *)
(***************************************************************************)
FoldTwo(left, right) ==
    LET sides(g) == {r[g] : r \in {x \in {left, right} : g \in DOMAIN x}}
        listed   == {g \in Gates : sides(g) \cap {"pass", "fail"} # {}}
    IN  [g \in listed |-> IF "fail" \in sides(g) THEN "fail" ELSE "pass"]

\* The gates of a sequence of runs, folded two at a time from the left.
FoldManyGates(runs) ==
    LET fold[i \in 1 .. Len(runs)] ==
            IF i = 1 THEN runs[1].gates ELSE FoldTwo(fold[i - 1], runs[i].gates)
    IN  fold[Len(runs)]

Magnitude(x) == IF x < 0 THEN -x ELSE x
Total(d, S) == MapThenSumSet(LAMBDA i : d[i], S)

SignAssignments(pairs) == Cardinality(SUBSET (1 .. pairs))

\* The exact two-sided sign-flip test: how many of the sign assignments
\* move the mean at least as far from zero as the observed one.
Extreme(d) ==
    LET all == DOMAIN d
        observed == Magnitude(Total(d, all))
    IN  Cardinality({S \in SUBSET all :
                        Magnitude(Total(d, S) - Total(d, all \ S)) >= observed})

\* The sums a bootstrap resample can have; the interval takes two order
\* statistics of such sums.
ResampleSums(d) == {MapThenSumSet(LAMBDA i : d[f[i]], DOMAIN d) :
                        f \in [DOMAIN d -> DOMAIN d]}

\* Mutant of HolmAdjust: every p-value is multiplied by its own rank only, with
\* no running maximum.
HolmUnordered(p, unit) ==
    LET before(j, i) == p[j] < p[i] \/ (p[j] = p[i] /\ j < i)
        rank(i)   == Cardinality({j \in DOMAIN p : before(j, i)})
    IN  [i \in DOMAIN p |-> Min({unit, (1 + rank(i)) * p[i]})]

\* Holm's step-down adjustment of p-values given in units of 1/unit: the k-th
\* smallest is multiplied by the hypotheses left, and never falls below an
\* earlier one.
HolmAdjust(p, unit) ==
    LET before(j, i) == p[j] < p[i] \/ (p[j] = p[i] /\ j < i)
        rank(i)   == Cardinality({j \in DOMAIN p : before(j, i)})
        scaled(i) == Min({unit, (Cardinality(DOMAIN p) - rank(i)) * p[i]})
    IN  [i \in DOMAIN p |-> Max({scaled(j) : j \in {k \in DOMAIN p : rank(k) <= rank(i)}})]

\* low and high are sums over the pairs; rope and margin are means.
InferenceStatus(metric, pairs, low, high, adjusted, policy) ==
    CASE pairs < policy.minimumPairs -> "insufficient_pairs"
      [] pairs >= policy.minimumPairs /\ metric.role = "guardrail" ->
            CASE low >= -metric.margin * pairs -> "noninferior"
              [] high < -metric.margin * pairs -> "regression_supported"
              [] OTHER                         -> "inconclusive"
      [] pairs >= policy.minimumPairs /\ metric.role = "primary" ->
            CASE low > metric.rope * pairs /\ adjusted <= policy.error ->
                    "improvement_supported"
              [] high < -metric.rope * pairs /\ adjusted <= policy.error ->
                    "regression_supported"
              [] OTHER -> "inconclusive"

\* What the comparison says of every metric, given the two ends each
\* metric's resampled interval turned out to have.  p-values are counts of sign
\* assignments out of all; policy.error is in the same unit.
Compare(champion, challenger, ends, policy) ==
    LET pairs == Len(champion)
        diffs(m) == [i \in 1 .. pairs |->
            policy.metrics[m].sign * (challenger[i].scores[policy.metrics[m].dimension]
                                      - champion[i].scores[policy.metrics[m].dimension])]
        raw == [m \in DOMAIN policy.metrics |-> Extreme(diffs(m))]
        adjusted == HolmAdjust(raw, SignAssignments(pairs))
    IN  [raw |-> raw, adjusted |-> adjusted, pairs |-> pairs,
         gates |-> FoldManyGates(champion \o challenger),
         inference |-> [m \in DOMAIN policy.metrics |->
            InferenceStatus(policy.metrics[m], pairs, ends[m][1], ends[m][2],
                            adjusted[m], policy)]]

\* The intervals the resampling can produce for every metric.
IntervalEnds(champion, challenger, policy) ==
    LET diffs(m) == [i \in 1 .. Len(champion) |->
            policy.metrics[m].sign * (challenger[i].scores[policy.metrics[m].dimension]
                                      - champion[i].scores[policy.metrics[m].dimension])]
        sums == UNION {ResampleSums(diffs(m)) : m \in DOMAIN policy.metrics}
    IN  {e \in [DOMAIN policy.metrics -> sums \X sums] :
            \A m \in DOMAIN policy.metrics :
                /\ e[m][1] \in ResampleSums(diffs(m)) /\ e[m][2] \in ResampleSums(diffs(m))
                /\ e[m][1] <= e[m][2]}
=============================================================================
