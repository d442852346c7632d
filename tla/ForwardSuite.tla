----------------------------- MODULE ForwardSuite -----------------------------
(***************************************************************************)
(* The synthetic forward test and suite (evolution/skill_forward_test.py,  *)
(* skill_forward_suite.py): a plan is checked whole before any arm starts; *)
(* then every cell of the case/seed grid runs its baseline and its         *)
(* candidate arm through one adapter, each with the retries the frozen     *)
(* envelope allows; only a complete grid is compared.                      *)
(*                                                                         *)
(* `made` counts the calls the adapter really received.                    *)
(***************************************************************************)
EXTENDS Evaluation

VARIABLES plan,        \* the plan under way
          phase,       \* idle, running, observed, or how the suite ended
          tries,       \* attempts of the arm under way
          made,        \* calls of the adapter since the suite began
          results,     \* observations, baseline and candidate of each cell in turn
          comparison   \* what was claimed at the end

suiteVars == <<plan, phase, tries, made, results, comparison>>

NoPlan == [cases |-> {}]
NoComparison == [pairs |-> 0]

SuiteInit ==
    /\ plan = NoPlan
    /\ phase = "idle"
    /\ tries = 0
    /\ made = 0
    /\ results = << >>
    /\ comparison = NoComparison

PlannedCells(p) == Cardinality(p.cases) * Cardinality(p.seeds)

WorstCase(p) == PlannedCells(p) * 2 * (p.envelope.retries + 1)

\* The metrics pre-registered and the fields every case's oracle scores.
MetricContract(p) ==
    p.oracle = {p.policy.metrics[m].dimension : m \in DOMAIN p.policy.metrics}

\* Everything checked before the first cell: the suite's own rules, and the
\* preflight of every cell.  routed: the trigger mode, the expected route and the
\* oracle agree; exact: the case input is the one the case pins.
Derivable(p) ==
    /\ p.cases # {}
    /\ \E m \in DOMAIN p.policy.metrics : p.policy.metrics[m].role = "guardrail"
    /\ WorstCase(p) <= p.maxAttempts
    /\ p.cases = p.members
    /\ MetricContract(p)
    /\ p.routed /\ p.exact
    /\ p.pinned
    /\ p.config.runner = p.runner /\ p.config.scorer # "any"

Blockers(p) ==
    {b \in {"static_validation_not_passed", "semantic_not_accepted", "not_synthetic"} :
        \/ b = "static_validation_not_passed" /\ p.static # "static_pass"
        \/ b = "semantic_not_accepted" /\ p.semantic # "protocol_accept"
        \/ b = "not_synthetic" /\ ~p.synthetic}

\* A suite is handed to the runner.
Submit(p) ==
    /\ phase = "idle"
    /\ plan' = p
    /\ phase' = IF ~Derivable(p) THEN "refused"
                ELSE IF Blockers(p) # {} THEN "prerequisite_rejected" ELSE "running"
    /\ UNCHANGED <<tries, made, results, comparison>>

\* What an adapter answered, as the caller takes it: an exception, a value that
\* is no result or a hash that does not fit is a runner error, and the count of
\* attempts is the caller's.
Normalize(raw, n) ==
    CASE raw.kind = "output"          -> Success(raw.output, n)
      [] raw.kind \in ErrorClasses    -> Failure(raw.kind, n)
      [] OTHER                        -> Failure("runner_error", n)

\* One call of the adapter for the arm under way; the arm is over when its result
\* is settled, and the grid when its last arm is.
Attempt(raw) ==
    /\ phase = "running"
    /\ made' = made + 1
    /\ LET replay == Normalize(raw, tries + 1)
           over   == Settled(replay, plan.envelope)
       IN  /\ tries' = IF over THEN 0 ELSE tries + 1
           /\ results' = IF over
                         THEN Append(results, Observe(replay, plan.oracle, plan.runner,
                                                      plan.config))
                         ELSE results
    /\ phase' = IF Len(results') = 2 * PlannedCells(plan) THEN "observed" ELSE "running"
    /\ UNCHANGED <<plan, comparison>>

Arm(offset) == [c \in 1 .. Len(results) \div 2 |-> results[2 * c - offset]]
Baseline == Arm(1)
Candidate == Arm(0)

GridComplete ==
    \A c \in 1 .. Len(results) \div 2 : Baseline[c].run /\ Candidate[c].run

AttemptsOf(observations) ==
    LET sum[n \in 0 .. Len(observations)] ==
            IF n = 0 THEN 0 ELSE sum[n - 1] + observations[n].attempts
    IN  sum[Len(observations)]

ObservedAttempts == AttemptsOf(results)

\* The suite ends, inconclusive if any cell has no run.
ConcludeIncomplete ==
    /\ phase = "observed"
    /\ ~GridComplete
    /\ phase' = "execution_inconclusive"
    /\ UNCHANGED <<plan, tries, made, results, comparison>>

ConcludeCompared ==
    /\ phase = "observed"
    /\ GridComplete
    /\ phase' = "suite_comparison_completed"
    /\ \E ends \in IntervalEnds(Baseline, Candidate, plan.policy) :
           comparison' = Compare(Baseline, Candidate, ends, plan.policy)
    /\ UNCHANGED <<plan, tries, made, results>>

\* The suite's outcome is handed over and the runner can be given another plan.
Collect ==
    /\ phase \in {"refused", "prerequisite_rejected", "execution_inconclusive",
                  "suite_comparison_completed"}
    /\ plan' = NoPlan
    /\ phase' = "idle"
    /\ tries' = 0
    /\ made' = 0
    /\ results' = << >>
    /\ comparison' = NoComparison
-----------------------------------------------------------------------------
\* The attempts the records report are the calls the adapter received, arm by
\* arm and retries included; they never pass the budget frozen in the plan, and a
\* suite that is refused or blocked has called the adapter for no arm
\* (skill_forward_test._execute_with_retries, skill_forward_suite._validate_budget).
AttemptsAccounted ==
    /\ made = ObservedAttempts + tries
    /\ phase \in {"running", "observed", "execution_inconclusive",
                  "suite_comparison_completed"} =>
          /\ made <= plan.maxAttempts
          /\ Blockers(plan) = {}
    /\ phase \in {"refused", "prerequisite_rejected"} => made = 0

\* A comparison stands on the whole grid: every case of the frozen suite under
\* every seed has a scored run in both arms, and the gate summary fails exactly
\* the gates some run failed (skill_forward_suite.run_skill_forward_suite,
\* suite_comparison._fold_many_gates).
ComparisonWhole ==
    phase = "suite_comparison_completed" =>
        LET gate(g) == {results[i].gates[g] : i \in DOMAIN results}
        IN  /\ comparison.pairs = Cardinality(plan.members) * Cardinality(plan.seeds)
            /\ Len(results) = 2 * comparison.pairs
            /\ \A i \in DOMAIN results :
                  results[i].result /\ DOMAIN results[i].scores = plan.oracle
            /\ DOMAIN comparison.gates = {g \in Gates : gate(g) # {"not_applicable"}}
            /\ \A g \in DOMAIN comparison.gates :
                  comparison.gates[g] = "fail" <=> "fail" \in gate(g)

\* A supported claim survives the correction for several metrics: every group of
\* metrics that holds the claimed one has a p-value below its share of the
\* family-wise error, and the sample has the size the policy froze
\* (suite_comparison._holm_adjust, compare_suite).
ClaimsCorrected ==
    phase = "suite_comparison_completed" =>
        \A m \in DOMAIN plan.policy.metrics :
            LET metric == plan.policy.metrics[m]
                said   == comparison.inference[m]
            IN  /\ said # "insufficient_pairs" =>
                      comparison.pairs >= plan.policy.minimumPairs
                /\ said = "improvement_supported"
                   \/ (said = "regression_supported" /\ metric.role = "primary") =>
                      \A S \in SUBSET DOMAIN plan.policy.metrics :
                          m \in S => \E k \in S :
                              Cardinality(S) * comparison.raw[k] <= plan.policy.error

\* What a suite reports is what it did, and claims no more than that bears.
SuiteJustified == AttemptsAccounted /\ ComparisonWhole /\ ClaimsCorrected
=============================================================================
