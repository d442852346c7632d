---------------------------- MODULE CaseEvaluation ----------------------------
(***************************************************************************)
(* evaluate_case of evaluation/pipeline.py: a frozen artifact is replayed  *)
(* under its envelope's retries, scored and gated, and leaves an attempt   *)
(* record, perhaps a result and perhaps a run.                             *)
(***************************************************************************)
EXTENDS Evaluation

VARIABLE evaluated   \* the last evaluation: its inputs and what was recorded

NotEvaluated == [none |-> TRUE]

EvaluationInit == evaluated = NotEvaluated

\* late is what the clock says at each of the readings of each attempt.
EvaluateCase(artifact, late, envelope, oracle, config) ==
    LET replay == RunReplay(artifact, late, envelope)
    IN  evaluated' = [artifact |-> artifact, late |-> late, envelope |-> envelope,
                      oracle |-> oracle, config |-> config,
                      made |-> Observe(replay, oracle, "replay", config)]
-----------------------------------------------------------------------------
\* A run, the record later comparisons rest on, exists exactly when a result
\* does, and then the artifact was the pinned one, within its limits, scorable,
\* and replayed in time at the attempt counted; before it nothing was repeated
\* that the envelope does not list, and a verdict of pass has no failed gate
\* (pipeline._assemble_observation, runner.run_replay).
EvaluationConsistent ==
    evaluated # NotEvaluated =>
        LET e == evaluated
            m == e.made
            intime(n) == \A k \in 1 .. 3 : ~e.late[n][k]
        IN  /\ m.run <=> m.result
            /\ m.result => /\ e.artifact.pinned /\ ~e.artifact.large /\ e.artifact.strict
                           /\ e.artifact.output.readable
                           /\ intime(m.attempts)
                           /\ DOMAIN m.scores = e.oracle
            /\ m.attempts \in 1 .. e.envelope.retries + 1
            /\ m.attempts > 1 => e.envelope.retryOn # {}
            /\ \A n \in 1 .. m.attempts - 1 : intime(n) =>
                  \/ ~e.artifact.pinned \/ e.artifact.large \/ ~e.artifact.strict
            /\ m.verdict = "pass" => \A g \in Gates : m.gates[g] # "fail"
            /\ m.status = "timeout" /\ "timeout" \in e.envelope.retryOn =>
                  m.attempts = e.envelope.retries + 1
=============================================================================
