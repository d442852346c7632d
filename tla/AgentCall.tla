------------------------------- MODULE AgentCall -------------------------------
(***************************************************************************)
(* One bounded agent job as public_failure_capture.py,                     *)
(* skill_candidate_proposal.py and agent_forward_trial.py all run it: a    *)
(* temporary root, one prepared workspace and one executor call for each   *)
(* arm, then the removal of the root whatever happened, and only then a    *)
(* conclusion from what the executor reported.                             *)
(*                                                                         *)
(* `alive` is the truth the program cannot see: the arms whose process     *)
(* tree still has a running process.                                       *)
(***************************************************************************)
EXTENDS Evaluation

CONSTANT Session   \* session identities an agent may report, non-zero numbers

VARIABLES job,       \* the job under way and its plan
          step,      \* idle, prepare, execute, cleanup, conclude
          arms,      \* arms still to run, in order
          root,      \* the temporary root: none, made, gone, left, abandoned
          observed,  \* what was recorded of each arm that ran
          alive,     \* arms with a process still running
          outcome    \* how the last job ended, and what it was drawn from

callVars == <<job, step, arms, root, observed, alive, outcome>>

NoJob == [kind |-> "none"]
NoOutcome == [status |-> "none"]
NoObservations == [a \in {} |-> 0]

CallInit ==
    /\ job = NoJob
    /\ step = "idle"
    /\ arms = << >>
    /\ root = "none"
    /\ observed = NoObservations
    /\ alive = {}
    /\ outcome = NoOutcome

(***************************************************************************)
(* Observations.  Session 0 is no session; loaded says which Skill the     *)
(* answer reports as loaded.                                               *)
(***************************************************************************)
StatusPairs ==
    {<<"not_applicable", "not_applicable">>, <<"completed", "not_required">>,
     <<"completed", "verified">>, <<"completed", "failed">>, <<"timeout", "verified">>,
     <<"launch_failed", "not_started">>, <<"cleanup_failed", "failed">>,
     <<"executor_failed", "unverified">>, <<"executor_failed", "verified">>}

Verified(o) == o.cleanup \in {"not_applicable", "not_required", "not_started", "verified"}

Consistent(o) ==
    /\ <<o.status, o.cleanup>> \in StatusPairs
    /\ o.turn => o.session # 0

ExecutorFailed ==
    [replay |-> Failure("runner_error", 1), session |-> 0, turn |-> FALSE,
     loaded |-> "none", status |-> "executor_failed", cleanup |-> "unverified"]

StreamLimits == {"stdout_limit_exceeded", "stderr_limit_exceeded"}

\* What the Codex adapter makes of one contained process, the trace it printed
\* and the final output it left: the first thing amiss decides, and a call
\* that was stopped attests no completed turn.
CodexObservation(contained, trace, final) ==
    LET error ==
            CASE contained.code = "timeout"                       -> "timeout"
              [] contained.code \in StreamLimits                 -> "output_limit"
              [] contained.code \notin StreamLimits \cup {"none", "timeout"} -> "runner_error"
              [] contained.code = "none" /\ contained.status = "timeout" -> "timeout"
              [] contained.code = "none" /\
                 contained.status \in {"cleanup_failed", "launch_failed"}
                                                               -> "runner_error"
              [] contained.code = "none" /\ contained.status = "completed" ->
                    IF contained.exit # 0 \/ contained.cleanup = "failed" THEN "runner_error"
                    ELSE IF trace.error THEN "parse_error"
                    ELSE CASE final.kind = "missing"   -> "runner_error"
                           [] final.kind = "too_large" -> "output_limit"
                           [] final.kind = "malformed" -> "parse_error"
                           [] final.kind = "output"    -> "none"
        replay == IF error = "none" THEN Success(final.output, 1) ELSE Failure(error, 1)
    IN  [replay |-> replay, session |-> trace.session,
         turn   |-> contained.code = "none" /\ trace.completed,
         loaded |-> IF replay.ok THEN final.loaded ELSE "none",
         status |-> contained.status, cleanup |-> contained.cleanup]

(***************************************************************************)
(* The steps of a job.                                                     *)
(***************************************************************************)
\* A real executor runs with the least privilege only.
LeastPrivilege(p) == p.real => p.confined

\* A plan that passed its checks gets a temporary root.  A root that turns out
\* to be no plain directory ends the job before the clause that would remove it.
Begin(plan, order) ==
    /\ step = "idle" /\ outcome = NoOutcome
    /\ UNCHANGED outcome
    /\ \/ step' = "prepare"  /\ root' = "made"      /\ job' = plan
       \/ step' = "conclude" /\ root' = "abandoned" /\ job' = [plan EXCEPT !.raised = TRUE]
    /\ arms' = order
    /\ observed' = NoObservations
    /\ alive' = {}

\* Writing the workspace of the next arm; a failing file system ends the job.
Prepare ==
    /\ step = "prepare"
    /\ step' \in {"execute", "cleanup"}
    /\ job' = IF step' = "execute" THEN job ELSE [job EXCEPT !.raised = TRUE]
    /\ UNCHANGED <<arms, root, observed, alive, outcome>>

\* The executor returned, raised, raised the very error class of the job's own
\* module, or handed back something that is no observation; to the trial each of
\* the last three is just a failed executor.  Whether a process is left is known to
\* nobody but is excluded where the containment verified that none is.
Execute(answer) ==
    /\ step = "execute"
    /\ LET arm == Head(arms)
           raises == \/ answer.kind \in {"invalid", "own_error"} /\ job.kind # "trial"
                     \/ answer.kind = "observation" /\ ~Consistent(answer.seen)
           seen == IF answer.kind = "observation" THEN answer.seen ELSE ExecutorFailed
       IN  /\ \E left \in SUBSET {arm} :
                 /\ answer.kind = "observation" /\ Verified(answer.seen) => left = {}
                 /\ alive' = alive \cup left
           /\ observed' = [a \in DOMAIN observed \cup {arm} |->
                              IF a = arm THEN seen ELSE observed[a]]
           /\ job' = [job EXCEPT !.raised = raises]
           /\ step' = IF ~raises /\ Len(arms) > 1 THEN "prepare" ELSE "cleanup"
           /\ arms' = Tail(arms)
    /\ UNCHANGED <<root, outcome>>

\* Mutant of CleanUp: the root is removed only when nothing was raised.
CleanUpUnlessRaised ==
    /\ step = "cleanup"
    /\ root' \in IF job.raised THEN {root} ELSE {"gone", "left"}
    /\ step' = "conclude"
    /\ UNCHANGED <<job, arms, observed, alive, outcome>>

\* The root is removed in any case; removal may fail.
CleanUp ==
    /\ step = "cleanup"
    /\ root' \in {"gone", "left"}
    /\ step' = "conclude"
    /\ UNCHANGED <<job, arms, observed, alive, outcome>>

\* The job is over: an exception goes on its way, or a status has been drawn.
Over(status) ==
    /\ step = "conclude"
    /\ outcome' = [status |-> IF job.raised THEN "raised" ELSE status, plan |-> job,
                   seen |-> observed, root |-> root, alive |-> alive]
    /\ step' = "idle"
    /\ job' = NoJob
    /\ arms' = << >>
    /\ root' = "none"
    /\ observed' = NoObservations
    /\ alive' = {}

\* The caller has taken the outcome.
Taken ==
    /\ step = "idle" /\ outcome # NoOutcome
    /\ outcome' = NoOutcome
    /\ UNCHANGED <<job, step, arms, root, observed, alive>>

\* What every job holds against a clean run of one arm.
ArmBlockers(arm, real) ==
    {b \in {"process_tree_cleanup_failed", "session_missing", "turn_incomplete"} :
        \/ b = "process_tree_cleanup_failed" /\ ~Verified(observed[arm])
        \/ b = "session_missing" /\ real /\ observed[arm].session = 0
        \/ b = "turn_incomplete" /\ real /\ ~observed[arm].turn}
-----------------------------------------------------------------------------
\* No job ends, in a status or in an exception, before the removal of its
\* temporary root was tried, but one that refused the root itself, and that one
\* raises and has started nothing in it; and a status that vouches for the run is
\* never drawn over a directory or a process left behind (the three
\* _safe_cleanup calls, process_tree_cleanup_verified, _assert_plain_directory).
CleanStatuses == {"qualified_failure", "no_failure", "proposal_ready", "proposal_rejected",
                  "smoke_completed"}

LeftoversNeverVouched ==
    outcome # NoOutcome =>
        /\ outcome.root \in {"gone", "left", "abandoned"}
        /\ outcome.root = "abandoned" =>
              outcome.status = "raised" /\ DOMAIN outcome.seen = {} /\ outcome.alive = {}
        /\ outcome.status \in CleanStatuses => outcome.root = "gone" /\ outcome.alive = {}
=============================================================================
