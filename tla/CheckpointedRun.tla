----------------------------- MODULE CheckpointedRun -----------------------------
(***************************************************************************)
(* run_fixture of adapters/deep_learning/runner.py, runner 0.2.0: training *)
(* under a budget, with early stopping, checkpoints and exact resumption.  *)
(* A caller runs one problem in several calls and keeps every checkpoint   *)
(* payload they return; each call starts fresh or resumes one of them.     *)
(*                                                                         *)
(* The model after n steps is the number n: training is deterministic and  *)
(* the training identity pins everything it depends on.  An epoch is a     *)
(* step, and a step costs a fixed number of operations, so that each cap   *)
(* is a number of steps.  A call that is refused changes nothing.          *)
(***************************************************************************)
EXTENDS Integers, Sequences

CONSTANTS
    MaxStep,        \* bound on the steps a caller requests
    MaxRuns,        \* bound on the calls
    MaxMetric,      \* _MAX_ABS_VALUE, beyond which no metric is resumed
    Problem,        \* validation losses per step, and the early stopping policy
    Request,        \* what a call may ask for, the checkpoint apart
    Uninterrupted   \* per problem, the early stopping state after n steps in one run

NonFinite == -1                             \* _loss or _train_step raises ArithmeticError
NoCap == -1

Retention == {"none", "all", "last", "last_n", "best_and_last"}

Losses == [0 .. MaxStep -> Nat \cup {NonFinite}]

\* max_samples as whether the rows fit; a cap of 0 operations is less than one step costs.
Budget == [rowsFit : BOOLEAN, max_steps : Nat \cup {NoCap}, max_epochs : Nat \cup {NoCap},
           max_flops : Nat \cup {NoCap}]

Ref == [run : Nat, step : Nat, loss : Nat]
NoRef == [run |-> 0, step |-> 0, loss |-> 0]

EarlyState == [best_metric : Nat, best_step : Nat, non_improving : Nat]

ASSUME ConstantsAssumption ==
    /\ MaxStep \in Nat /\ MaxRuns \in Nat /\ MaxMetric \in Nat
    /\ Problem \subseteq [loss : Losses, enabled : BOOLEAN, patience : Nat, min_delta : Nat,
                          warmup : Nat]
    /\ \A p \in Problem : p.loss[0] # NonFinite
    /\ Request \subseteq [requested : 1 .. MaxStep, inject : 0 .. MaxStep, budget : Budget,
                          retention : Retention, max_retained : Nat]
    /\ Request # {}
    /\ \A c \in Request : c.retention = "last_n" => c.max_retained > 0

VARIABLES
    problem,    \* the fixture without requested_steps and failure_injection
    kept,       \* the checkpoint payloads the caller holds
    runs,       \* calls so far
    call,       \* the request of the running or of the last call
    origin,     \* the checkpoint it resumed, a set of at most one
    status,     \* "idle", "training", or how the loop ended
    step,       \* cumulative steps consumed
    early,      \* early_state without best_checkpoint
    best,       \* early_state["best_checkpoint"]
    candidates, \* checkpoints of this call, oldest first
    result      \* what the last call returned

vars == <<problem, kept, runs, call, origin, status, step, early, best, candidates, result>>

-----------------------------------------------------------------------------
(* Early stopping *)

Improves(p, e, loss) == loss < e.best_metric - p.min_delta

Fresh(p) == [best_metric |-> p.loss[0], best_step |-> 0, non_improving |-> 0]

\* _update_early_stopping after step n
Updated(p, e, n) ==
    IF Improves(p, e, p.loss[n])
    THEN [best_metric |-> p.loss[n], best_step |-> n, non_improving |-> 0]
    ELSE [e EXCEPT !.non_improving = IF p.enabled /\ n > p.warmup THEN @ + 1 ELSE @]

ShouldStop(p, e) == p.enabled /\ e.non_improving >= p.patience

\* One run over all steps, never stopped: the reference every chain of calls is
\* compared with.
ASSUME UninterruptedAssumption ==
    \A p \in Problem :
        /\ Uninterrupted[p][0] = Fresh(p)
        /\ \A n \in 1 .. MaxStep :
              p.loss[n] # NonFinite => Uninterrupted[p][n] = Updated(p, Uninterrupted[p][n - 1], n)

-----------------------------------------------------------------------------
(* Budget *)

Dimension == {"max_steps", "max_epochs", "max_flops"}
Caps(b) == {d \in Dimension : b[d] # NoCap}
Priority == [max_steps |-> 1, max_epochs |-> 2, max_flops |-> 3]

\* Mutant of Room: a resumed run gets the whole budget again.
RoomForSegment(b, d, prior) == b[d]

Room(b, d, prior) == IF b[d] > prior THEN b[d] - prior ELSE 0

\* The smallest cap; min keeps the first on a tie.
Tightest(b, prior) ==
    CHOOSE d \in Caps(b) : \A e \in Caps(b) \ {d} :
        \/ Room(b, d, prior) < Room(b, e, prior)
        \/ Room(b, d, prior) = Room(b, e, prior) /\ Priority[d] < Priority[e]

\* allowed_steps of _plan_budget_v2
Allowed(c, prior) ==
    LET remaining == c.requested - prior
        room == Room(c.budget, Tightest(c.budget, prior), prior)
    IN  IF ~c.budget.rowsFit THEN 0 ELSE IF room < remaining THEN room ELSE remaining

\* exhausted_dimension of _plan_budget_v2
Exhausted(c, prior) ==
    IF ~c.budget.rowsFit THEN "max_samples"
    ELSE IF Allowed(c, prior) = c.requested - prior THEN "none"
    ELSE Tightest(c.budget, prior)

-----------------------------------------------------------------------------
(* Checkpoints *)

\* _make_checkpoint: the state of run n, and the best checkpoint unless this is it.
Checkpoint(n, k, e, b) ==
    [run |-> n, step |-> k, loss |-> problem.loss[k], early |-> e, best |-> b]

\* _checkpoint_reference
RefOf(c) == [run |-> c.run, step |-> c.step, loss |-> c.loss]

\* Mutant of RestoredBest: the checkpoint that is resumed counts as the best.
RestoredAsBest(c) == RefOf(c)

\* _validate_early_state: no best checkpoint means the checkpoint itself.
RestoredBest(c) == IF c.best = NoRef THEN RefOf(c) ELSE c.best

\* selected_ids of _retain_checkpoints
Retained(cs, c, b) ==
    LET refs == [i \in 1 .. Len(cs) |-> RefOf(cs[i])]
        last == refs[Len(refs)]
    IN  CASE c.retention = "none" -> <<>>
          [] c.retention = "all" -> refs
          [] c.retention = "last" -> <<last>>
          [] c.retention = "last_n" ->
                IF c.max_retained < Len(refs)
                THEN SubSeq(refs, Len(refs) - c.max_retained + 1, Len(refs))
                ELSE refs
          [] c.retention = "best_and_last" -> IF b = last THEN <<b>> ELSE <<b, last>>

\* The bytes of the retained checkpoints this call has: of a best checkpoint older than
\* the one it resumed there is only the reference.
Payloads(cs, refs) == {cs[i] : i \in {j \in 1 .. Len(cs) : \E k \in 1 .. Len(refs) : refs[k] = RefOf(cs[j])}}

\* best_checkpoint of _build_result_v2: the policy's if it was retained, else the
\* first of least loss.
Selected(refs, b) ==
    IF refs = <<>> THEN NoRef
    ELSE IF \E i \in 1 .. Len(refs) : refs[i] = b THEN b
    ELSE refs[CHOOSE i \in 1 .. Len(refs) : \A j \in 1 .. Len(refs) :
                 refs[i].loss < refs[j].loss \/ (refs[i].loss = refs[j].loss /\ i <= j)]

-----------------------------------------------------------------------------

\* What DLRunManifest, _validate_fixture_v2, _validate_v2_policy and
\* _validate_checkpoint_payload let through.
Accepted(c, from) ==
    /\ c.inject <= c.requested
    /\ problem.warmup <= c.requested
    /\ problem.enabled => c.retention \in {"best_and_last", "all"}
    /\ c.budget.rowsFit => Caps(c.budget) # {}
    /\ \A k \in from :
          /\ k.step <= c.requested
          /\ k.loss <= MaxMetric /\ k.early.best_metric <= MaxMetric
          /\ RestoredBest(k).loss <= MaxMetric
          /\ \A d \in {"max_steps", "max_epochs"} \cap Caps(c.budget) : k.step <= c.budget[d]

Prior == IF origin = {} THEN 0 ELSE (CHOOSE k \in origin : TRUE).step

NoResult == [status |-> "none", exhausted |-> "none", retained |-> <<>>, selected |-> NoRef]

Init ==
    /\ problem \in Problem
    /\ kept = {}
    /\ runs = 0
    /\ call = CHOOSE c \in Request : TRUE
    /\ origin = {}
    /\ status = "idle"
    /\ step = 0
    /\ early = Fresh(problem)
    /\ best = NoRef
    /\ candidates = <<>>
    /\ result = NoResult

\* Mutant of Restore: patience starts again with every call.
RestoreWithoutPatience(k) == [k.early EXCEPT !.non_improving = 0]

\* The early stopping state of a checkpoint.
Restore(k) == k.early

\* Up to the loop: a call starts at its own checkpoint of step 0, or at the one it names.
Begin(c) ==
    /\ status = "idle"
    /\ runs < MaxRuns
    /\ \/ Accepted(c, {}) /\ origin' = {} /\ early' = Fresh(problem)
       \/ \E k \in kept : Accepted(c, {k}) /\ origin' = {k} /\ early' = Restore(k)
    /\ candidates' = <<IF origin' = {} THEN Checkpoint(runs + 1, 0, Fresh(problem), NoRef)
                       ELSE CHOOSE k \in origin' : TRUE>>
    /\ best' = RestoredBest(candidates'[1])
    /\ step' = candidates'[1].step
    /\ runs' = runs + 1
    /\ call' = c
    /\ status' = "training"
    /\ result' = NoResult
    /\ UNCHANGED <<problem, kept>>

\* The status of a dry run: the verdict of the plan.  It returns no checkpoint and changes
\* nothing a caller keeps, so it is no action.
Forecast(c, prior) == IF Exhausted(c, prior) = "none" THEN "completed" ELSE "budget_exhausted"

MoreSteps == status = "training" /\ step < Prior + Allowed(call, Prior)

\* An injected failure, or one of arithmetic, before the step is counted.
Fail ==
    /\ MoreSteps
    /\ call.inject = step + 1 \/ problem.loss[step + 1] = NonFinite
    /\ status' = "failed"
    /\ UNCHANGED <<problem, kept, runs, call, origin, step, early, best, candidates, result>>

\* One step, its early stopping update and its checkpoint.
Train ==
    /\ MoreSteps
    /\ call.inject # step + 1 /\ problem.loss[step + 1] # NonFinite
    /\ step' = step + 1
    /\ early' = Updated(problem, early, step + 1)
    /\ LET improved == Improves(problem, early, problem.loss[step + 1])
           new == Checkpoint(runs, step + 1, early', IF improved THEN NoRef ELSE best)
       IN  /\ candidates' = Append(candidates, new)
           /\ best' = IF improved THEN RefOf(new) ELSE best
    /\ status' = IF ShouldStop(problem, early') THEN "early_stopped" ELSE "training"
    /\ UNCHANGED <<problem, kept, runs, call, origin, result>>

\* After the loop: the verdict, the retention and the result.
Finish ==
    /\ status # "idle" /\ ~MoreSteps
    /\ LET refs == Retained(candidates, call, best)
           short == status = "training" /\ step < call.requested
       IN  /\ result' = [status |-> IF status # "training" THEN status
                                    ELSE IF short THEN "budget_exhausted" ELSE "completed",
                         exhausted |-> IF short THEN Exhausted(call, Prior) ELSE "none",
                         retained |-> refs,
                         selected |-> Selected(refs, best)]
           /\ kept' = kept \cup Payloads(candidates, refs)
    /\ status' = "idle"
    /\ UNCHANGED <<problem, runs, call, origin, step, early, best, candidates>>

Next == (\E c \in Request : Begin(c)) \/ Train \/ Fail \/ Finish

Spec == Init /\ [][Next]_vars
-----------------------------------------------------------------------------

TypeOK ==
    /\ problem \in Problem
    /\ \A k \in kept : /\ k.run \in 1 .. MaxRuns /\ k.step \in 0 .. MaxStep
                     /\ k.loss \in Nat /\ k.early \in EarlyState /\ k.best \in Ref
    /\ runs \in 0 .. MaxRuns
    /\ call \in Request
    /\ origin \subseteq kept /\ \A j, k \in origin : j = k
    /\ status \in {"idle", "training", "failed", "early_stopped"}
    /\ step \in 0 .. MaxStep
    /\ early \in EarlyState
    /\ best \in Ref
    /\ result.exhausted \in Dimension \cup {"none", "max_samples"}

Returned == result.status # "none"

\* However a problem is cut into calls, stopped, failed or resumed from an older
\* checkpoint, the best metric, the best step and the patience used up are those of one
\* uninterrupted run: nothing is restored from the wrong moment, and every checkpoint
\* the caller holds names its own best (_make_checkpoint, _validate_early_state).
ResumesExactly ==
    /\ early = Uninterrupted[problem][step]
    /\ candidates # <<>> => best.step = early.best_step /\ best.loss = early.best_metric
    /\ \A k \in kept : /\ k.early = Uninterrupted[problem][k.step]
                     /\ RestoredBest(k).step = k.early.best_step

\* The budget is cumulative: whatever was consumed before the checkpoint is charged, a
\* call only ever trains within what is left of every cap, and one whose cap was spent
\* before it began trains nothing (_plan_budget_v2).
BudgetKept ==
    step # Prior => /\ call.budget.rowsFit
                    /\ step <= call.requested
                    /\ \A d \in Caps(call.budget) : step <= call.budget[d]

\* A call ends for the reason it gives: it completed what was requested, it names a cap
\* that leaves no room for a step, the next step is the one that fails, or patience has
\* run out at this step and at none before it in this call.  One that ends by itself
\* ends as its dry run foretold, unless nothing was left to do.
EndJustified ==
    LET p == Prior
        own == result.status \in {"completed", "budget_exhausted"}
    IN  Returned =>
        /\ result.status = "completed" => step = call.requested
        /\ result.status = "budget_exhausted" =>
              /\ step < call.requested
              /\ \/ result.exhausted = "max_samples" /\ ~call.budget.rowsFit
                 \/ result.exhausted \in Caps(call.budget) /\ call.budget[result.exhausted] <= step
        /\ result.status = "failed" =>
              call.inject = step + 1 \/ problem.loss[step + 1] = NonFinite
        /\ result.status = "early_stopped" => ShouldStop(problem, Uninterrupted[problem][step])
        /\ \A n \in p + 1 .. step - 1 : ~ShouldStop(problem, Uninterrupted[problem][n])
        /\ own => result.status = Forecast(call, p) \/ p = call.requested

\* Nothing a caller has paid for is lost: unless nothing is retained, the last state is
\* among the payloads it holds; and with early stopping, so is the best state of every
\* checkpoint, though a later call may return no more than a reference to it.
BestAndLastHeld ==
    /\ Returned /\ call.retention # "none" => \E k \in kept : k.step = step
    /\ problem.enabled => \A k \in kept : \E q \in kept : RefOf(q) = RestoredBest(k)

\* The checkpoint a result selects is the best one: no step of any call that led to it
\* did better by more than min_delta.  (Not where the best is older than the call and
\* retention is "all": see BestAndLastRecorded.)
SelectedIsBest ==
    Returned /\ (\/ call.retention = "best_and_last"
                 \/ call.retention = "all" /\ best.step >= Prior) =>
        /\ result.selected = best
        /\ \A n \in 0 .. step : problem.loss[n] >= best.loss - problem.min_delta

\* What a call returns is what happened: the reason it ended, the states it kept and
\* the checkpoint it selects (run_fixture).
ResultTruthful == EndJustified /\ BestAndLastHeld /\ SelectedIsBest

\* "the retention must be best_and_last or all, and the result records both best and
\* last" (ADR 0009, addendum A2, item 4, of enabled early stopping).  A call that
\* resumes after the best step with retention "all" lists its own checkpoints only.
BestAndLastRecorded ==
    Returned /\ problem.enabled =>
        /\ \E i \in 1 .. Len(result.retained) : result.retained[i] = best
        /\ \E i \in 1 .. Len(result.retained) : result.retained[i].step = step
=============================================================================
