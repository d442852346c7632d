------------------------- MODULE CollaborationWindow -------------------------
(***************************************************************************)
(* evolution/collaboration_window.py: one run_collaboration_window call.   *)
(* The plan's three routes get a ticket each; the tickets are executed one *)
(* after another by an adapter, each in a workspace of its own, and every  *)
(* observation is validated and turned into an outcome record until one of *)
(* them carries a failure.  An exception leaves the caller without any of  *)
(* the records.                                                            *)
(*                                                                         *)
(* The three budget fields are checked alike: the model has one of them.   *)
(* Texts, identifiers and hashes are left out, except the evidence hash    *)
(* that ties a future route proposal to its event.                         *)
(***************************************************************************)
EXTENDS Naturals, Sequences, FiniteSetsExt

CONSTANTS Plan,          \* calls: a plan and the adapter that runs it
          Output,        \* structured outputs a worker may leave behind
          Observation,   \* observations the deterministic adapter may be given
          MaxSpend       \* bound on the spend a process may be measured at

Slot == 1 .. 3           \* _SLOTS A, B, C in dispatch order

\* The arguments of a call; a "fake" adapter has a launcher that is not Codex CLI.
Call == [adapter : {"deterministic", "fake", "real"},
         base : [Slot -> Nat], reserve : [Slot -> Nat], hard : Nat,
         class : [Slot -> {"direct", "enabling", "hedge"}]]

Success == {"candidate", "verified_partial", "bounded_negative", "no_new_opportunity"}
Status == Success \cup {"inconclusive", "failed"}

\* A failure is its stage and its code; "reported" is any code of a deterministic adapter.
Stage == {"none", "adapter_execution", "observation_validation", "scope_validation",
          "usage_validation", "output_validation", "workspace_cleanup"}

Execution == {"launch_failed", "completed", "timeout", "executor_failed", "cleanup_failed"}

\* What parse_codex_trace says of the captured output, and read_output_bounded of the
\* final output file.
Trace == {"ok", "session_or_turn_incomplete", "codex_error", "usage_incomplete_or_inconsistent"}

Unread == {"output_missing", "output_limit", "output_changed", "empty"}

Code == Execution \cup Trace \cup Unread \cup Status
        \cup {"none", "reported", "limit_exceeded", "launcher_exit_nonzero", "scope_violation",
              "output_missing_or_oversized", "invalid_structured_output", "restricted_output",
              "ticket_binding_mismatch", "workspace_cleanup_failed"}

Failure == Stage \X Code

ASSUME WindowAssumption ==
    /\ Plan \subseteq Call
    /\ MaxSpend \in Nat
    /\ Output \subseteq [valid : BOOLEAN, bound : BOOLEAN, restricted : BOOLEAN, status : Status,
                          future : STRING, events : Seq(STRING), bounds : BOOLEAN,
                          recordable : BOOLEAN]
    /\ Observation \subseteq
           [bound : BOOLEAN, scope : BOOLEAN, recordable : BOOLEAN, clean : {TRUE},
            status : Status, artifacts : SUBSET Success, bounds : BOOLEAN, future : STRING,
            events : Seq(STRING), spend : Nat, opportunities : Nat, extensions : Nat,
            failure : Failure]

VARIABLES
    phase,       \* where run_collaboration_window is
    plan,        \* the plan being run
    slot,        \* the request being executed
    attempt,     \* facts of the process adapter about this request
    seen,        \* the observation adapter.execute returns
    outcomes,    \* worker_outcomes, Blank before they are made
    blockers,    \* slots named in blockers
    workspaces,  \* slots whose temporary directory exists
    survivors    \* slots whose process tree is not known to be gone

vars == <<phase, plan, slot, attempt, seen, outcomes, blockers, workspaces, survivors>>

-----------------------------------------------------------------------------
(* Observations *)

NoFailure == <<"none", "none">>
NoEvidence == "none"
NotAsked == [made |-> FALSE, failure |-> NoFailure]

Blank == [made |-> FALSE, failure |-> NoFailure, spend |-> 0, real |-> FALSE, tree |-> FALSE, clean |-> FALSE]

Ended(execution, cleanups, causes, exits) ==
    [execution : {execution}, cleanup : cleanups, cause : causes, exit : exits]

\* What run_process_contained may return, with the exit status of the launcher.
Contained ==
    UNION {Ended("launch_failed", {"not_started"}, {"none"}, {"none"}),
           Ended("completed", {"not_required", "verified", "failed"}, {"none"}, {"zero", "nonzero"}),
           Ended("timeout", {"verified"}, {"timeout"}, {"nonzero"}),
           Ended("executor_failed", {"verified"}, {"limit_exceeded"}, {"nonzero"}),
           Ended("cleanup_failed", {"failed"}, {"timeout", "limit_exceeded"}, {"none"})}

TreeVerified(result) == result.cleanup # "failed"

NoOutput == [valid |-> FALSE, bound |-> FALSE, restricted |-> FALSE, status |-> "failed",
             future |-> NoEvidence, events |-> <<>>, bounds |-> FALSE, recordable |-> FALSE]

FinalOutput ==
    [read : {"ok"}, output : Output]
    \cup [read : Unread, output : {NoOutput}]

\* The failure tests of execute in the order they are made.
Tests(a, read, output) ==
    <<[fails |-> a.result.cause # "none",
       as |-> <<"adapter_execution", a.result.cause>>],
      [fails |-> a.result.execution # "completed",
       as |-> <<"adapter_execution", a.result.execution>>],
      [fails |-> a.result.exit # "zero",
       as |-> <<"adapter_execution", "launcher_exit_nonzero">>],
      [fails |-> ~TreeVerified(a.result),
       as |-> <<"adapter_execution", "cleanup_failed">>],
      [fails |-> a.trace # "ok",
       as |-> <<IF a.trace = "usage_incomplete_or_inconsistent"
                THEN "usage_validation" ELSE "adapter_execution", a.trace>>],
      [fails |-> read \in {"output_missing", "output_limit", "empty"},
       as |-> <<"output_validation", "output_missing_or_oversized">>],
      [fails |-> read # "ok",
       as |-> <<"output_validation", read>>],
      [fails |-> ~output.valid,
       as |-> <<"output_validation", "invalid_structured_output">>],
      [fails |-> ~output.bound,
       as |-> <<"output_validation", "ticket_binding_mismatch">>],
      [fails |-> output.restricted,
       as |-> <<"output_validation", "restricted_output">>],
      [fails |-> output.status \notin Success,
       as |-> <<"observation_validation", output.status>>]>>

\* Mutant of FirstFailure: a process tree not known to be gone is no failure.
FirstFailureWithoutCleanup(a, read, output) ==
    LET failing == {i \in DOMAIN Tests(a, read, output) \ {4} : Tests(a, read, output)[i].fails}
    IN  IF failing = {} THEN NoFailure ELSE Tests(a, read, output)[Min(failing)].as

FirstFailure(a, read, output) ==
    LET failing == {i \in DOMAIN Tests(a, read, output) : Tests(a, read, output)[i].fails}
    IN  IF failing = {} THEN NoFailure ELSE Tests(a, read, output)[Min(failing)].as

\* The observation execute returns; clean is the answer of _remove_workspace.
Observed(a, read, output, clean) ==
    LET failure == FirstFailure(a, read, output)
        good == failure = NoFailure
        kept == good /\ clean
    IN  [bound |-> TRUE,
         status |-> IF clean /\ (good \/ failure[1] = "observation_validation")
                    THEN output.status ELSE "failed",
         artifacts |-> IF kept THEN {output.status} \cap {"candidate", "verified_partial"} ELSE {},
         future |-> IF good THEN output.future ELSE NoEvidence,
         events |-> IF kept THEN output.events ELSE <<>>,
         bounds |-> kept /\ output.bounds,
         opportunities |-> 0,
         extensions |-> 0,
         spend |-> a.spend,
         scope |-> TRUE,
         recordable |-> kept => output.recordable,
         clean |-> clean,
         failure |-> IF good /\ ~clean
                     THEN <<"workspace_cleanup", "workspace_cleanup_failed">> ELSE failure]

\* The conditions under which _validate_observation returns the observation as it is.
Limit(s, o) == plan.base[s] + (IF o.extensions = 1 THEN plan.reserve[s] ELSE 0)

\* The outcome schema takes the record.
Recordable(o) == o.recordable /\ o.extensions \in {0, 1}

ExtensionEarned(o) ==
    /\ o.extensions \in {0, 1}
    /\ o.extensions = 1 => o.opportunities = 1

\* Mutant of WithinBudget: a failed worker is held to the budget too.
WithinBudgetForFailures(s, o) ==
    o.spend <= Limit(s, o)

WithinBudget(s, o) ==
    \/ o.spend <= Limit(s, o)
    \/ o.status = "failed" /\ o.failure # NoFailure

StatusBacked(o) ==
    /\ o.status \in {"candidate", "verified_partial"} => o.status \in o.artifacts
    /\ o.status = "bounded_negative" => o.bounds
    /\ o.status \in {"failed", "inconclusive"} <=> o.failure # NoFailure

FutureMatched(o) ==
    o.events = IF o.future = NoEvidence THEN <<>> ELSE <<o.future>>

Accepted(s, o) ==
    /\ ExtensionEarned(o)
    /\ WithinBudget(s, o)
    /\ StatusBacked(o)
    /\ FutureMatched(o)

\* Mutant of RealRun: a worker that failed still counts.
RealRunThoughFailed(a, o) ==
    /\ plan.adapter = "real"
    /\ a.result.execution # "launch_failed"
    /\ a.trace = "ok" /\ a.result.cause = "none"
    /\ TreeVerified(a.result)
    /\ o.clean

\* real_multi_agent_execution_observed of one outcome.
RealRun(a, o) ==
    /\ plan.adapter = "real"
    /\ a.result.execution # "launch_failed"
    /\ a.trace = "ok" /\ a.result.cause = "none"
    /\ TreeVerified(a.result)
    /\ o.clean
    /\ o.failure = NoFailure

\* What _build_outcome makes of an observation, with the facts of the process.
OutcomeOf(o, a) ==
    [made |-> TRUE,
     failure |-> o.failure,
     spend |-> o.spend,
     real |-> a.made /\ RealRun(a, o),
     tree |-> a.made /\ TreeVerified(a.result),
     clean |-> o.clean]

-----------------------------------------------------------------------------
(* The call *)

Init ==
    /\ phase = "plan"
    /\ plan \in Plan
    /\ slot = 1
    /\ attempt = NotAsked
    /\ seen = NotAsked
    /\ outcomes = [s \in Slot |-> Blank]
    /\ blockers = {}
    /\ workspaces = {}
    /\ survivors = {}

worldVars == <<workspaces, survivors>>
recordVars == <<outcomes, blockers>>

Total(f) == f[1] + f[2] + f[3]

\* Mutant of Fits: the reserves are not set aside.
FitsWithoutReserve(p) ==
    /\ Cardinality({s \in Slot : p.class[s] = "hedge"}) <= 1
    /\ Total(p.base) <= p.hard

\* _build_plan: checked for the whole window before any adapter call.
Fits(p) ==
    /\ Cardinality({s \in Slot : p.class[s] = "hedge"}) <= 1
    /\ Total(p.base) + Total(p.reserve) <= p.hard

BuildPlan ==
    /\ phase = "plan"
    /\ phase' = IF Fits(plan) THEN "dispatch" ELSE "raised"
    /\ UNCHANGED <<plan, slot, attempt, seen, recordVars, worldVars>>

\* The deterministic adapter returns the observation it was built with.
Recite ==
    /\ phase = "dispatch" /\ plan.adapter = "deterministic"
    /\ \E o \in Observation : seen' = o
    /\ phase' = "validate"
    /\ UNCHANGED <<plan, slot, attempt, recordVars, worldVars>>

\* The process adapter: a workspace, and the contained launcher in it.
RunLauncher ==
    /\ phase = "dispatch" /\ plan.adapter # "deterministic"
    /\ \E result \in Contained, trace \in Trace, spend \in 0 .. MaxSpend :
         /\ attempt' = [made |-> TRUE, result |-> result, trace |-> trace, spend |-> spend]
         /\ survivors' = IF TreeVerified(result) THEN survivors ELSE survivors \cup {slot}
    /\ workspaces' = workspaces \cup {slot}
    /\ phase' = "collect"
    /\ UNCHANGED <<plan, slot, seen, recordVars>>

\* The rest of execute: the final output is read and judged, the workspace removed.
CollectOutput ==
    /\ phase = "collect"
    /\ \E final \in FinalOutput, clean \in BOOLEAN :
         /\ seen' = Observed(attempt, final.read, final.output, clean)
         /\ workspaces' = IF clean THEN workspaces \ {slot} ELSE workspaces
    /\ phase' = "validate"
    /\ UNCHANGED <<plan, slot, attempt, survivors, recordVars>>

\* An exception of the adapter, wrapped.  execute tries to remove the workspace and
\* run_process_contained to clean the process tree up on its way out.
AdapterRaises ==
    /\ phase \in {"dispatch", "collect"}
    /\ \E left, loose \in SUBSET (IF plan.adapter = "deterministic" THEN {} ELSE {slot}) :
         /\ workspaces' = (workspaces \ {slot}) \cup left
         /\ survivors' = survivors \cup loose
    /\ phase' = "raised"
    /\ UNCHANGED <<plan, slot, attempt, seen, recordVars>>

\* An outcome is appended; a failure is a blocker and ends the window.
Deliver(o) ==
    LET last == o.failure # NoFailure \/ slot = 3
    IN  /\ outcomes' = [outcomes EXCEPT ![slot] = OutcomeOf(o, attempt)]
        /\ blockers' = IF o.failure = NoFailure THEN blockers ELSE blockers \cup {slot}
        /\ phase' = IF last THEN "returned" ELSE "dispatch"
        /\ slot' = IF last THEN slot ELSE slot + 1
        /\ attempt' = IF last THEN attempt ELSE NotAsked
        /\ seen' = IF last THEN seen ELSE NotAsked
        /\ UNCHANGED <<plan, worldVars>>

ScopeFailed(o) ==
    [o EXCEPT !.status = "failed", !.artifacts = {},
              !.failure = <<"scope_validation", "scope_violation">>]

AcceptObservation ==
    /\ phase = "validate"
    /\ seen.bound /\ seen.scope
    /\ Accepted(slot, seen)
    /\ Recordable(seen)
    /\ Deliver(seen)

\* A breach of scope is a failure whatever else the observation says.
RejectScope ==
    /\ phase = "validate"
    /\ seen.bound /\ ~seen.scope
    /\ Recordable(seen)
    /\ Deliver(ScopeFailed(seen))

\* Everything else is a CollaborationWindowError.
RaiseInvalid ==
    /\ phase = "validate"
    /\ ~(seen.bound /\ Recordable(seen) /\ (seen.scope => Accepted(slot, seen)))
    /\ phase' = "raised"
    /\ UNCHANGED <<plan, slot, attempt, seen, recordVars, worldVars>>

Next ==
    \/ BuildPlan
    \/ Recite
    \/ RunLauncher
    \/ CollectOutput
    \/ AdapterRaises
    \/ AcceptObservation
    \/ RejectScope
    \/ RaiseInvalid

Spec == Init /\ [][Next]_vars

-----------------------------------------------------------------------------
(* What the window promises *)

Outcome == [made : BOOLEAN, failure : Failure, spend : Nat,
            real : BOOLEAN, tree : BOOLEAN, clean : BOOLEAN]

\* The variables keep their types.
TypeOK ==
    /\ phase \in {"plan", "dispatch", "collect", "validate", "returned", "raised"}
    /\ plan \in Plan
    /\ slot \in Slot
    /\ outcomes \in [Slot -> Outcome]
    /\ blockers \subseteq Slot
    /\ workspaces \subseteq Slot
    /\ survivors \subseteq Slot

Failed(s) == outcomes[s].failure # NoFailure

Accountable(s) == IF Failed(s) THEN 0 ELSE outcomes[s].spend

\* The successful outcomes of a window never cost more together than the hard budget,
\* extensions included: the plan is checked once, before any of them is measured.
SpentWithinHardBudget ==
    phase # "plan" /\ (\E s \in Slot : outcomes[s].made)
        => Total([s \in Slot |-> Accountable(s)]) <= plan.hard

\* A window that returns has an outcome for every ticket it started; only the last of
\* them carries a failure, which is then a blocker; without one all three tickets ran.
WindowAccountedFor ==
    phase = "returned" =>
        /\ {s \in Slot : outcomes[s].made} = 1 .. slot
        /\ {s \in Slot : Failed(s)} = blockers
        /\ blockers \subseteq {slot}
        /\ blockers = {} => slot = 3

\* real_multi_agent_execution_observed of the window stands for three real workers
\* none of which left a process or a file behind.
RealMeansWholeWindow ==
    LET made == {s \in Slot : outcomes[s].made}
    IN  phase = "returned" /\ made # {} /\ (\A s \in made : outcomes[s].real)
            => made = Slot /\ workspaces = {} /\ survivors = {}

\* No ticket is dispatched while the files or the processes of an earlier worker may
\* still be there.
NoTicketOverLeftovers ==
    phase = "dispatch" => workspaces = {} /\ survivors = {}

\* What a returned window left behind is in the failed receipt of its worker.
LeftoversReported ==
    phase = "returned" =>
        /\ \A s \in workspaces : Failed(s) /\ ~outcomes[s].clean
        /\ \A s \in survivors : Failed(s) /\ ~outcomes[s].tree

\* A returned window says what happened: its outcomes and blockers are those of the
\* tickets it ran, and its claim of a real execution stands for all three
\* (_build_window).
ReturnedTruthful == WindowAccountedFor /\ RealMeansWholeWindow

\* Nothing of a worker stays unnoticed: neither the next ticket nor a returned window
\* passes over its files or its processes.
NothingLeftBehind == NoTicketOverLeftovers /\ LeftoversReported

\* The process adapter loses the receipt of a failure in two cases only: a worker that
\* proposed a future route and whose workspace stayed, and one that reported itself
\* inconclusive after overspending.
FailureReceipted ==
    phase = "raised" /\ attempt.made /\ seen.failure # NoFailure =>
        \/ ~seen.clean /\ seen.future # NoEvidence
        \/ seen.status = "inconclusive" /\ seen.spend > Limit(slot, seen)
=============================================================================
