---------------------------- MODULE SkillPipeline ----------------------------
(***************************************************************************)
(* The way of a candidate from captured failures to its first runs, in     *)
(* stages: failures are captured, a candidate is proposed from them or     *)
(* declared by hand, its records are made and remade in any order the      *)
(* operator likes, and what lies on the desk is at last handed to the      *)
(* smoke trial or to the synthetic suite.  At each handing over the model  *)
(* forgets what later stages do not read.  Two further stages stand alone: *)
(* the replay of a frozen artifact and the reading of an agent's trace.    *)
(***************************************************************************)
EXTENDS FailureToCandidate, AgentTrial, ForwardSuite, CaseEvaluation, CodexTrace

CONSTANTS CapturePlans, ProposalPlans, TrialPlans, SuitePlans,  \* plans submitted
          Answers(_),      \* what an executor may answer in a job of one kind
          Raws(_, _),      \* what an adapter may answer, given the envelope and
                           \* the results there are
          Manifests, Assessments, Drafts, Validations, Reviews, \* given by the operator
          ArtifactSets,    \* records of an envelope's artifacts
          Payloads,        \* payload bytes presented to a forward test
          Bytes(_),        \* contents supplied for the members of a manifest
          PolicySets(_),   \* policies for the materials of a manifest
          Replays,         \* inputs of an evaluation
          Events,          \* events a trace may hold
          MaxReviews,      \* records made by hand after a proposal
          MaxEvents        \* events of a trace

VARIABLES stage,     \* the stage under way
          reviews,   \* records made by hand so far
          admitted   \* the desk the arms about to start were admitted on

vars == <<candidateVars, suiteVars, evaluated, traceVars, stage, reviews, admitted>>

NotAdmitted == [none |-> TRUE]

(***************************************************************************)
(* The shape of what is given.                                             *)
(***************************************************************************)
JobFields == {"kind", "raised", "real", "confined", "retries", "seeded", "restricted"}
JudgedFields == {"oracle", "config", "runner"}

\* A score is 0 or 1, so a floor that demands anything demands 1.
Judged(p) ==
    /\ JudgedFields \subseteq DOMAIN p
    /\ p.config.floors \in [DOMAIN p.config.floors -> {0, 1}]
    /\ {p.config.safety, p.config.privacy} \subseteq BOOLEAN

\* Metrics are listed in an order, and the family-wise error rate is below one.
PolicySound(p) ==
    /\ IsFiniteSet(DOMAIN p.policy.metrics) /\ DOMAIN p.policy.metrics \subseteq Nat
    /\ \A m \in DOMAIN p.policy.metrics :
          p.policy.metrics[m].role \in {"primary", "guardrail"}
    /\ p.policy.minimumPairs \in Nat /\ p.policy.error \in Nat
    /\ p.policy.error < SignAssignments(PlannedCells(p))

ASSUME PlansAssumption ==
    /\ \A p \in CapturePlans \cup ProposalPlans \cup TrialPlans :
          JobFields \subseteq DOMAIN p /\ p.raised = FALSE /\ p.real \in BOOLEAN
    /\ \A p \in CapturePlans : {"case", "lineage"} \subseteq DOMAIN p /\ Judged(p)
    /\ \A p \in ProposalPlans :
          /\ {"cases", "sources", "brought", "pattern", "pinnedCases", "status", "principals",
              "skill", "fixes"} \subseteq DOMAIN p
          /\ DOMAIN p.principals = {"author", "reviewer", "assessor", "drafter"}
    /\ \A p \in TrialPlans :
          /\ {"expectLoaded", "routed", "exact", "pinned", "static", "semantic", "synthetic"}
                 \subseteq DOMAIN p
          /\ p.expectLoaded \in BOOLEAN
          /\ Judged(p)
    /\ \A p \in SuitePlans :
          /\ {"pinned", "static", "semantic", "synthetic", "routed", "exact", "cases",
              "members", "seeds", "envelope", "maxAttempts", "oracle", "config", "runner", "policy"} \subseteq DOMAIN p
          /\ IsFiniteSet(p.cases) /\ IsFiniteSet(p.seeds) /\ p.seeds # {}
          /\ p.envelope.retries \in Nat /\ p.maxAttempts \in Nat
          /\ PolicySound(p)

\* A replay is a success or a failure of a known class.
Replayed(replay) ==
    /\ "output" \in DOMAIN replay
    /\ \/ replay.ok = TRUE /\ replay.error = "none" /\ replay.output.readable \in BOOLEAN
       \/ replay.ok = FALSE /\ replay.error \in ErrorClasses

ASSUME AnswersAssumption ==
    \A kind \in {"capture", "proposal", "trial"} : \A answer \in Answers(kind) :
        /\ answer.kind \in {"raised", "own_error", "invalid", "observation"}
        /\ answer.kind = "observation" =>
              Replayed(answer.seen.replay) /\ answer.seen.turn \in BOOLEAN

\* Members are named by their place in the alphabet.
ASSUME ManifestsAssumption ==
    \A m \in Manifests : IsFiniteSet(DOMAIN m.members) /\ DOMAIN m.members \subseteq Nat

\* A clock is read three times in each attempt the envelope allows.
ASSUME ReplaysAssumption ==
    \A r \in Replays :
        /\ r.envelope.retries \in Nat
        /\ r.late \in [1 .. r.envelope.retries + 1 -> [1 .. 3 -> BOOLEAN]]
        /\ {r.artifact.pinned, r.artifact.large, r.artifact.strict, r.artifact.output.readable}
               \subseteq BOOLEAN

ASSUME EventsAssumption ==
    \A event \in Events : event.kind \in Kinds /\ event.sound \in BOOLEAN

(***************************************************************************)
(* The jobs.                                                               *)
(***************************************************************************)
Jobs == UNCHANGED <<suiteVars, evaluated, traceVars, stage, reviews>>

StepJob ==
    /\ Jobs /\ UNCHANGED <<reviewVars, captured>>
    /\ \/ Prepare /\ UNCHANGED admitted
       \/ step = "execute" /\ \E answer \in Answers(job.kind) : Execute(answer) /\ admitted' = NotAdmitted
       \/ CleanUp /\ admitted' = NotAdmitted
       \/ Taken /\ UNCHANGED admitted

Capturing ==
    /\ stage = "capture" /\ Jobs /\ UNCHANGED admitted
    /\ \/ step = "idle" /\ \E p \in CapturePlans : BeginCapture(p)
       \/ ConcludeCapture

\* A plan together with the records at hand: those the caller brings along, and
\* else those captured.  The pattern was written from the captured ones, and pins
\* a record brought only where none was captured.
Supplied(p) ==
    [p EXCEPT !.sources = [c \in p.cases |->
                    IF c \in DOMAIN p.brought THEN p.brought[c] ELSE captured[c]],
              !.pinnedCases = [c \in p.pinnedCases |->
                    IF c \in DOMAIN captured THEN captured[c] ELSE p.brought[c]]]

Proposing ==
    /\ stage = "proposal" /\ Jobs /\ UNCHANGED admitted
    /\ \/ /\ step = "idle"
          /\ \E p \in ProposalPlans :
                /\ p.cases \cup p.pinnedCases \subseteq DOMAIN captured \cup DOMAIN p.brought
                /\ BeginProposal(Supplied(p))
       \/ ConcludeProposal

Trying ==
    /\ stage = "trial" /\ Jobs
    /\ ConcludeTrial /\ UNCHANGED <<reviewVars, captured, admitted>>

(***************************************************************************)
(* The review.                                                             *)
(***************************************************************************)
Desk == UNCHANGED <<callVars, captured, suiteVars, evaluated, traceVars, stage, admitted>>

Reviewing ==
    /\ stage = "review" /\ Desk /\ context = NoRecord
    /\ reviews < MaxReviews + (IF desk["bundle"] = NoRecord THEN 1 ELSE 0)
    /\ reviews' = IF Has("bundle") THEN reviews + 1 ELSE reviews
    /\ \/ \E m \in Manifests : Declare(m)
       \/ Has("manifest") /\ \E b \in Bytes(desk["manifest"].members) : Close(b)
       \/ \E a \in Assessments : Assess(a)
       \/ \E d \in Drafts : Draft(d)
       \/ \E v \in Validations : ValidateStatically(v)
       \/ \E r \in Reviews : ReviewSemantically(r)
       \/ Has("manifest") /\ \E b \in Bytes(desk["manifest"].members), a \in ArtifactSets :
             CloseEnvelope(b, a)

\* Contexts are prepared while nothing but a manifest lies on the desk; no record
\* is made from one, and nothing is followed after it.
Contexts ==
    /\ stage = "review" /\ Desk /\ UNCHANGED reviews
    /\ Has("manifest") /\ \A f \in Families \ {"manifest"} : ~Has(f)
    /\ \E policies \in PolicySets(desk["manifest"].materials),
          mode \in {"normal", "compact", "minimal_safe"}, budget \in {2, 4} :
          PrepareContext(policies, mode, budget)

(***************************************************************************)
(* Handing over.                                                           *)
(***************************************************************************)
Fresh == UNCHANGED <<suiteVars, callVars, evaluated, traceVars>>

ToProposal ==
    /\ stage = "capture" /\ step = "idle" /\ outcome = NoOutcome
    /\ Cardinality(DOMAIN captured) >= 2
    /\ stage' = "proposal"
    /\ UNCHANGED <<captured, reviewVars, reviews, admitted>> /\ Fresh

ToReview ==
    /\ stage = "proposal" /\ step = "idle" /\ outcome = NoOutcome /\ Has("bundle")
    /\ stage' = "review"
    /\ captured' = NoCases
    /\ UNCHANGED <<reviewVars, reviews, admitted>> /\ Fresh

SuiteRecords == {"manifest", "bundle", "static", "semantic", "envelope"}

\* A plan together with the records on the desk and the payload at hand.
Presented(p, payload) ==
    [p EXCEPT !.pinned = Pinned(payload), !.static = desk["static"].outcome,
              !.semantic = desk["semantic"].outcome, !.synthetic = desk["semantic"].synthetic]

HandOver(next) ==
    /\ stage = "review" /\ \A f \in SuiteRecords : Has(f)
    /\ stage' = next
    /\ desk' = [f \in Families |-> NoRecord] /\ context' = NoRecord
    /\ reviews' = 0
    /\ admitted' = desk
    /\ UNCHANGED <<captured, evaluated, traceVars>>

ToTrial ==
    /\ HandOver("trial")
    /\ \E p \in TrialPlans, payload \in Payloads : BeginTrial(Presented(p, payload))
    /\ UNCHANGED suiteVars

ToSuite ==
    /\ HandOver("suite")
    /\ \E p \in SuitePlans, payload \in Payloads : Submit(Presented(p, payload))
    /\ UNCHANGED callVars

Suiting ==
    /\ stage = "suite"
    /\ \/ phase = "running" /\ \E raw \in Raws(plan.envelope, results) : Attempt(raw)
       \/ ConcludeIncomplete
       \/ ConcludeCompared
    /\ admitted' = NotAdmitted
    /\ UNCHANGED <<candidateVars, evaluated, traceVars, stage, reviews>>

\* After a suite the model ends here or, without arms, at once.
Collecting ==
    /\ stage = "suite" /\ Collect
    /\ stage' = "done" /\ admitted' = NotAdmitted
    /\ UNCHANGED <<candidateVars, evaluated, traceVars, reviews>>

(***************************************************************************)
(* The two stages that stand alone.                                        *)
(***************************************************************************)
Evaluating ==
    /\ stage = "replay" /\ evaluated = NotEvaluated
    /\ \E r \in Replays : EvaluateCase(r.artifact, r.late, r.envelope, r.oracle, r.config)
    /\ UNCHANGED <<candidateVars, suiteVars, traceVars, stage, reviews, admitted>>

Tracing ==
    /\ stage = "trace" /\ Len(trace) < MaxEvents
    /\ \E e \in Events : Emit(e)
    /\ UNCHANGED <<candidateVars, suiteVars, evaluated, stage, reviews, admitted>>

-----------------------------------------------------------------------------
Init ==
    /\ CandidateInit /\ SuiteInit /\ EvaluationInit /\ TraceInit
    /\ stage \in {"capture", "review", "replay", "trace"}
    /\ reviews = 0
    /\ admitted = NotAdmitted

Next ==
    \/ StepJob \/ Capturing \/ Proposing \/ Trying
    \/ Reviewing \/ Contexts
    \/ ToProposal \/ ToReview \/ ToTrial \/ ToSuite
    \/ Suiting \/ Collecting
    \/ Evaluating \/ Tracing

Spec == Init /\ [][Next]_vars

\* No arm starts but on records that belong together: a bundle drafted from an
\* eligible, closed manifest whose sources are current and whose author neither
\* reviewed nor assessed it, statically passed with a name and triggers no
\* installed skill has or answers to however they are written, accepted in a review of that bundle and that receipt by someone
\* who neither drafted nor validated it, and an envelope closed over the same
\* manifest -- whatever was remade in between (_preflight_with_identity and the
\* constructors of the records it loads).
EvaluatedIsReviewed ==
    admitted # NotAdmitted /\ (phase = "running" \/ job.kind = "trial") =>
        LET m == admitted["manifest"]
            b == admitted["bundle"]
            s == admitted["semantic"]
        IN  /\ b.eligibility.outcome = "eligible_for_payload_drafting"
            /\ b.eligibility.closure.manifest = m
            /\ \A source \in Sources(m) : m.lifecycle[source] = "current"
            /\ m.author \notin {m.reviewer, b.eligibility.assessor}
            /\ Normals(b.triggers) \cap Normals(Registry) = {}
            /\ Normal(b.skill) \notin Normals(Installed)
            /\ s.bundle = b /\ s.outcome = "protocol_accept" /\ ~s.shared
            /\ s.static = admitted["static"] /\ s.static.outcome = "static_pass"
            /\ s.static.bundle = b
            /\ s.reviewer \notin {b.drafter, s.static.validator}
            /\ admitted["envelope"].manifest = m
            /\ \A role \in Bound : admitted["envelope"].artifacts[role] = m.fixes[role]

\* Neither a replay nor either kind of forward test claims more than its runs
\* show (evaluate_case, run_agent_skill_forward_trial, run_skill_forward_suite).
TrialsJustified == SmokeJustified /\ SuiteJustified /\ EvaluationConsistent
=============================================================================
