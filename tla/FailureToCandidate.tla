-------------------------- MODULE FailureToCandidate --------------------------
(***************************************************************************)
(* From a failure to a candidate: the capture of a public baseline failure *)
(* (evolution/public_failure_capture.py) and the proposal of a candidate   *)
(* from two or more captured failures                                      *)
(* (evolution/skill_candidate_proposal.py).  Each is one agent job with a  *)
(* single arm; the first yields a case or nothing, the second the first    *)
(* four records of the review chain at once or none of them.               *)
(***************************************************************************)
EXTENDS AgentCall, CandidateReview

VARIABLE captured   \* the records of the failures captured, by case

candidateVars == <<callVars, reviewVars, captured>>

NoCases == [c \in {} |-> 0]

CandidateInit ==
    /\ CallInit
    /\ ReviewInit
    /\ captured = NoCases

(***************************************************************************)
(* Capture.                                                                *)
(***************************************************************************)
Capturable(p) ==
    /\ p.kind = "capture"
    /\ p.pinned /\ ~p.restricted
    /\ p.retries = 0 /\ ~p.seeded
    /\ DOMAIN p.lineage = LineageFields
    /\ LeastPrivilege(p)

BeginCapture(p) ==
    /\ Capturable(p)
    /\ Begin(p, <<"baseline">>)
    /\ UNCHANGED <<reviewVars, captured>>

\* An output with restricted content counts as no output.
ScreenReplay(replay) ==
    IF replay.ok /\ "restricted" \in replay.output.marks
    THEN Failure("runner_error", replay.attempts)
    ELSE replay

CaptureEvaluation ==
    Observe(ScreenReplay(observed["baseline"].replay), job.oracle, job.runner, job.config)

\* What the directory and the evaluation hold against a capture.
UnscoredBlockers ==
    {b \in {"workspace_cleanup_failed", "scored_result_missing", "not_judged"} :
        \/ b = "workspace_cleanup_failed" /\ root = "left"
        \/ b = "scored_result_missing" /\ ~CaptureEvaluation.result
        \/ b = "not_judged" /\ CaptureEvaluation.verdict \notin {"pass", "fail"}}

\* Mutant of CaptureBlockers: what the containment says of the process tree is
\* not read.
CaptureBlockersUnverified ==
    (ArmBlockers("baseline", job.real) \ {"process_tree_cleanup_failed"}) \cup UnscoredBlockers

CaptureBlockers == ArmBlockers("baseline", job.real) \cup UnscoredBlockers

CaptureStatus ==
    CASE CaptureBlockers # {}                                              -> "capture_inconclusive"
      [] CaptureBlockers = {} /\ CaptureEvaluation.verdict = "fail"        -> "qualified_failure"
      [] OTHER                                                             -> "no_failure"

\* The record of a failure: its case carries the lineage the plan froze.
FailureChain == [c \in DOMAIN captured \cup {job.case} |->
                    IF c = job.case THEN [lineage |-> job.lineage, eligible |-> TRUE]
                    ELSE captured[c]]

\* The records of a qualified failure are validated last, with texts, names and
\* times nobody has looked at before; a chain that does not validate raises.
CaptureEnds ==
    CASE job.raised -> {"raised"}
      [] ~job.raised /\ CaptureStatus = "qualified_failure" -> {"qualified_failure", "raised"}
      [] OTHER -> {CaptureStatus}

ConcludeCapture ==
    /\ job.kind = "capture" /\ step = "conclude"
    /\ \E status \in CaptureEnds :
          /\ captured' = IF status = "qualified_failure" THEN FailureChain ELSE captured
          /\ Over(status)
    /\ UNCHANGED reviewVars

(***************************************************************************)
(* Proposal.                                                               *)
(***************************************************************************)
\* p.sources holds the records supplied for p.cases, captured or not: two to six,
\* eligible, independent of each other in every field, and exactly the records
\* the pattern pins.
Proposable(p) ==
    /\ p.kind = "proposal"
    /\ Cardinality(p.cases) \in 2 .. 6
    /\ p.retries = 0 /\ ~p.seeded /\ ~p.restricted
    /\ IsInjective(p.principals)
    /\ \A c \in p.cases : p.sources[c].eligible
    /\ ~Collides([c \in p.cases |-> p.sources[c].lineage])
    /\ p.status \in {"candidate_pattern", "validated_pattern", "active_pattern"}
    /\ p.pinnedCases = p.sources
    /\ LeastPrivilege(p)

BeginProposal(p) ==
    /\ Proposable(p)
    /\ Begin(p, <<"generator">>)
    /\ UNCHANGED <<reviewVars, captured>>

ProposalBlockers ==
    ArmBlockers("generator", job.real) \cup
    {b \in {"workspace_cleanup_failed", "generation_failed"} :
        \/ b = "workspace_cleanup_failed" /\ root = "left"
        \/ b = "generation_failed" /\ ~observed["generator"].replay.ok}

\* The contract of the generated object, before anything is built from it.
Parseable(output) ==
    /\ output.readable
    /\ "restricted" \notin output.marks
    /\ output.draft.triggers # {} /\ output.draft.exclusions # {}
    /\ output.draft.triggers \cap output.draft.exclusions = {}
    /\ output.draft.criteria = Criteria

(***************************************************************************)
(* The manifest built around the generated payload.  Its members in        *)
(* alphabetical order: the evidence, the baseline, the payload, the tests, *)
(* one file for each case and the pattern.                                 *)
(***************************************************************************)
BuiltMembers(p, draft) ==
    LET sources == 5 .. 5 + Cardinality(p.cases)
    IN  [n \in 1 .. 5 + Cardinality(p.cases) |->
            CASE n = 1 -> [role |-> "evidence", needs |-> {4}, content |-> "evidence"]
              [] n = 2 -> [role |-> "baseline", needs |-> {}, content |-> "baseline"]
              [] n = 3 -> [role |-> "patch", needs |-> {2} \cup sources,
                           content |-> draft.payload.name]
              [] n = 4 -> [role |-> "tests", needs |-> {3}, content |-> "tests"]
              [] OTHER -> [role |-> "source_snapshot", needs |-> {}, content |-> "source"]]

BuiltManifest(p, draft) ==
    [author |-> p.principals["author"], reviewer |-> p.principals["reviewer"],
     cases |-> p.cases, patterns |-> {p.pattern},
     lifecycle |-> [s \in p.cases \cup {p.pattern} |-> "current"],
     members |-> BuiltMembers(p, draft), excluded |-> {},
     materials |-> [n \in {1} |-> "minimal_safe"], fixes |-> p.fixes]

\* The assessment the program itself writes: the generator's evidence counts as
\* satisfying every criterion.
BuiltAssessment(p) ==
    [assessor |-> p.principals["assessor"], kind |-> "reusable",
     lineage |-> [c \in p.cases |-> p.sources[c].lineage],
     criteria |-> [c \in Criteria |-> "satisfied"], evidence |-> "generated"]

BuiltDraft(p, draft) ==
    [drafter |-> p.principals["drafter"], skill |-> p.skill, triggers |-> draft.triggers,
     exclusions |-> draft.exclusions, payload |-> draft.payload, evidence |-> "generated"]

BuiltClosure(p, draft) == Closure(BuiltManifest(p, draft))
BuiltEligibility(p, draft) == Eligibility(BuiltClosure(p, draft), BuiltAssessment(p))

Buildable(p, draft) ==
    LET m == BuiltManifest(p, draft)
    IN  /\ Closable(m, [n \in DOMAIN m.members |-> m.members[n].content])
        /\ Assessable(m, BuiltClosure(p, draft), BuiltAssessment(p))
        /\ Draftable(BuiltEligibility(p, draft), BuiltDraft(p, draft))

ProposalStatus ==
    LET output == observed["generator"].replay.output
    IN  CASE ProposalBlockers # {} -> "proposal_inconclusive"
          [] ProposalBlockers = {} /\ Parseable(output) /\ Buildable(job, output.draft) ->
                "proposal_ready"
          [] OTHER -> "proposal_rejected"

\* The records a ready proposal hands over; whatever was reviewed before belongs
\* to another candidate.
Handed(p, draft) ==
    [f \in Families |->
        CASE f = "manifest"    -> BuiltManifest(p, draft)
          [] f = "closure"     -> BuiltClosure(p, draft)
          [] f = "eligibility" -> BuiltEligibility(p, draft)
          [] f = "bundle"      -> Bundle(BuiltEligibility(p, draft), BuiltDraft(p, draft))
          [] OTHER             -> desk[f]]

ConcludeProposal ==
    /\ job.kind = "proposal" /\ step = "conclude"
    /\ desk' = IF ~job.raised /\ ProposalStatus = "proposal_ready"
               THEN Handed(job, observed["generator"].replay.output.draft) ELSE desk
    /\ Over(IF job.raised THEN "raised" ELSE ProposalStatus)
    /\ UNCHANGED <<context, captured>>
-----------------------------------------------------------------------------
\* A failure is captured only from a run that was clean and whole: its output is
\* scored and free of restricted content, its process tree was seen to be gone and
\* is, its directory is removed, a real agent ended its turn, and what failed is a
\* gate on that output or the identity of the evaluator; and such a run is never
\* called free of failure (public_failure_capture.capture_public_agent_failure).
FailureIsGenuine ==
    outcome.status \in {"qualified_failure", "no_failure"} =>
        LET o == outcome.seen["baseline"]
            p == outcome.plan
            missed == \E d \in DOMAIN p.config.floors \cap p.oracle :
                          p.config.floors[d] = 1 /\ d \notin o.replay.output.right
            marked == \/ p.config.safety /\ "unsafe" \in o.replay.output.marks
                      \/ p.config.privacy /\ "private" \in o.replay.output.marks
        IN  /\ outcome.root = "gone" /\ outcome.alive = {} /\ Verified(o)
            /\ o.replay.ok /\ o.replay.output.readable
            /\ "restricted" \notin o.replay.output.marks
            /\ p.real => o.session # 0 /\ o.turn
            /\ outcome.status = "qualified_failure" <=>
                  missed \/ marked \/ Foreign(p.runner, p.config)
                  \/ ~(DOMAIN p.config.floors \subseteq p.oracle)

\* A ready proposal comes from a run that left no process and no directory and
\* whose real agent ended its turn; it rests on two or more eligible failures no
\* two of which share a lineage value, is drafted by another than its author,
\* reviewer and assessor, and hands over four records that pin each other
\* (skill_candidate_proposal._validate_plan, _build_candidate).
ReadyGrounded ==
    outcome.status = "proposal_ready" =>
        LET p == outcome.plan
            o == outcome.seen["generator"]
            m == desk["manifest"]
            e == desk["eligibility"]
        IN  /\ outcome.root = "gone" /\ outcome.alive = {} /\ Verified(o) /\ o.replay.ok
            /\ p.real => o.session # 0 /\ o.turn
            /\ m.cases = p.cases /\ Cardinality(m.cases) >= 2
            /\ \A c \in m.cases : p.sources[c].eligible
            /\ \A c, d \in m.cases : c # d =>
                  \A f \in LineageFields : p.sources[c].lineage[f] # p.sources[d].lineage[f]
            /\ desk["closure"].manifest = m
            /\ e.closure = desk["closure"] /\ e.outcome = "eligible_for_payload_drafting"
            /\ desk["bundle"].eligibility = e
            /\ \E n \in DOMAIN m.members : /\ m.members[n].role = "patch"
                                           /\ m.members[n].content = desk["bundle"].payload.name
            /\ desk["bundle"].drafter \notin {m.author, m.reviewer, e.assessor}

\* A job that ends in anything but a ready proposal leaves the records of the
\* review as they were, and one that ends in anything but a qualified failure the
\* captured ones: an exception, a rejection and an inconclusive run hand over
\* nothing of what was built on the way.
EndKeepsRecords ==
    outcome = NoOutcome /\ outcome' # NoOutcome =>
        /\ outcome'.status # "proposal_ready" => UNCHANGED reviewVars
        /\ outcome'.status # "qualified_failure" => UNCHANGED captured

\* A proposal is grounded in what it hands over, and every other end of a job
\* hands over nothing (propose_skill_candidate, capture_public_agent_failure).
ProposalGrounded == [][EndKeepsRecords /\ ReadyGrounded']_candidateVars
=============================================================================
