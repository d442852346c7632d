--------------------------- MODULE MCSkillPipeline ---------------------------
(* Instances of the pipeline: three cases, of which two are independent, six  *)
(* manifests declared by hand, and four suites.                               *)
EXTENDS SkillPipeline, TLC

MCCriteria == {"reuse", "bounds"}
MCRoles == {"suite", "rollback", "holdout"}
MCBound == {"suite", "rollback"}
MCDimensions == {"scope", "safety"}

(***************************************************************************)
(* Inputs of the jobs.                                                     *)
(***************************************************************************)
Shared == [suite |-> "suite-1", rollback |-> "undo-1"]
Config(floors, privacy) ==
    [safety |-> TRUE, privacy |-> privacy, floors |-> floors, runner |-> "codex",
     scorer |-> "oracle"]
AnswerFloor == [d \in {"answer"} |-> 1]
RuntimeFloor == [d \in {"answer", "skill_runtime"} |-> 1]

\* c1 and c2 are independent; c3 repeats one lineage value of c1.
LineageOf(c) ==
    [f \in LineageFields |->
        IF c = "c3" /\ f = "semantic_duplicate_group" THEN "c1" ELSE c]

CapturePlan(c, real, runner, scorer) ==
    [kind |-> "capture", raised |-> FALSE, case |-> c, lineage |-> LineageOf(c),
     pinned |-> TRUE, restricted |-> FALSE, retries |-> 0, seeded |-> FALSE,
     real |-> real, confined |-> TRUE, oracle |-> {"answer"},
     config |-> [Config(AnswerFloor, FALSE) EXCEPT !.scorer = scorer], runner |-> runner]

MCCapturePlans == {CapturePlan("c1", TRUE, "codex", "oracle"),
                   CapturePlan("c1", FALSE, "fixture", "oracle"),
                   CapturePlan("c2", FALSE, "codex", "any"),
                   CapturePlan("c2", FALSE, "codex", "other"),
                   CapturePlan("c3", TRUE, "codex", "oracle")}

Principals(p) == [role \in {"author", "reviewer", "assessor", "drafter"} |-> p[role]]
People == [author |-> "ann", reviewer |-> "rob", assessor |-> "eve", drafter |-> "dan"]
ProposalPlan(cases, brought) ==
    [kind |-> "proposal", raised |-> FALSE, cases |-> cases, sources |-> brought,
     brought |-> brought, pattern |-> "pat", skill |-> "skill", pinnedCases |-> cases, status |-> "candidate_pattern", principals |-> Principals(People),
     retries |-> 0, seeded |-> FALSE, restricted |-> FALSE, real |-> TRUE, confined |-> TRUE,
     fixes |-> Shared]

\* c4 was never captured; its record is eligible or not, and so is one written
\* over that of c3.
Brought(c, eligible) == [d \in {c} |-> [lineage |-> LineageOf(c), eligible |-> eligible]]

MCProposalPlans == {ProposalPlan(cases, NoCases) : cases \in SUBSET {"c1", "c2", "c3"}}
                 \cup {[ProposalPlan({"c1", "c2"}, NoCases) EXCEPT !.pinnedCases = {"c1"}]}
                 \cup {ProposalPlan({"c1", c}, Brought(c, e)) : c \in {"c3", "c4"}, e \in BOOLEAN}

\* What a plan says of its records is filled in when it is presented.
Unpresented == [pinned |-> FALSE, static |-> "none", semantic |-> "none", synthetic |-> FALSE]

TrialPlan(real, expect, privacy) ==
    [kind |-> "trial", raised |-> FALSE, real |-> real, retries |-> 0, seeded |-> FALSE,
     restricted |-> FALSE, confined |-> TRUE, oracle |-> {"answer"}, routed |-> TRUE,
     exact |-> TRUE, config |-> Config(RuntimeFloor, privacy), runner |-> "codex",
     expectLoaded |-> expect] @@ Unpresented
MCTrialPlans == {TrialPlan(real, expect, real = expect) : real, expect \in BOOLEAN}
                \cup {[TrialPlan(TRUE, TRUE, TRUE) EXCEPT !.exact = FALSE]}

(***************************************************************************)
(* What an executor answers.                                               *)
(***************************************************************************)
Plain(right, marks) == [right |-> right, marks |-> marks, readable |-> TRUE]
Payload(name, described) ==
    [name |-> name, restricted |-> FALSE, instructed |-> TRUE, metadata |-> TRUE,
     described |-> described]
Drafted(triggers, exclusions, criteria, payload) ==
    [right |-> {}, marks |-> {}, readable |-> TRUE,
     draft |-> [triggers |-> triggers, exclusions |-> exclusions, criteria |-> criteria,
                payload |-> payload]]

GoodPayload == Payload("skill-1", {"t1", "x1"})
\* In a trial the output tells of the runtime too.
Told == {"answer", "skill_runtime"}
Outputs(kind) ==
    IF kind = "proposal"
    THEN {Drafted({"t1"}, {"x1"}, MCCriteria, GoodPayload),
          Drafted({"t1"}, {"t1"}, MCCriteria, GoodPayload),
          Drafted({"t1"}, {"x1"}, MCCriteria, [GoodPayload EXCEPT !.instructed = FALSE])}
    ELSE IF kind = "trial"
    THEN {Plain(Told, {}), Plain({"answer"}, {}), Plain({"skill_runtime"}, {}),
          Plain(Told, {"unsafe"}), Plain(Told, {"private"}), NoOutput}
    ELSE {Plain({"answer"}, {}), Plain({}, {}), Plain({"answer"}, {"unsafe"}),
          Plain({}, {"restricted"}), NoOutput}

Containments ==
    {[code |-> "none", status |-> "completed", cleanup |-> c, exit |-> 0] :
        c \in {"not_required", "failed"}}
    \cup {[code |-> "none", status |-> "completed", cleanup |-> "verified", exit |-> 1],
          [code |-> "timeout", status |-> "timeout", cleanup |-> "verified", exit |-> 1],
          [code |-> "stdout_limit_exceeded", status |-> "cleanup_failed", cleanup |-> "failed",
           exit |-> 0]}

Traces == {[session |-> 0, completed |-> FALSE, error |-> TRUE]}
          \cup {[session |-> s, completed |-> c, error |-> ~c] :
                    s \in Session, c \in BOOLEAN}

Finals(kind) == {[kind |-> "missing", output |-> NoOutput, loaded |-> "none"]}
                \cup {[kind |-> "output", output |-> o, loaded |-> l] :
                        o \in Outputs(kind),
                        l \in IF kind = "trial" THEN {"none", "candidate"} ELSE {"none"}}

Simulated(kind) ==
    {[replay |-> Success(f.output, 1), session |-> 0, turn |-> FALSE, loaded |-> f.loaded,
      status |-> "not_applicable", cleanup |-> "not_applicable"] :
        f \in {g \in Finals(kind) : g.kind = "output"}}

\* A completed call with a good output whose process tree was left behind.
Leaky(kind) ==
    {[replay |-> Success(f.output, 1), session |-> 1, turn |-> TRUE, loaded |-> f.loaded,
      status |-> "completed", cleanup |-> "failed"] :
        f \in {g \in Finals(kind) : g.kind = "output"}}

\* An observation whose facts contradict each other.
Contradictory == [ExecutorFailed EXCEPT !.turn = TRUE]

MCAnswers(kind) ==
    {[kind |-> "raised"], [kind |-> "own_error"], [kind |-> "invalid"]}
    \cup {[kind |-> "observation", seen |-> o] :
            o \in {Contradictory} \cup Simulated(kind) \cup Leaky(kind)
                  \cup {CodexObservation(c, t, f) :
                          c \in Containments, t \in Traces, f \in Finals(kind)}}

(***************************************************************************)
(* The review.                                                             *)
(***************************************************************************)
\* A manifest declared by hand; needs gives its members' dependencies, third the
\* role of the third.
Manual(needs, status, third) ==
    [author |-> "ann", reviewer |-> "rob", cases |-> {"c1", "c2"}, patterns |-> {"pat"},
     lifecycle |-> [s \in {"c1", "c2", "pat"} |-> IF s = "c2" THEN status ELSE "current"],
     members |-> [n \in 1 .. 4 |->
        [role |-> CASE n = 1 -> "patch" [] n = 2 -> "baseline" [] n = 3 -> third
                    [] OTHER -> "source_snapshot",
         needs |-> needs[n], content |-> "hand"]],
     excluded |-> {9},
     materials |-> [n \in 1 .. 3 |-> CASE n = 1 -> "minimal_safe" [] n = 2 -> "compact"
                                       [] OTHER -> "full"],
     fixes |-> Shared]

\* The sixth has a member with a reserved name, 12.
MCManifests ==
    {Manual(<<{4}, {}, {}, {2}>>, "current", "tests"),
     Manual(<<{3, 2}, {}, {}, {}>>, "current", "tests"),
     Manual(<<{4}, {}, {}, {1}>>, "current", "tests"),
     Manual(<<{4}, {}, {}, {}>>, "revoked", "tests"),
     Manual(<<{}, {}, {}, {}>>, "current", "source_snapshot"),
     LET m == Manual(<<{}, {}, {}, {}>>, "current", "tests")
     IN  [m EXCEPT !.members = (12 :> m.members[4]) @@ @]}

ExactBytes(members) == [n \in DOMAIN members |-> members[n].content]
MCBytes(members) == {ExactBytes(members), [ExactBytes(members) EXCEPT ![1] = "other"]}

Assessment(assessor, lineage, status) ==
    [assessor |-> assessor, kind |-> "reusable", lineage |-> lineage,
     criteria |-> [c \in MCCriteria |-> IF c = "bounds" THEN status ELSE "satisfied"],
     evidence |-> "reports"]
Lineages == {[c \in {"c1", "c2"} |-> LineageOf(c)],
             [c \in {"c1", "c2"} |-> IF c = "c2" THEN LineageOf("c3") ELSE LineageOf(c)]}
\* The assessor may be the manifest's reviewer but not its author.
MCAssessments == {Assessment(who, l, s) : who \in {"rob", "ann"}, l \in Lineages,
                                          s \in {"satisfied", "unverified"}}

\* "T2" is "t2" in other letters, and "Skill-0" an installed name in others.
MCNormal(t) == CASE t = "T2" -> "t2" [] t = "Skill-0" -> "skill-0" [] OTHER -> t

HandDraft(drafter, skill, triggers, payload) ==
    [drafter |-> drafter, skill |-> skill, triggers |-> triggers, exclusions |-> {"x1"}, payload |-> payload,
     evidence |-> "reports"]
MCDrafts == {HandDraft("dan", "skill", {"t1"}, GoodPayload),
             HandDraft("dan", "Skill-0", {"t1"}, GoodPayload),
             HandDraft("dan", "skill", {"T2"}, Payload("skill-2", {"t2", "x1"}))}

MCValidations == {[payload |-> GoodPayload, validator |-> "val", select |-> {"t1"}, reject |-> {"x1"}],
                [payload |-> GoodPayload, validator |-> "sem", select |-> {"t1"}, reject |-> {"x1"}],
                [payload |-> Payload("skill-2", {"t2", "x1"}), validator |-> "val",
                 select |-> {"t2"}, reject |-> {"x1"}]}

Review(reviewer, shared, scope, declared) ==
    [reviewer |-> reviewer, shared |-> shared, evidenced |-> TRUE, synthetic |-> TRUE,
     results |-> [d \in MCDimensions |-> IF d = "scope" THEN scope ELSE "satisfied"],
     declared |-> declared]
MCReviews == {Review("sem", FALSE, "satisfied", "protocol_accept"),
            Review("sem", FALSE, "unsatisfied", "protocol_accept"),
            Review("sem", FALSE, "unsatisfied", "protocol_reject"),
            Review("dan", FALSE, "satisfied", "protocol_accept"),
            Review("sem", TRUE, "satisfied", "protocol_accept")}

Artifacts(attestor, suite, seen) ==
    [role \in MCRoles |->
        IF role = "holdout" THEN [content |-> "secret", storage |-> "hidden",
                                  attestor |-> attestor, bytes |-> seen]
        ELSE [content |-> IF role = "suite" THEN suite ELSE Shared[role],
              storage |-> "open", attestor |-> attestor, bytes |-> Shared[role]]]
MCArtifactSets == {Artifacts("out", "suite-1", "secret"), Artifacts("ann", "suite-1", "secret"),
                   Artifacts("out", "suite-2", "secret"), Artifacts("out", "suite-1", "other")}

Policy(disposition, safe, tainted, redacted, residual) ==
    [disposition |-> disposition, safe |-> safe, tainted |-> tainted, redacted |-> redacted,
     residual |-> residual]
MaterialPolicies ==
    {Policy(d, s, t, r, u) : d \in {"include_original", "include_redacted",
                                    "protected_hash_only", "reject"},
                             s, t, r, u \in BOOLEAN}
\* Inadmissible ones are tried on the first material only.
MCPolicySets(materials) == {[n \in DOMAIN materials |->
                    CASE n = 1 -> p [] n = 2 -> q [] OTHER -> Policy("include_original", TRUE, FALSE, FALSE, FALSE)] :
                  p \in MaterialPolicies,
                  q \in {Policy("include_redacted", FALSE, TRUE, TRUE, FALSE),
                         Policy("protected_hash_only", FALSE, FALSE, FALSE, FALSE)}}

MCPayloads == {GoodPayload, Payload("skill-2", {"t2", "x1"})}

(***************************************************************************)
(* Suites.  Plan A is small and allows a retry, plan B compares three      *)
(* cells on two metrics, plan C exceeds its budget, plan D has a case      *)
(* whose trigger mode contradicts its oracle.                              *)
(***************************************************************************)
Metric(dimension, role) ==
    [dimension |-> dimension, role |-> role, sign |-> 1, rope |-> 0, margin |-> 0]
SuitePlan(cases, seeds, retries, maxAttempts) ==
    [cases |-> cases, members |-> {"k1"}, seeds |-> seeds,
     envelope |-> [retries |-> retries, retryOn |-> {"timeout"}],
     maxAttempts |-> maxAttempts, oracle |-> {"answer", "route"},
     config |-> [safety |-> TRUE, privacy |-> FALSE, floors |-> [d \in {"route"} |-> 1],
                 runner |-> "fixture", scorer |-> "oracle"],
     runner |-> "fixture", routed |-> TRUE, exact |-> TRUE,
     policy |-> [metrics |-> <<Metric("answer", "primary"), Metric("route", "guardrail")>>,
                 minimumPairs |-> 3, error |-> 2 ^ (Cardinality(seeds) - 1)]]
    @@ Unpresented

MCSuitePlans == {SuitePlan({"k1"}, {0, 1}, 1, 8), SuitePlan({"k1"}, {0, 1, 2}, 0, 6),
                      SuitePlan({"k1"}, {0, 1}, 2, 11),
                      [SuitePlan({"k1"}, {0, 1}, 1, 8) EXCEPT !.routed = FALSE]}

MCRaws(envelope, seen) ==
    IF envelope.retries = 1
    THEN {[kind |-> "output", output |-> Plain({"answer", "route"}, m)] : m \in {{}, {"unsafe"}}}
         \cup {[kind |-> "output", output |-> NoOutput], [kind |-> "timeout"], [kind |-> "raised"]}
    ELSE IF Len(seen) % 2 = 0
         THEN {[kind |-> "output", output |-> Plain({"route"}, {})]}
         ELSE {[kind |-> "output", output |-> Plain(r, {})] :
                  r \in {{"route"}, {"answer"}, {"answer", "route"}}}

(***************************************************************************)
(* Replays and traces.                                                     *)
(***************************************************************************)
FrozenArtifacts ==
    {[pinned |-> p, large |-> l, strict |-> s, output |-> o] :
        p, l, s \in BOOLEAN, o \in {Plain({"answer"}, {}), Plain({"answer"}, {"unsafe"}), NoOutput}}

Readings == [1 .. 3 -> BOOLEAN]

MCReplays ==
    {[artifact |-> a, late |-> <<l1, l2>>, envelope |-> [retries |-> 1, retryOn |-> on],
      oracle |-> {"answer"},
      config |-> [safety |-> TRUE, privacy |-> TRUE, floors |-> AnswerFloor, runner |-> runner,
                 scorer |-> scorer]] :
        a \in FrozenArtifacts, l1, l2 \in Readings,
        on \in {{}, {"timeout"}, {"timeout", "parse_error"}}, runner \in {"any", "other"},
        scorer \in {"any", "oracle"}}

Event(kind, tool, sound) == [kind |-> kind, tool |-> tool, sound |-> sound]
MCEvents == {Event(k, 0, TRUE) : k \in Kinds} \cup {Event("item", 1, TRUE), Event("turn.completed", 0, FALSE)}
=============================================================================
