---------------------------- MODULE CandidateReview ----------------------------
(***************************************************************************)
(* The chain of records that stands between a candidate and its first run: *)
(* closure of the manifest's members (evolution/incubator.py), eligibility *)
(* (candidate_eligibility.py), the drafted bundle (skill_candidate.py),    *)
(* static validation (skill_static_validation.py), the semantic review     *)
(* protocol (skill_semantic_review.py), the closure of the evaluation      *)
(* envelope (envelope_closure.py), and the context prepared from a         *)
(* manifest (context_governance.py).                                       *)
(*                                                                         *)
(* The functions are pure: the operator keeps what they return, may repeat *)
(* any step with other inputs, and hands whatever lies on the desk to the  *)
(* next one.  A record pins another by hash; here it holds the record      *)
(* pinned, so that two pins agree exactly when the hashes would.           *)
(***************************************************************************)
EXTENDS Integers, FiniteSets, FiniteSetsExt, Functions, Sequences

CONSTANTS Criteria,    \* the eligibility criteria
          Roles,       \* the roles an evaluation envelope must cover
          Bound,       \* the roles whose content the manifest fixes
          Hideable,    \* the role whose artifact may be hidden
          Reserved,    \* members named like the receipt that is generated last
          Installed,   \* names of the installed skills
          Registry,    \* positive triggers of the installed skills
          Normal(_),   \* a name or trigger without case, width and spacing
          Dimensions   \* the dimensions of a semantic review

VARIABLES desk,     \* the record of each family last returned
          context   \* the context last prepared

reviewVars == <<desk, context>>

Families == {"manifest", "closure", "eligibility", "bundle", "static", "semantic",
             "envelope"}
NoRecord == [none |-> TRUE]

ReviewInit ==
    /\ desk = [f \in Families |-> NoRecord]
    /\ context = NoRecord

Has(family) == desk[family] # NoRecord

(***************************************************************************)
(* Manifests and the closure of their members.  Members are named by their *)
(* place in the alphabet.                                                  *)
(***************************************************************************)
Sources(m) == m.cases \cup m.patterns

WellFormed(m) ==
    /\ m.author # m.reviewer
    /\ m.cases \cap m.patterns = {}
    /\ DOMAIN m.lifecycle = Sources(m)
    /\ \A role \in {"baseline", "patch"} :
           Cardinality({n \in DOMAIN m.members : m.members[n].role = role}) = 1
    /\ \E n \in DOMAIN m.members : m.members[n].role = "tests"
    /\ DOMAIN m.members \cap Reserved = {}
    /\ \A n \in DOMAIN m.members : m.members[n].needs \subseteq DOMAIN m.members \ {n}
    /\ m.excluded \cap DOMAIN m.members = {}
    /\ \E n \in DOMAIN m.materials : m.materials[n] = "minimal_safe"

Ready(members, done) == {n \in DOMAIN members \ done : members[n].needs \subseteq done}

\* Mutant of Placed: the last name that is ready goes next.
PlacedLast(members, order) ==
    LET ready == Ready(members, Range(order))
    IN  IF ready = {} THEN order ELSE Append(order, Max(ready))

\* Of the members whose dependencies are all placed, the first name goes next.
Placed(members, order) ==
    LET ready == Ready(members, Range(order))
    IN  IF ready = {} THEN order ELSE Append(order, Min(ready))

TopologicalOrder(members) ==
    LET order[k \in 0 .. Cardinality(DOMAIN members)] ==
            IF k = 0 THEN << >> ELSE Placed(members, order[k - 1])
    IN  order[Cardinality(DOMAIN members)]

\* bytes: the content supplied for each member.
Closable(m, bytes) ==
    /\ WellFormed(m)
    /\ \A s \in DOMAIN m.lifecycle : m.lifecycle[s] = "current"
    /\ DOMAIN bytes = DOMAIN m.members
    /\ \A n \in DOMAIN bytes : bytes[n] = m.members[n].content
    /\ Len(TopologicalOrder(m.members)) = Cardinality(DOMAIN m.members)

Closure(m) == [manifest |-> m, order |-> TopologicalOrder(m.members)]

Declare(m) ==
    /\ desk' = [desk EXCEPT !["manifest"] = m]
    /\ UNCHANGED context

Close(bytes) ==
    /\ Has("manifest") /\ Closable(desk["manifest"], bytes)
    /\ desk' = [desk EXCEPT !["closure"] = Closure(desk["manifest"])]
    /\ UNCHANGED context

(***************************************************************************)
(* Eligibility.  An assessment gives every source case its lineage, where  *)
(* a value that comes back shows two cases that are not independent, and   *)
(* every criterion a status.                                               *)
(***************************************************************************)
LineageFields == {"independence_group", "origin_run_id", "dataset_lineage_id",
                  "task_template_id", "semantic_duplicate_group"}

\* Mutant of Collides: lineages are compared in one field only.
CollidesOneField(lineage) ==
    ~IsInjective([c \in DOMAIN lineage |-> lineage[c]["independence_group"]])

\* lineage gives each case a value of every lineage field.
Collides(lineage) ==
    \E f \in LineageFields : ~IsInjective([c \in DOMAIN lineage |-> lineage[c][f]])

EligibilityBlockers(a) ==
    {b \in {"candidate_kind_not_reusable", "lineage_collision",
            "criterion_unsatisfied", "criterion_unverified"} :
        \/ b = "candidate_kind_not_reusable" /\ a.kind # "reusable"
        \/ b = "lineage_collision" /\ Collides(a.lineage)
        \/ b = "criterion_unsatisfied" /\ \E c \in Criteria : a.criteria[c] = "unsatisfied"
        \/ b = "criterion_unverified" /\ \E c \in Criteria : a.criteria[c] = "unverified"}

EligibilityOutcome(a) ==
    CASE EligibilityBlockers(a) \ {"criterion_unverified"} # {} -> "ineligible"
      [] EligibilityBlockers(a) = {"criterion_unverified"}      -> "needs_more_evidence"
      [] OTHER -> "eligible_for_payload_drafting"

Assessable(m, closure, a) ==
    /\ WellFormed(m)
    /\ closure.manifest = m
    /\ a.assessor # m.author
    /\ DOMAIN a.lineage = m.cases
    /\ DOMAIN a.criteria = Criteria

Eligibility(closure, a) ==
    [closure |-> closure, assessor |-> a.assessor, evidence |-> a.evidence,
     outcome |-> EligibilityOutcome(a)]

Assess(a) ==
    /\ Has("manifest") /\ Has("closure")
    /\ Assessable(desk["manifest"], desk["closure"], a)
    /\ desk' = [desk EXCEPT !["eligibility"] = Eligibility(desk["closure"], a)]
    /\ UNCHANGED context

(***************************************************************************)
(* The drafted bundle and its static validation.                           *)
(***************************************************************************)
\* d: the skill contract, the payload bytes and the eligibility evidence given.
Draftable(eligibility, d) ==
    /\ eligibility.outcome = "eligible_for_payload_drafting"
    /\ d.triggers # {} /\ d.exclusions # {}
    /\ d.triggers \cap d.exclusions = {}
    /\ ~d.payload.restricted /\ d.payload.instructed
    /\ d.evidence = eligibility.evidence

Bundle(eligibility, d) ==
    [eligibility |-> eligibility, drafter |-> d.drafter, skill |-> d.skill,
     triggers |-> d.triggers, exclusions |-> d.exclusions, payload |-> d.payload]

Draft(d) ==
    /\ Has("eligibility") /\ Draftable(desk["eligibility"], d)
    /\ desk' = [desk EXCEPT !["bundle"] = Bundle(desk["eligibility"], d)]
    /\ UNCHANGED context

Normals(S) == {Normal(t) : t \in S}

\* v: the payload bytes supplied and the router examples.  Names and triggers
\* are told apart only after normalization, which the draft did not do; described
\* are the normal triggers the description mentions.
StaticBlockers(bundle, v) ==
    LET intact == v.payload = bundle.payload
    IN  {b \in {"payload_mismatch", "platform_metadata", "trigger_contract",
                "registry_collision", "router_examples"} :
            \/ b = "payload_mismatch" /\ ~intact
            \/ b = "platform_metadata" /\ (~intact \/ ~bundle.payload.metadata)
            \/ b = "trigger_contract" /\
                  ~(Normals(bundle.triggers \cup bundle.exclusions)
                        \subseteq bundle.payload.described)
            \/ b = "registry_collision" /\
                  \/ Normals(bundle.triggers) \cap Normals(Registry) # {}
                  \/ Normal(bundle.skill) \in Normals(Installed)
            \/ b = "router_examples" /\
                  ~(/\ v.select # {} /\ v.reject # {}
                    /\ Normals(v.select) \subseteq Normals(bundle.triggers)
                    /\ Normals(v.reject) \subseteq Normals(bundle.exclusions))}

StaticReceipt(bundle, v) ==
    [bundle |-> bundle, validator |-> v.validator,
     outcome |-> IF StaticBlockers(bundle, v) = {} THEN "static_pass" ELSE "static_fail"]

ValidateStatically(v) ==
    /\ Has("bundle")
    /\ desk' = [desk EXCEPT !["static"] = StaticReceipt(desk["bundle"], v)]
    /\ UNCHANGED context

(***************************************************************************)
(* The semantic review protocol: a declared review is bound to the exact   *)
(* artifacts, and anything amiss makes it inconclusive.                    *)
(***************************************************************************)
DimensionOutcome(r) ==
    LET said == {r.results[d] : d \in Dimensions}
    IN  CASE "unverified" \in said  -> "protocol_inconclusive"
          [] "unsatisfied" \in said /\ "unverified" \notin said -> "protocol_reject"
          [] OTHER                  -> "protocol_accept"

SemanticBlockers(bundle, static, r) ==
    {b \in {"static_mismatch", "static_not_passed", "reviewer_not_separate",
            "evidence_mismatch", "outcome_mismatch"} :
        \/ b = "static_mismatch" /\ static.bundle # bundle
        \/ b = "static_not_passed" /\
              (static.bundle # bundle \/ static.outcome # "static_pass")
        \/ b = "reviewer_not_separate" /\
              (r.reviewer \in {bundle.drafter, static.validator} \/ r.shared)
        \/ b = "evidence_mismatch" /\ ~r.evidenced
        \/ b = "outcome_mismatch" /\ r.declared # DimensionOutcome(r)}

SemanticAttestation(bundle, static, r) ==
    [bundle |-> bundle, static |-> static, reviewer |-> r.reviewer,
     synthetic |-> r.synthetic, shared |-> r.shared,
     outcome |-> IF SemanticBlockers(bundle, static, r) = {} THEN DimensionOutcome(r)
                 ELSE "protocol_inconclusive"]

ReviewSemantically(r) ==
    /\ Has("bundle") /\ Has("static")
    /\ desk' = [desk EXCEPT !["semantic"] =
                    SemanticAttestation(desk["bundle"], desk["static"], r)]
    /\ UNCHANGED context

(***************************************************************************)
(* The closure of the evaluation envelope.  artifacts gives each role its  *)
(* record: the content it claims, where it is kept, who attests a hidden   *)
(* one, and the bytes supplied for it or, of a hidden one, those its       *)
(* attestor observed.                                                      *)
(***************************************************************************)
EnvelopeClosable(m, bytes, artifacts) ==
    /\ Closable(m, bytes)
    /\ DOMAIN artifacts = Roles
    /\ \A role \in Bound : artifacts[role].content = m.fixes[role]
    /\ \A role \in Roles :
           LET a == artifacts[role]
           IN  /\ a.bytes = a.content
               /\ a.storage = "hidden" =>
                     role = Hideable /\ a.attestor \notin {m.author, m.reviewer}

Envelope(m, artifacts) ==
    [manifest |-> m, artifacts |-> [role \in Roles |-> artifacts[role].content]]

CloseEnvelope(bytes, artifacts) ==
    /\ Has("manifest") /\ EnvelopeClosable(desk["manifest"], bytes, artifacts)
    /\ desk' = [desk EXCEPT !["envelope"] = Envelope(desk["manifest"], artifacts)]
    /\ UNCHANGED context

(***************************************************************************)
(* What the forward test demands of the records before any arm: every pin  *)
(* names the very record at hand, and the payload is the bundle's.         *)
(***************************************************************************)
\* Mutant of Pinned: the attestation's pin of the static receipt is not
\* compared.
PinnedButStatic(payload) ==
    /\ \A f \in Families \ {"eligibility", "closure"} : Has(f)
    /\ desk["bundle"].eligibility.closure.manifest = desk["manifest"]
    /\ desk["static"].bundle = desk["bundle"]
    /\ desk["semantic"].bundle = desk["bundle"]
    /\ desk["envelope"].manifest = desk["manifest"]
    /\ payload = desk["bundle"].payload
    /\ \A role \in Bound : desk["envelope"].artifacts[role] = desk["manifest"].fixes[role]

Pinned(payload) ==
    /\ \A f \in Families \ {"eligibility", "closure"} : Has(f)
    /\ desk["bundle"].eligibility.closure.manifest = desk["manifest"]
    /\ desk["static"].bundle = desk["bundle"]
    /\ desk["semantic"].bundle = desk["bundle"]
    /\ desk["semantic"].static = desk["static"]
    /\ desk["envelope"].manifest = desk["manifest"]
    /\ payload = desk["bundle"].payload
    /\ \A role \in Bound : desk["envelope"].artifacts[role] = desk["manifest"].fixes[role]

(***************************************************************************)
(* The context prepared from a manifest's materials under one retention    *)
(* mode.  A policy classifies each material and disposes of it.            *)
(***************************************************************************)
Selected(mode) ==
    CASE mode = "normal"  -> {"full", "compact", "minimal_safe"}
      [] mode = "compact" -> {"compact", "minimal_safe"}
      [] OTHER            -> {"minimal_safe"}

\* Mutant of Disposable: the taint of the source itself is not asked for.
DisposableTainted(p) ==
    \/ p.disposition = "include_original" /\ p.safe /\ ~p.residual
    \/ p.disposition = "include_redacted" /\ p.redacted /\ ~p.residual
    \/ p.disposition = "protected_hash_only" /\ ~p.safe
    \/ p.disposition = "reject"

\* Whether one assessment is admissible.
Disposable(p) ==
    \/ p.disposition = "include_original" /\ p.safe /\ ~p.tainted /\ ~p.residual
    \/ p.disposition = "include_redacted" /\ p.redacted /\ ~p.residual
    \/ p.disposition = "protected_hash_only" /\ ~p.safe
    \/ p.disposition = "reject"

\* Every material's fate; cost is the bytes of one included material.
Fate(m, policies, mode) ==
    [n \in DOMAIN m.materials |->
        IF m.materials[n] \notin Selected(mode) THEN "excluded_by_mode"
        ELSE CASE policies[n].disposition = "include_original"    -> "original"
               [] policies[n].disposition = "include_redacted"    -> "redacted"
               [] policies[n].disposition = "protected_hash_only" -> "protected"
               [] OTHER                                           -> "rejected_by_policy"]

PrepareContext(policies, mode, budget) ==
    /\ Has("manifest") /\ WellFormed(desk["manifest"])
    /\ LET m    == desk["manifest"]
           fate == Fate(m, policies, mode)
           kept == {n \in DOMAIN fate : fate[n] \in {"original", "redacted"}}
       IN  /\ DOMAIN policies = DOMAIN m.materials
           /\ \A n \in DOMAIN policies : Disposable(policies[n])
           /\ 1 + Cardinality(kept) <= budget
           /\ \E n \in DOMAIN fate : /\ m.materials[n] = "minimal_safe"
                                     /\ fate[n] \in {"original", "redacted", "protected"}
           /\ context' = [manifest |-> m, mode |-> mode, policies |-> policies,
                          fate |-> fate,
                          invalidated |-> {s \in Sources(m) : m.lifecycle[s] # "current"}]
    /\ UNCHANGED desk
-----------------------------------------------------------------------------
\* A closure lists every member after all it depends on, and of all such lists
\* the alphabetically first; a manifest whose members depend on each other in a
\* circle, or that rests on a source no longer current, has none
\* (incubator._topological_order, close_candidate_bundle).
ClosuresOrdered ==
    Has("closure") =>
        LET members == desk["closure"].manifest.members
            order   == desk["closure"].order
        IN  /\ Len(order) = Cardinality(DOMAIN members)
            /\ Range(order) = DOMAIN members
            /\ \A i \in DOMAIN order :
                  \A j \in DOMAIN order :
                     /\ order[j] \in members[order[i]].needs => j < i
                     /\ i < j /\ order[j] < order[i] =>
                           \E k \in i .. j - 1 : order[k] \in members[order[j]].needs
            /\ \A s \in Sources(desk["closure"].manifest) :
                  desk["closure"].manifest.lifecycle[s] = "current"

\* A prepared context shows in plain words only what is safe and untainted, or
\* redacted clean; of what its mode selects, nothing is dropped but what the
\* policy rejects, whatever the budget; and something minimally safe is left
\* (context_governance.ContextMaterialAssessment, prepare_context).
ContextGoverned ==
    context # NoRecord =>
        LET m == context.manifest
            plain(n) == context.fate[n] \in {"original", "redacted"}
        IN  /\ \A n \in DOMAIN m.materials :
                  LET policy == context.policies[n]
                  IN  /\ context.fate[n] = "original" =>
                            policy.safe /\ ~policy.tainted /\ ~policy.residual
                      /\ context.fate[n] = "redacted" => policy.redacted /\ ~policy.residual
                      /\ /\ m.materials[n] \in Selected(context.mode)
                         /\ policy.disposition # "reject"
                         => plain(n) \/ context.fate[n] = "protected"
            /\ \E n \in DOMAIN m.materials :
                  /\ m.materials[n] = "minimal_safe"
                  /\ plain(n) \/ context.fate[n] = "protected"
=============================================================================
