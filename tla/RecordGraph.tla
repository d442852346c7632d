------------------------------ MODULE RecordGraph ------------------------------
(***************************************************************************)
(* What verify_record_graph says of a store whose files are intact: the     *)
(* cross-record checks of core/_graph.py, driven by the family registry of  *)
(* core/_families.py, over an append-only set of published records.         *)
(*                                                                         *)
(* publish_record admits a record on its own merits (schema, identity); the *)
(* graph is judged only afterwards, so a store passes through states in     *)
(* which it is not sound.  Publishing is the one action; the checks are     *)
(* operators on the set of records.                                         *)
(*                                                                         *)
(* A record: its family, its logical id, the hash of its bytes, its         *)
(* reference fields (a sequence of [id, pin] each), the id it supersedes,   *)
(* and, in the two export families, the outcome and the export mode.        *)
(***************************************************************************)
EXTENDS Integers, Sequences, FiniteSets, Lineage

CONSTANTS
    None,       \* no pin, no superseded record
    Pools       \* sets of schema-valid records; one store takes from one of them

Drafts == UNION Pools

VARIABLE published          \* family -> id -> Record, as a set of records

vars == published

-----------------------------------------------------------------------------
(* The registry: <<family, field, target family>> of every reference        *)

CoreReferences ==
    {<<"claim", "supporting_evidence", "evidence">>,
     <<"evidence", "claim_ids", "claim">>,
     <<"run", "task", "task">>,
     <<"observation", "run", "run">>,
     <<"analysis", "observation", "observation">>}

Members(case) ==
    {<<case, "task", "task">>, <<case, "runs", "run">>, <<case, "claims", "claim">>,
     <<case, "evidence", "evidence">>, <<case, "observations", "observation">>,
     <<case, "analyses", "analysis">>}

ExportReferences ==
    {<<"decision", "case", "case">>, <<"receipt", "decision", "decision">>}

EvaluationReferences ==
    {<<"suite", "cases", "evaluation_case">>,
     <<"evaluation_run", "case", "evaluation_case">>, <<"evaluation_run", "suite", "suite">>,
     <<"report", "champion", "evaluation_run">>, <<"report", "challenger", "evaluation_run">>,
     <<"suite_comparison", "suite", "suite">>,
     <<"suite_comparison", "champion_runs", "evaluation_run">>,
     <<"suite_comparison", "challenger_runs", "evaluation_run">>,
     <<"attempt", "case", "evaluation_case">>, <<"attempt", "suite", "suite">>,
     <<"result", "attempt", "attempt">>}

MemoryReferences ==
    {<<"case_v2", "derived_from", "case_v2">>,
     <<"pattern", "source_cases", "case_v2">>,
     <<"heuristic", "regression_cases", "case_v2">>,
     <<"reuse_event", "run", "run">>, <<"reuse_event", "pattern", "pattern">>}

IncubationReferences ==
    {<<"candidate", "source_cases", "case_v2">>, <<"candidate", "source_patterns", "pattern">>,
     <<"closure", "candidate", "candidate">>,
     <<"eligibility", "candidate", "candidate">>, <<"eligibility", "closure_receipt", "closure">>,
     <<"eligibility", "source_cases", "case_v2">>,
     <<"skill_bundle", "candidate", "candidate">>,
     <<"skill_bundle", "closure_receipt", "closure">>,
     <<"skill_bundle", "eligibility_attestation", "eligibility">>,
     <<"skill_bundle", "source_cases", "case_v2">>,
     <<"static_validation", "candidate_bundle", "skill_bundle">>,
     <<"semantic_review", "candidate_bundle", "skill_bundle">>,
     <<"semantic_review", "static_validation_receipt", "static_validation">>}

ContextReferences ==
    {<<"context_bundle", "candidate", "candidate">>,
     <<"assessment", "candidate", "candidate">>,
     <<"context_bundle_v2", "candidate", "candidate">>,
     <<"context_bundle_v2", "assessments", "assessment">>,
     <<"envelope_closure", "candidate", "candidate">>,
     <<"envelope_closure", "artifacts", "artifact">>}

CollaborationReferences ==
    {<<"window", "task", "task">>,
     <<"ticket", "window", "window">>, <<"ticket", "task", "task">>,
     <<"outcome", "ticket", "ticket">>, <<"outcome_v2", "ticket", "ticket">>}

References ==
    CoreReferences \cup Members("case") \cup ExportReferences
    \cup EvaluationReferences \cup MemoryReferences \cup Members("case_v2")
    \cup IncubationReferences \cup ContextReferences \cup CollaborationReferences

\* The only pair that must link both ways.
TwoWay == {<<"claim", "supporting_evidence", "evidence", "claim_ids">>,
           <<"evidence", "claim_ids", "claim", "supporting_evidence">>}

\* The families with a supersedes lineage, in sorted order of their schema ids.
Lineages == <<"decision", "heuristic", "claim", "analysis", "pattern">>

\* Anchor-scoped lineage: <<family, anchor field>>.
Anchors == {<<"analysis", "observation">>, <<"decision", "case">>}

Families ==
    {ref[1] : ref \in References} \cup {ref[3] : ref \in References}

-----------------------------------------------------------------------------
(* References                                                               *)

Fields(f) == {ref \in References : ref[1] = f}

\* The ids a reference field lists, and the one an object-shaped field holds.
Listed(r, field) == {r.refs[field][i].id : i \in 1..Len(r.refs[field])}
Target(r, field) == r.refs[field][1].id

\* An object-shaped reference, pinned as the schema demands.
Pinned(r, field) ==
    /\ Len(r.refs[field]) = 1
    /\ r.refs[field][1] = [id |-> Target(r, field), pin |-> r.refs[field][1].pin]
    /\ r.refs[field][1].pin # None

\* What the schemas leave of a draft: which families supersede, and which
\* references are one object with a pin.
ASSUME DraftsAssumption ==
    \A d \in Drafts :
        /\ d.supersedes # None => d.family \in {Lineages[i] : i \in 1..Len(Lineages)}
        /\ d.family = "run" => Pinned(d, "task")
        /\ d.family = "observation" => Pinned(d, "run")
        /\ d.family = "analysis" => Pinned(d, "observation")
        /\ d.family = "case" => Pinned(d, "task")
        /\ d.family = "receipt" => Pinned(d, "decision")
        /\ d.family = "decision" => Pinned(d, "case") /\ d.outcome \in {"allow", "deny"}

\* Everything a record names, with the family it expects there.
Names(r) ==
    (UNION {{<<ref[3], i>> : i \in Listed(r, ref[2])} : ref \in Fields(r.family)})
        \cup {<<r.family, i>> : i \in {r.supersedes} \ {None, r.id}}

Has(S, f, i) == \E q \in S : q.family = f /\ q.id = i
Owned(S, i) == \E q \in S : q.id = i

\* Mutant of Dangling: a missing case member is left to the closure check.
DanglingOutsideCases(S, r) ==
    r.family # "case" /\ \E n \in Names(r) : ~Owned(S, n[2])

\* _classify_reference
Dangling(S, r) == \E n \in Names(r) : ~Owned(S, n[2])
CrossType(S, r) == \E n \in Names(r) : Owned(S, n[2]) /\ ~Has(S, n[1], n[2])

\* Mutant of PinMismatch: a pin is compared only in array-shaped references.
PinMismatchInArrays(S, r) ==
    \E ref \in Fields(r.family) : \E i \in 2..Len(r.refs[ref[2]]) : \E q \in S :
        /\ q.family = ref[3]
        /\ q.id = r.refs[ref[2]][i].id
        /\ r.refs[ref[2]][i].pin \notin {None, q.sha}

PinMismatch(S, r) ==
    \E ref \in Fields(r.family) : \E i \in 1..Len(r.refs[ref[2]]) : \E q \in S :
        /\ q.family = ref[3]
        /\ q.id = r.refs[ref[2]][i].id
        /\ r.refs[ref[2]][i].pin \notin {None, q.sha}

DuplicateReference(r) ==
    \E ref \in Fields(r.family) : \E i, j \in 1..Len(r.refs[ref[2]]) :
        i # j /\ r.refs[ref[2]][i].id = r.refs[ref[2]][j].id

DuplicateId(S, r) == \E q \in S : q.id = r.id /\ q.family # r.family

OneWayLink(S, r) ==
    \E link \in TwoWay : \E q \in S :
        /\ r.family = link[1] /\ q.family = link[3]
        /\ q.id \in Listed(r, link[2])
        /\ r.id \notin Listed(q, link[4])

-----------------------------------------------------------------------------
(* Lineage                                                                  *)

SelfReference(r) == r.supersedes = r.id

Linked(S) ==
    {r \in S : /\ r.supersedes \notin {None, r.id}
               /\ r.family \in {Lineages[i] : i \in 1..Len(Lineages)}
               /\ Has(S, r.family, r.supersedes)}

\* supersedes_edges is keyed by the bare id: where two families share one, the
\* family that sorts last writes over the others.
Overwritten(S, r) ==
    \E q \in Linked(S) : \E i, j \in 1..Len(Lineages) :
        q.id = r.id /\ r.family = Lineages[i] /\ q.family = Lineages[j] /\ i < j

Edges(S) ==
    [i \in {r.id : r \in Linked(S)} |->
        (CHOOSE r \in Linked(S) : r.id = i /\ ~Overwritten(S, r)).supersedes]

\* Mutant of OnCycle: only a pair that supersede each other is looked for.
OnPairCycle(S, r) ==
    LET g == Edges(S) IN
    \E i \in DOMAIN g : r.id \in DOMAIN g /\ g[r.id] = i /\ g[i] = r.id

OnCycle(S, r) ==
    LET g == Edges(S) IN
    /\ r.id \in DOMAIN g
    /\ \E N \in SUBSET DOMAIN g : r.id \in N /\ Loop(g, N)

ScopeMismatch(S, r) ==
    \E anchor \in Anchors :
        /\ r.family = anchor[1]
        /\ r \in Linked(S)
        /\ \E q \in S : /\ q.family = r.family /\ q.id = r.supersedes
                       /\ Target(r, anchor[2]) # Target(q, anchor[2])

-----------------------------------------------------------------------------
(* The two composite checks                                                 *)

\* Rule 1: the observation, run and task a member analysis rests on.
ChainBroken(S, case, a) ==
    \/ Target(a, "observation") \notin Listed(case, "observations")
    \/ \E o \in S :
          /\ o.family = "observation" /\ o.id = Target(a, "observation")
          /\ \/ Target(o, "run") \notin Listed(case, "runs")
             \/ \E run \in S :
                   /\ run.family = "run" /\ run.id = Target(o, "run")
                   /\ Target(run, "task") # Target(case, "task")

\* _check_case_closure: the first case version only; a member that is not in the
\* store is skipped.
CaseIncomplete(S, r) ==
    /\ r.family = "case"
    /\ \/ \E a \in S : /\ a.family = "analysis" /\ a.id \in Listed(r, "analyses")
                       /\ ChainBroken(S, r, a)
       \/ \E c \in S : /\ c.family = "claim" /\ c.id \in Listed(r, "claims")
                       /\ ~(Listed(c, "supporting_evidence") \subseteq Listed(r, "evidence"))
       \/ \E e \in S : /\ e.family = "evidence" /\ e.id \in Listed(r, "evidence")
                       /\ ~(Listed(e, "claim_ids") \subseteq Listed(r, "claims"))

\* Mutant of UnauthorizedExport: a superseded decision is no longer held against
\* the receipt.
UnauthorizedUnsuperseded(S, r) ==
    /\ r.family = "receipt"
    /\ \E d \in S : /\ d.family = "decision" /\ d.id = Target(r, "decision")
                    /\ (d.outcome = "deny" \/ r.mode # d.mode)
                    /\ ~\E q \in S : q.family = "decision" /\ q.supersedes = d.id

\* _check_export_authorization
UnauthorizedExport(S, r) ==
    /\ r.family = "receipt"
    /\ \E d \in S : /\ d.family = "decision" /\ d.id = Target(r, "decision")
                    /\ (d.outcome = "deny" \/ r.mode # d.mode)

-----------------------------------------------------------------------------
(* The verdict                                                              *)

\* What can be said of a record that no later record can unsay.
Spoils(S, r) ==
    \/ DuplicateId(S, r) \/ SelfReference(r) \/ CrossType(S, r)
    \/ PinMismatch(S, r) \/ DuplicateReference(r) \/ OneWayLink(S, r)
    \/ OnCycle(S, r) \/ ScopeMismatch(S, r)
    \/ CaseIncomplete(S, r) \/ UnauthorizedExport(S, r)

\* The records check_record_graph complains of, and ok of the report.
Accused(S, r) == Spoils(S, r) \/ Dangling(S, r)
Blamed(S) == {r \in S : Accused(S, r)}
Ok(S) == ~\E r \in S : Accused(S, r)

-----------------------------------------------------------------------------
(* Publishing                                                               *)

Init == published = {}

\* A record whose family and id are taken is a conflict, or a replay.
Publish(d) ==
    /\ ~Has(published, d.family, d.id)
    /\ published' = published \cup {d}

Next == \E P \in Pools : \E d \in P : published \subseteq P /\ Publish(d)

Spec == Init /\ [][Next]_vars

-----------------------------------------------------------------------------
(* Properties                                                               *)

Unique(S) == \A r, q \in S : r.family = q.family /\ r.id = q.id => r = q

TypeOK == published \subseteq Drafts /\ Unique(published)

\* A store is append-only, so bad news is final: once the verifier has found
\* anything but a missing target, no later record brings the store back to ok.
Spoiled(S) == \E r \in S : Spoils(S, r)
BadNewsIsFinal == [][Spoiled(published) => Spoiled(published')]_vars

\* One-directional references make a sound store appendable: a record published
\* into a store that verifies can spoil nothing but itself, or the record whose
\* id it took.
NewcomerBlamed ==
    [][Ok(published) =>
          \A r \in Blamed(published') : \E d \in published' \ published : r.id = d.id]_vars

\* The records that those given lead to, directly or through others.
Reached(from, leads) ==
    LET after[n \in 0..Cardinality(DOMAIN leads)] ==
            IF n = 0 THEN from
            ELSE after[n - 1] \cup UNION {leads[r] : r \in after[n - 1]}
    IN  after[Cardinality(DOMAIN leads)]

Supersedes(S) ==
    [r \in S |-> {q \in S : /\ q.family = r.family
                            /\ q.id = r.supersedes /\ r.supersedes # None}]

RestsOn(S) ==
    [r \in S |-> {q \in S : \E ref \in Fields(r.family) :
                                q.family = ref[3] /\ q.id \in Listed(r, ref[2])}]

\* In a store that verifies no record is, through others, its own successor, and
\* a line of analyses or decisions never leaves its observation or its case.
LineagesSound ==
    Ok(published) =>
        \A r \in published :
            LET before == Supersedes(published)
                line == Reached(before[r], before)
            IN  /\ r \notin line
                /\ \A anchor \in Anchors : r.family = anchor[1] =>
                       \A q \in line : Target(q, anchor[2]) = Target(r, anchor[2])

\* The member records of a case package.
Package(S, case) ==
    {q \in S : \E ref \in Members("case") : q.family = ref[3] /\ q.id \in Listed(case, ref[2])}

\* In a store that verifies, everything the claims, the evidence and the
\* analyses of a case rest on, and what that rests on in turn, is in the case.
PackageClosed ==
    Ok(published) =>
        \A case \in published : case.family = "case" =>
            LET members == Package(published, case)
                argued == {q \in members : q.family \in {"claim", "evidence", "analysis"}}
            IN  Reached(argued, RestsOn(published)) \subseteq members

\* What a verified store is good for: lineages without a turn and packages without a
\* gap (check_record_graph).
OkMeansSound == LineagesSound /\ PackageClosed

\* In a store that verifies, whatever left a project left under a decision that
\* allowed it, in that mode, for exactly the bytes of the case now in the store.
ExportJustified ==
    Ok(published) =>
        \A r \in published : r.family = "receipt" =>
            \E d, case \in published :
                /\ d.family = "decision" /\ r.refs["decision"][1] = [id |-> d.id, pin |-> d.sha]
                /\ case.family = "case" /\ d.refs["case"][1] = [id |-> case.id, pin |-> case.sha]
                /\ d.outcome = "allow" /\ d.mode = r.mode

================================================================================
