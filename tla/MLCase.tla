-------------------------------- MODULE MLCase --------------------------------
(***************************************************************************)
(* The declared experiment of a machine learning case (adapters/ml/): a    *)
(* graph of sections that pin their upstream by hash, and the rules that   *)
(* judge it before a contract is built from it (_topology.py).             *)
(*                                                                         *)
(* Sections stand in the order of their declaration: the dataset, the      *)
(* split, preprocessing and sampling steps, the selection.  Free text is   *)
(* what the rules tell apart: whether it is blank.                         *)
(***************************************************************************)
EXTENDS Integers, Sequences, FiniteSets, FiniteSetsExt, Lineage

Steps == {"preprocessing", "sampling"}
Protected == {"test", "future_holdout"}
AssessmentDimensions == {"calibration", "subgroup", "ood", "drift"}

SectionShape == [kind : {"dataset", "split", "selection"} \cup Steps, id : STRING, sha : STRING,
                 input : STRING, scope : {"none", "train_only", "per_fold", "full_data", "pre_split"}]

\* What the schema leaves of a case: its sections, with one dataset, one split and one
\* selection among them, every step with a scope, and what the selection may have used.
CaseShape(c) ==
    /\ c.sections \in Seq(SectionShape)
    /\ \A kind \in {"dataset", "split", "selection"} :
          \E i \in DOMAIN c.sections :
             \A j \in DOMAIN c.sections : c.sections[j].kind = kind <=> j = i
    /\ \A i \in DOMAIN c.sections : c.sections[i].kind \in Steps => c.sections[i].scope # "none"
    /\ \A i \in DOMAIN c.sections :
          c.sections[i].kind = "preprocessing" => c.sections[i].scope # "pre_split"
    /\ c.selectionUsed \in {"train", "validation", "test"}

\* _ALLOWED_UPSTREAM
AllowedUpstream(kind) ==
    CASE kind = "split"     -> {"dataset"}
      [] kind \in Steps     -> {"dataset", "split"}
      [] kind = "selection" -> {"split"} \cup Steps

Found(rule, sections) == {[rule |-> rule, section |-> i] : i \in sections}

(***************************************************************************)
(* The structure.  Every section a rule concerns is named here, where the  *)
(* code names the first of a group.                                        *)
(***************************************************************************)
Pinning(s) == {i \in DOMAIN s : s[i].kind # "dataset"}
Conflicting(s) == {i \in DOMAIN s : \E j \in DOMAIN s : s[j].id = s[i].id /\ s[j].sha # s[i].sha}
Ambiguous(s) == {i \in DOMAIN s : \E j \in DOMAIN s \ {i} : s[j].sha = s[i].sha}
SelfPinned(s) == {i \in Pinning(s) : s[i].input = s[i].sha}
PinTargets(s, i) == {j \in DOMAIN s : s[j].sha = s[i].input}
Dangling(s) == {i \in Pinning(s) \ SelfPinned(s) : PinTargets(s, i) = {}}

\* resolved: the first section in declaration order that a pin names.
Upstream(s) == [i \in Pinning(s) \ (SelfPinned(s) \cup Dangling(s)) |-> Min(PinTargets(s, i))]

Misdirected(s) ==
    LET up == Upstream(s)
    IN  {i \in DOMAIN up : s[up[i]].kind \notin AllowedUpstream(s[i].kind)}

\* Kahn's elimination: sections no remaining section pins are removed, as long
\* as there are any.
Eliminated(s) ==
    LET up == Upstream(s)
        remaining[n \in 0 .. Len(s)] ==
            IF n = 0 THEN DOMAIN s
            ELSE {i \in remaining[n - 1] :
                    \E j \in remaining[n - 1] \cap DOMAIN up : up[j] = i}
    IN  DOMAIN s \ remaining[Len(s)]

\* _dag_violations; a cycle is reported at its first section.
StructuralViolations(s) ==
    LET left == DOMAIN s \ Eliminated(s)
    IN  UNION {Found("dag-identity-conflict", Conflicting(s)),
               Found("dag-ambiguous-pin-target", Ambiguous(s)),
               Found("dag-self-reference", SelfPinned(s)),
               Found("dag-dangling-pin", Dangling(s)),
               Found("dag-illegal-direction", Misdirected(s)),
               Found("dag-reference-cycle", IF left = {} THEN {} ELSE {Min(left)})}

(***************************************************************************)
(* Leakage, and the floors the schema cannot state.                        *)
(***************************************************************************)
OfKind(s, kind) == {i \in DOMAIN s : s[i].kind = kind}

\* _LEAKAGE_PREDICATES; 0 stands for the sections outside the graph.
Leaks(c) ==
    LET s == c.sections
        steps == {i \in DOMAIN s : s[i].kind \in Steps}
        dataset == CHOOSE i \in DOMAIN s : s[i].kind = "dataset"
    IN  UNION {Found("preprocessing-fit-full-data", {i \in OfKind(s, "preprocessing") : s[i].scope = "full_data"}),
               Found("sampling-scope-unsafe", {i \in OfKind(s, "sampling") : s[i].scope \in {"full_data", "pre_split"}}),
               Found("scope-upstream-mismatch",
                     {i \in steps : s[i].scope \in {"train_only", "per_fold"} /\ s[i].input = s[dataset].sha}),
               Found("feature-selection-fit-full-data", IF c.selectionScope = "full_data" THEN {0} ELSE {}),
               Found("target-encoding-not-per-fold", IF c.encodingScope \in {"per_fold", "none"} THEN {} ELSE {0}),
               Found("tuning-uses-protected-split", IF c.tuningUsed \in Protected THEN {0} ELSE {}),
               Found("selection-uses-test", IF c.selectionUsed = "test" THEN {0} ELSE {})}

\* _split_parameters_kind_contract.  A number of sessions is -1 for other text
\* and -2 for none; a number of folds is 0 if it is no integer.
SplitParametersMissing(p) ==
    \/ p.kind = "group" /\ ~p.keyed
    \/ p.kind = "time_series" /\ (p.gap = -2 \/ p.embargo = -2)
    \/ p.kind = "nested" /\ (p.outer < 2 \/ p.inner < 2)

\* _SEMANTIC_FLOORS
Floors(c) ==
    LET unmatched == {d \in AssessmentDimensions :
                        (c.assessment[d].status = "declared") # c.assessment[d].detail}
    IN  UNION {Found("split-parameters-kind-contract", IF SplitParametersMissing(c.split) THEN {0} ELSE {}),
               Found("tuning-seed-count-floor", IF c.seedCount < 1 THEN {0} ELSE {}),
               Found("assessment-detail", IF unmatched = {} THEN {} ELSE {0})}

\* validate_declared_topology: nothing else is judged of an unsound structure.
TopologyViolations(c) ==
    LET structure == StructuralViolations(c.sections)
    IN  IF structure # {} THEN structure ELSE Leaks(c) \cup Floors(c)
-----------------------------------------------------------------------------
\* Whatever starts at section i and follows every pin comes to section j.
DependsOn(s, i, j) ==
    LET up == Upstream(s)
    IN  \A N \in SUBSET DOMAIN s :
            i \in N /\ (\A k \in N \cap DOMAIN up : up[k] \in N) => j \in N

\* What the verdict on a declaration means.  In one that is accepted everything
\* that is fitted, resampled or selected comes after the split, and the split
\* after the dataset, along pins that name one section each.  In any, a cycle is
\* reported exactly when there is one, and none without a pin in a forbidden
\* direction (the comment over the elimination in _dag_violations).
VerdictMeansOrder(c, violations) ==
    LET s == c.sections
        cycles == {N \in SUBSET DOMAIN s : Cycle(Upstream(s), N)}
        reported == {v.section : v \in {w \in violations : w.rule = "dag-reference-cycle"}}
    IN  /\ violations = {} =>
              /\ \A i \in DOMAIN s : s[i].kind \in Steps \cup {"selection"} =>
                    \E j, k \in DOMAIN s : /\ s[j].kind = "split" /\ s[k].kind = "dataset"
                                           /\ DependsOn(s, i, j) /\ DependsOn(s, j, k)
                                           /\ ~DependsOn(s, j, i)
              /\ \A i \in Pinning(s) : Cardinality(PinTargets(s, i)) = 1
        /\ reported = (IF cycles = {} THEN {} ELSE {Min(UNION cycles)})
        /\ cycles # {} => \E v \in violations : v.rule = "dag-illegal-direction"
=============================================================================
