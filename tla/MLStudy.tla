-------------------------------- MODULE MLStudy --------------------------------
(***************************************************************************)
(* A machine learning study (adapters/ml/): cases are judged and turned    *)
(* into contracts (build_evaluation_contract), a synthetic experiment is   *)
(* run under a contract (runner.py), and claims are validated against a    *)
(* contract and the evidence at hand (validate_claim).                     *)
(*                                                                         *)
(* Contracts and evidence are values: whoever holds one may present it     *)
(* with another case, and contracts may also be written by hand.  A hash   *)
(* pins what it names, so here it is what it names.                        *)
(***************************************************************************)
EXTENDS MLCase, SplitExecution

CONSTANTS
    Cases,          \* declared cases
    HandWritten,    \* contracts written by hand
    DataSets,       \* payloads of the synthetic runner
    Items,          \* evidence from elsewhere
    Claims,         \* claims
    MaxEpochs,      \* _MAX_EPOCHS
    MaxSeeds,       \* _MAX_SEEDS
    MaxVisits       \* _MAX_SAMPLE_VISITS

ASSUME StudyAssumption ==
    /\ \A c \in Cases :
          /\ CaseShape(c)
          /\ c.split.kind = "time_series" => c.split.gap \in Int /\ c.split.embargo \in Int
    /\ \A k \in HandWritten : k.selectionPartition \in {"train", "validation", "test"}
    /\ \A data \in DataSets : DataShape(data)
    /\ \A claim \in Claims : /\ claim.class \in {"engineering", "data_acceptance", "generalization"}
                             /\ claim.outcome \in {"pass", "fail", "inconclusive"}

VARIABLES
    judged,      \* the case last judged and the violations its author was told
    contract,    \* the contract at hand
    evidence,    \* the evidence at hand
    executed,    \* the last synthetic experiment
    assessed     \* the last claim assessed, with what it was assessed against

studyVars == <<judged, contract, evidence, executed, assessed>>

Nothing == [none |-> TRUE]

StudyInit ==
    /\ judged = Nothing
    /\ contract = Nothing
    /\ evidence = {}
    /\ executed = Nothing
    /\ assessed = Nothing

(***************************************************************************)
(* Contracts.                                                              *)
(***************************************************************************)
\* _ML_RANK: the promotion path of machine learning claims, lowest first.
Path == <<"draft", "engineering_verified", "data_accepted", "evaluation_eligible",
          "empirically_supported", "externally_validated", "production_observed">>
Rank(maturity) == CHOOSE n \in DOMAIN Path : Path[n] = maturity
Lowest(ceilings) == Path[Min({Rank(m) : m \in ceilings})]

Classes == {"engineering", "data_acceptance", "generalization"}
ClaimType(class) ==
    CASE class = "engineering"     -> "engineering_claim"
      [] class = "data_acceptance" -> "data_claim"
      [] class = "generalization"  -> "empirical_claim"
GateBar(gate) ==
    [type |-> ClaimType(gate),
     least |-> CASE gate = "engineering"     -> "engineering_verified"
                 [] gate = "data_acceptance" -> "data_accepted"
                 [] gate = "generalization"  -> "empirically_supported"]

\* The section that every case has exactly once.
SectionOf(c, kind) == c.sections[CHOOSE i \in DOMAIN c.sections : c.sections[i].kind = kind]

\* The bars of the gates, each once, in the order of the first mention.
Bars(gates) ==
    LET firsts == {n \in DOMAIN gates : \A k \in 1 .. n - 1 : gates[k] # gates[n]}
    IN  [b \in 1 .. Cardinality(firsts) |->
            GateBar(gates[CHOOSE n \in firsts : Cardinality({k \in firsts : k <= n}) = b])]

ContractOf(c) ==
    [case |-> c, study |-> c.study, bars |-> Bars(c.gates),
     declaration |-> [d \in AssessmentDimensions |-> c.assessment[d].status],
     selectionPartition |-> c.selectionUsed, selection |-> SectionOf(c, "selection").sha,
     split |-> SectionOf(c, "split").sha]

\* build_evaluation_contract
BuildContract(c) ==
    /\ judged' = [case |-> c, violations |-> TopologyViolations(c)]
    /\ contract' = IF judged'.violations = {} THEN ContractOf(c) ELSE contract
    /\ UNCHANGED <<evidence, executed, assessed>>

\* A payload of the contract schema, whoever made it.
WriteContract(k) ==
    /\ contract' = k
    /\ UNCHANGED <<judged, evidence, executed, assessed>>

\* validate_selection_contract
SelectionAllowed(k) == k.selectionPartition # "test"

\* _FINAL_EVALUATION_PREDICATES
FinalEvaluationAllowed(k, item) ==
    /\ item.case = k.case
    /\ item.final \in Protected
    /\ item.split = k.split

(***************************************************************************)
(* The synthetic experiment.                                               *)
(***************************************************************************)
\* What the runner can execute: nothing is fitted but the model.
Executable(c) ==
    /\ c.honest /\ c.selectionUsed \in {"train", "validation", "test"}
    /\ \A i \in DOMAIN c.sections : c.sections[i].kind \notin Steps
    /\ c.selectionScope = "none" /\ c.encodingScope = "none"
    /\ ~c.searched /\ c.tuningUsed \notin Protected
    /\ Cardinality({c.seeds[n] : n \in DOMAIN c.seeds}) = Len(c.seeds)
    /\ c.seedCount = Len(c.seeds)

\* _validate_contract: the contract is the one of this case.
Matches(k, c) ==
    /\ k.case = c /\ k.study = c.study
    /\ k.selectionPartition = c.selectionUsed
    /\ k.selection = SectionOf(c, "selection").sha /\ k.split = SectionOf(c, "split").sha

\* _validate_hash_bindings
Bound(data, c) ==
    /\ SectionOf(c, "dataset").sha = data.content
    /\ c.split.assignment = data.partitions
    /\ data.context # NoContext => c.split.context = data.context

Disjoint(data) ==
    /\ \A p \in DOMAIN data.partitions : data.partitions[p] # {}
    /\ \A p, q \in DOMAIN data.partitions : p # q => data.partitions[p] \cap data.partitions[q] = {}

WithinBudget(data, c) ==
    /\ Len(c.seeds) <= MaxSeeds
    /\ c.budget.epochs \in 1 .. MaxEpochs
    /\ c.budget.limit \in 1 .. Cardinality(data.partitions["train"])
    /\ c.budget.epochs * c.budget.limit * Len(c.seeds) <= MaxVisits

\* What one seed costs either arm: every epoch visits the first `limit` training
\* rows of an order of its own (_epoch_orders, _fit_model).
Visits(c) == c.budget.epochs * c.budget.limit

\* run_synthetic_experiment, where the fit does not diverge.
RunSyntheticExperiment(data, c, final) ==
    /\ contract # Nothing
    /\ Matches(contract, c) /\ Executable(c) /\ SelectionAllowed(contract)
    /\ Disjoint(data) /\ Bound(data, c)
    /\ {"train", contract.selectionPartition, final} \subseteq DOMAIN data.partitions
    /\ final \in Protected
    /\ SplitExecutes(data, c.split)
    /\ WithinBudget(data, c)
    /\ executed' = [data |-> data, case |-> c, final |-> final, contract |-> contract,
                    visits |-> Visits(c) * Len(c.seeds)]
    /\ evidence' = evidence \cup
          {[schema |-> "v2", kind |-> "experiment_run", study |-> c.study, case |-> c,
            provenance |-> "synthetic", seeds |-> c.seeds, frozen |-> TRUE,
            final |-> final, split |-> SectionOf(c, "split").sha]}
    /\ UNCHANGED <<judged, contract, assessed>>

\* Evidence from elsewhere.
Collect(item) ==
    /\ evidence' = evidence \cup {item}
    /\ UNCHANGED <<judged, contract, executed, assessed>>

(***************************************************************************)
(* Claims.                                                                 *)
(***************************************************************************)
AssessmentKind(d) ==
    CASE d = "calibration" -> "calibration_assessment" [] d = "subgroup" -> "subgroup_assessment"
      [] d = "ood" -> "ood_assessment"                 [] d = "drift" -> "drift_assessment"
RelevantKinds(class) ==
    CASE class = "engineering"     -> {"unit_test_run", "experiment_run"}
      [] class = "data_acceptance" -> {"data_audit_report"}
      [] class = "generalization"  -> {"experiment_run"}
OfKinds(items, kinds) == {e \in items : e.kind \in kinds}
Experiments(items) == OfKinds(items, {"experiment_run"})

Eligible(items) == {e \in Experiments(items) : e.provenance \in {"public", "real"}}
\* Mutant of MultiSeed: the listed seeds are counted.
MultiSeedListed(items) == {e \in Eligible(items) : Len(e.seeds) >= 2}
MultiSeed(items) ==
    {e \in Eligible(items) : Cardinality({e.seeds[n] : n \in DOMAIN e.seeds}) >= 2}
Solid(items) == {e \in MultiSeed(items) : e.frozen}

\* The constraints on a generalization claim, each a ceiling with its rule.
Constraints(items) ==
    (IF Eligible(items) = {} THEN {<<"data_accepted", "synthetic-evidence-cap">>} ELSE {})
    \cup (IF MultiSeed(items) = {} THEN {<<"engineering_verified", "single-seed-cap">>} ELSE {})
    \cup (IF Solid(items) = {} THEN {<<"data_accepted", "frozen-holdout-missing">>} ELSE {})

Ceiling(class, items) ==
    CASE class = "engineering"     -> "engineering_verified"
      [] class = "data_acceptance" -> "data_accepted"
      [] class = "generalization"  ->
            Lowest({"empirically_supported"} \cup {c[1] : c \in Constraints(items)})

Performed(items, d) == OfKinds(items, {AssessmentKind(d)}) # {}
Gaps(k, items) ==
    {d \in AssessmentDimensions : ~(k.declaration[d] = "declared" /\ Performed(items, d))}

\* Everything refused by an exception.
Admissible(claim, k, items) ==
    /\ DOMAIN k.declaration = AssessmentDimensions
    /\ SelectionAllowed(k)
    /\ \A e \in items : e.study = claim.study
    /\ claim.case = k.case /\ claim.study = k.study
    /\ claim.class = "generalization" =>
          \A e \in Experiments(items) : e.schema = "v2" /\ FinalEvaluationAllowed(k, e)
    /\ \A d \in AssessmentDimensions : k.declaration[d] = "not_performed" => ~Performed(items, d)
    /\ claim.class = "generalization" =>
          /\ Gaps(k, items) \subseteq claim.gaps
          /\ Gaps(k, items) # {} => claim.limited
    /\ \A b \in DOMAIN k.bars :
          k.bars[b].type \in {ClaimType(class) : class \in Classes} =>
             \E n \in DOMAIN Path : Path[n] = k.bars[b].least
    /\ Cardinality({b \in DOMAIN k.bars : k.bars[b].type = ClaimType(claim.class)}) = 1

Disposition(claim, items) ==
    CASE claim.outcome = "inconclusive" -> "inconclusive"
      [] claim.outcome # "inconclusive" /\ OfKinds(items, RelevantKinds(claim.class)) = {} ->
            "inconclusive"
      [] claim.outcome = "fail" /\ OfKinds(items, RelevantKinds(claim.class)) # {} -> "refuted"
      [] OTHER ->
            IF claim.class = "generalization"
               /\ Ceiling(claim.class, items) # "empirically_supported"
            THEN "inconclusive" ELSE "supported"

\* The bar that applies: the one of the claim's type.
Bar(claim, k) ==
    (CHOOSE b \in {k.bars[n] : n \in DOMAIN k.bars} : b.type = ClaimType(claim.class)).least

\* validate_claim
ValidateClaim(claim) ==
    /\ contract # Nothing
    /\ Admissible(claim, contract, evidence)
    /\ assessed' = [claim |-> claim, contract |-> contract, evidence |-> evidence,
                    ceiling |-> Ceiling(claim.class, evidence),
                    disposition |-> Disposition(claim, evidence),
                    below |-> Rank(Ceiling(claim.class, evidence)) < Rank(Bar(claim, contract))]
    /\ UNCHANGED <<judged, contract, evidence, executed>>

StudyNext ==
    \/ \E c \in Cases : BuildContract(c)
    \/ \E k \in HandWritten : WriteContract(k)
    \/ \E data \in DataSets, c \in Cases, final \in STRING : RunSyntheticExperiment(data, c, final)
    \/ \E item \in Items : Collect(item)
    \/ \E claim \in Claims : ValidateClaim(claim)

StudySpec == StudyInit /\ [][StudyNext]_studyVars

-----------------------------------------------------------------------------
\* A claim of generalization is supported only by one experiment that is all at
\* once: on data that is not synthetic, repeated under different seeds, over a
\* holdout frozen for the very case and split the contract was made of and never
\* selected on -- with every experiment at hand on that case and that split, and
\* every assessment either performed as declared or owned up to.  Synthetic runs
\* never lift it above engineering.  Nothing is decided without evidence of the
\* claim's kind, and more evidence never lowers a ceiling (validate_claim).
ClaimsGrounded ==
    assessed # Nothing =>
        LET a == assessed
            k == a.contract
            general == a.claim.class = "generalization"
            pinned(e) == e.case = k.case /\ e.split = k.split /\ e.final \in Protected
        IN  /\ general /\ a.disposition = "supported" =>
                  /\ \E e \in a.evidence :
                        /\ e.kind = "experiment_run" /\ e.provenance # "synthetic"
                        /\ \E m, n \in DOMAIN e.seeds : e.seeds[m] # e.seeds[n]
                        /\ e.frozen /\ e.final # k.selectionPartition
                  /\ k.selectionPartition # "test"
            /\ general =>
                  /\ \A e \in a.evidence : e.kind = "experiment_run" => pinned(e)
                  /\ \A d \in AssessmentDimensions :
                        \/ d \in a.claim.gaps /\ a.claim.limited
                        \/ \E e \in a.evidence : e.kind = AssessmentKind(d)
                  /\ (\A e \in a.evidence : e.provenance = "synthetic") =>
                        a.ceiling = "engineering_verified"
            /\ a.disposition # "inconclusive" =>
                  /\ a.disposition = (IF a.claim.outcome = "pass" THEN "supported" ELSE "refuted")
                  /\ \E e \in a.evidence : e.kind \in RelevantKinds(a.claim.class)
            /\ \A items \in SUBSET a.evidence :
                  Rank(Ceiling(a.claim.class, items)) <= Rank(a.ceiling)

\* What is judged of a declaration and what is run under a contract keep the
\* data for the final evaluation apart from everything else: declared steps in
\* order, rows apart as the split promises, the assignment the pinned one, the
\* final rows never trained or selected on, and the visits within the budget
\* (build_evaluation_contract, run_synthetic_experiment).
ExperimentIsolated ==
    /\ judged # Nothing => VerdictMeansOrder(judged.case, judged.violations)
    /\ executed # Nothing =>
          LET x == executed
              part == x.data.partitions
          IN  /\ RowsApart(x.data, x.case.split)
              /\ x.final \notin {"train", x.case.selectionUsed}
              /\ part[x.final] \cap (part["train"] \cup part[x.case.selectionUsed]) = {}
              /\ part = x.case.split.assignment
              /\ x.visits <= MaxVisits
=============================================================================
