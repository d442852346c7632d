--------------------------- MODULE MCDeclaredGraphs ---------------------------
(***************************************************************************)
(* Two algorithms over graphs that callers declare, and what rests on      *)
(* them: the walk over every lineage of five records, and, beside the      *)
(* empty lineage, the studies whose sections pin each other.               *)
(***************************************************************************)
EXTENDS LineageWalk, MLStudy

MCIds == 1 .. 5

(***************************************************************************)
(* Cases.                                                                  *)
(***************************************************************************)
Section(kind, id, sha, input, scope) ==
    [kind |-> kind, id |-> id, sha |-> sha, input |-> input, scope |-> scope]

Assessment(undone) ==
    [d \in AssessmentDimensions |-> IF d \in undone THEN [status |-> "not_performed", detail |-> FALSE]
                                    ELSE [status |-> "declared", detail |-> TRUE]]
Iid(assignment) == [kind |-> "iid", assignment |-> assignment]
Bare == <<Section("dataset", "d", "d", "none", "none"), Section("split", "s", "s", "d", "none"),
          Section("selection", "e", "e", "s", "none")>>
CaseOf(sections, split, limit) ==
    [study |-> "study", gates |-> <<"generalization", "engineering", "generalization">>,
     sections |-> sections, split |-> split, honest |-> TRUE, searched |-> FALSE,
     selectionScope |-> "none", encodingScope |-> "none", tuningUsed |-> "validation",
     selectionUsed |-> "validation", seeds |-> <<1, 2>>, seedCount |-> 2,
     assessment |-> Assessment({}), budget |-> [epochs |-> 2, limit |-> limit]]

\* Declarations: pins in every direction under safe labels, labels of every kind
\* under pins that may stand, and one flaw outside the graph at a time.
Declared(split, pre, sampling, selection, scopes, twist) ==
    <<Section("dataset", "d", "d", "none", "none"), Section("split", "s", "s", split, "none"),
      Section("preprocessing", "p", IF twist = "same target" THEN "d" ELSE "p", pre, scopes[1]),
      Section("sampling", IF twist = "same name" THEN "p" ELSE "m", "m", sampling, scopes[2]),
      Section("selection", "e", "e", selection, "none")>>
Declarations ==
    {Declared(s, p, m, e, <<"per_fold", "train_only">>, t) :
        s \in {"d", "p", "s", "e"}, p \in {"d", "s", "m", "x"}, m \in {"d", "s", "p", "m"},
        e \in {"s", "p", "m", "e", "d"}, t \in {"none", "same name", "same target"}}
    \cup {Declared("d", p, m, "p", <<x, y>>, "none") :
            p, m \in {"d", "s"}, x \in {"train_only", "full_data", "per_fold"},
            y \in {"train_only", "per_fold", "full_data", "pre_split"}}
Topologies == {CaseOf(d, Iid(NoContext), 1) : d \in Declarations}
Sound == CaseOf(Bare, Iid(NoContext), 1)
Flawed ==
    {[Sound EXCEPT !.selectionScope = "full_data"], [Sound EXCEPT !.encodingScope = "full_data"],
     [Sound EXCEPT !.tuningUsed = "future_holdout"], [Sound EXCEPT !.selectionUsed = "test"],
     [Sound EXCEPT !.seedCount = 0], [Sound EXCEPT !.assessment["ood"].detail = FALSE],
     [Sound EXCEPT !.split = [kind |-> "group", keyed |-> FALSE, assignment |-> NoContext]],
     [Sound EXCEPT !.split = [kind |-> "time_series", gap |-> -2, embargo |-> 0, assignment |-> NoContext]],
     [Sound EXCEPT !.split = [kind |-> "nested", outer |-> 2, inner |-> 1, assignment |-> NoContext]]}

(***************************************************************************)
(* Data.                                                                   *)
(***************************************************************************)
\* Roles of rows as partitions: row r belongs to the partition roles[r].
Names == {"train", "validation", "test", "future_holdout"}
Partitioned(roles) ==
    [p \in {roles[r] : r \in DOMAIN roles} \cap Names |-> {r \in DOMAIN roles : roles[r] = p}]
Data(roles, context) ==
    [rows |-> Len(roles), content |-> "d", partitions |-> Partitioned(roles), context |-> context]
RolesOf(n, names) == [1 .. n -> names]
Needed(roles) == {"train", "validation", "test"} \subseteq {roles[r] : r \in DOMAIN roles}

\* A split with the assignment and the context it pins.
Pins(split, data) == [split EXCEPT !.assignment = data.partitions, !.context = data.context]

GroupSplits ==
    {Pins([kind |-> "group", keyed |-> TRUE, assignment |-> 0, context |-> 0],
          Data(roles, [labels |-> labels])) :
        roles \in {r \in RolesOf(4, {"train", "validation", "test", "none"}) : Needed(r)},
        labels \in {l \in [1 .. 4 -> {"g", "h", "i"}] : l[1] = "g"}}

TimeSplits ==
    {Pins([kind |-> "time_series", gap |-> g[1], embargo |-> g[2], assignment |-> 0, context |-> 0],
          Data(roles, [timestamps |-> times, excluded |-> {r \in 1 .. 5 : roles[r] = "excluded"}])) :
        roles \in {r \in RolesOf(5, Names \cup {"excluded"}) : Needed(r) /\ r[1] # "test"},
        times \in {<<3, 4, 5, 6, 7>>, <<3, 4, 5, 6, 8>>}, g \in {<<0, 0>>, <<1, 0>>, <<0, 1>>, <<-1, 0>>}}

Fold(train, validation) == [train |-> train, validation |-> validation]
\* Two inner folds of a training half, one of which may take a row from outside.
Inner(rows) ==
    {<<Fold(rows \ v, v), Fold((rows \ w) \cup foreign, w)>> :
        v, w \in (SUBSET rows) \ {{}, rows}, foreign \in {{}, {1}, {5}}}
Halves == {{1, 2}, {3, 4}, {2, 3}, {1, 4}}
FoldLists ==
    {<<[train |-> v, validation |-> {1, 2, 3, 4} \ v, inner |-> i],
       [train |-> w, validation |-> {1, 2, 3, 4} \ w, inner |-> j]>> :
        v, w \in Halves, i \in UNION {Inner(half) : half \in Halves}, j \in Inner({1, 2}) \cup Inner({3, 4})}
NestedSplits ==
    {Pins([kind |-> "nested", outer |-> 2, inner |-> 2, assignment |-> 0, context |-> 0],
          Data(<<"train", "train", "validation", "validation", "test">>, [folds |-> folds])) :
        folds \in FoldLists}

ExecutionCases == {CaseOf(Bare, split, 1) : split \in GroupSplits \cup TimeSplits \cup NestedSplits}
\* The data the split of a case was made for.
DataFor(split) ==
    [rows |-> IF split.kind = "group" THEN 4 ELSE 5, content |-> "d",
     partitions |-> split.assignment, context |-> split.context]

(***************************************************************************)
(* Claims.                                                                 *)
(***************************************************************************)
PlainRoles == <<"train", "train", "validation", "test">>
PlainCase == CaseOf(Bare, Iid(Partitioned(PlainRoles)), 1)
WaivedCase == [PlainCase EXCEPT !.assessment = Assessment({"ood"})]
CostlyCase == CaseOf(Bare, Iid(Partitioned(PlainRoles)), 2)
LongCase == [PlainCase EXCEPT !.budget.epochs = 3, !.seeds = <<1>>, !.seedCount = 1]
SeededCase == [PlainCase EXCEPT !.budget.epochs = 1, !.seeds = <<1, 2, 3>>, !.seedCount = 3]
ClaimCases == {PlainCase, WaivedCase, CostlyCase, LongCase, SeededCase}

Plain == ContractOf(PlainCase)
MCHandWritten ==
    {[Plain EXCEPT !.selectionPartition = "test"],
     [Plain EXCEPT !.declaration = [d \in {"ood"} |-> "not_performed"]],
     [Plain EXCEPT !.bars = @ \o <<GateBar("generalization")>>],
     [Plain EXCEPT !.bars = <<[type |-> "empirical_claim", least |-> "externally_validated"],
                              [type |-> "mathematical_claim", least |-> "mathematically_verified"]>>],
     [Plain EXCEPT !.bars = <<[type |-> "empirical_claim", least |-> "mathematically_verified"]>>]}

Run(provenance, seeds, frozen) ==
    [schema |-> "v2", kind |-> "experiment_run", study |-> "study", case |-> PlainCase,
     provenance |-> provenance, seeds |-> seeds, frozen |-> frozen, final |-> "test", split |-> "s"]
Other(kind) == [Run("real", <<>>, FALSE) EXCEPT !.kind = kind, !.schema = "v1"]
MCItems ==
    {Run("real", <<1, 2>>, FALSE), Run("real", <<1>>, TRUE), Run("public", <<1, 1>>, TRUE),
     Run("public", <<1, 2>>, TRUE), [Run("real", <<1, 2>>, TRUE) EXCEPT !.case = WaivedCase],
     [Run("real", <<1, 2>>, TRUE) EXCEPT !.final = "validation"],
     [Run("real", <<1, 2>>, TRUE) EXCEPT !.schema = "v1"], [Run("real", <<1, 2>>, TRUE) EXCEPT !.split = "other"],
     [Run("real", <<1, 2>>, TRUE) EXCEPT !.study = "other"],
     Other("data_audit_report"), Other("unit_test_run"), Other("ood_assessment"), Other("other")}
MCClaims ==
    {[class |-> class, outcome |-> outcome, study |-> "study", case |-> case, gaps |-> gaps,
      limited |-> limited] :
        class \in Classes, outcome \in {"pass", "fail", "inconclusive"},
        case \in {PlainCase, WaivedCase}, limited \in BOOLEAN,
        gaps \in {AssessmentDimensions, AssessmentDimensions \ {"ood"}}}

MCCases == Topologies \cup Flawed \cup ExecutionCases \cup ClaimCases

PlainData ==
    {[Data(roles, NoContext) EXCEPT !.content = content] :
        roles \in RolesOf(4, {"train", "validation", "test"}), content \in {"d", "other"}}
MCDataSets == {DataFor(c.split) : c \in ExecutionCases} \cup PlainData

-----------------------------------------------------------------------------
Studying ==
    \/ contract = Nothing /\ judged = Nothing /\ evidence = {}
       /\ \E c \in Topologies \cup Flawed \cup ExecutionCases : BuildContract(c)
    \/ executed = Nothing /\ contract # Nothing /\ contract.case.split.kind # "iid"
       /\ \E final \in Protected :
             RunSyntheticExperiment(DataFor(contract.case.split), contract.case, final)
    \/ /\ assessed = Nothing
       /\ contract # Nothing => contract.case \in ClaimCases
       /\ judged # Nothing => judged.case \in ClaimCases
       /\ \/ \E c \in ClaimCases : BuildContract(c)
          \/ \E k \in MCHandWritten : WriteContract(k)
          \/ Cardinality(evidence) < 2 /\ \E item \in MCItems : Collect(item)
          \/ executed = Nothing /\ contract # Nothing
             /\ \E data \in PlainData, final \in {"test", "validation"} :
                   RunSyntheticExperiment(data, contract.case, final)
          \/ \E claim \in MCClaims : ValidateClaim(claim)

\* A study begins where there is no lineage to walk.
MCInit == Init /\ StudyInit
MCNext ==
    \/ Next /\ UNCHANGED studyVars
    \/ edges = <<>> /\ pc = "done" /\ Studying /\ UNCHANGED vars

MCSpec == MCInit /\ [][MCNext]_<<vars, studyVars>> /\ WF_vars(Next)

=============================================================================
