----------------------------- MODULE MCResearchMemory -----------------------------
(***************************************************************************)
(* The two halves of the research memory.  Heuristics and patterns read    *)
(* the captured cases and never each other, so that a behaviour of one     *)
(* half after the capture of some cases is all there is to see.            *)
(***************************************************************************)
EXTENDS HeuristicRegistry

F(key, value) == <<key, value>>
P == F("taxonomy_path", "p")

S1 == [sha256 |-> "s1", facets |-> {F("k", "f"), P}, words |-> {"u", "v"}]
S2 == [sha256 |-> "s2", facets |-> {F("k", "g"), P}, words |-> {"v"}]
S3 == [sha256 |-> "s3", facets |-> {}, words |-> {"v", "w"}]
S4 == [sha256 |-> "s4", facets |-> {}, words |-> {"w"}]
S5 == [sha256 |-> "s5", facets |-> {F("taxonomy_path", "unknown")}, words |-> {"v"}]
S6 == [sha256 |-> "s6", facets |-> {F("taxonomy_path", "unknown")}, words |-> {}]
S7 == [sha256 |-> "s7", facets |-> {F("k", "f"), F("taxonomy_path", "q")}, words |-> {"u", "v"}]

MCSupplied == {S3}

MCQuery == {S1}

Captured(name, signature) == [case_id |-> name, answers |-> Criterion, signature |-> signature]

\* The cases patterns are made of, and more for the clusters
MCPatternCase ==
    {Captured(1, S1), Captured(2, S2),
     [case_id |-> 3, answers |-> Criterion \ {"reproducible"}, signature |-> S1]}

MCCaseInput == MCPatternCase \cup {Captured(4, S3), Captured(5, S4), Captured(6, S5), Captured(7, S3), Captured(8, S6),
                          Captured(9, S7)}

RuleText(statement, core, negated, scope, mode, vacuous, exception) ==
    [statement |-> statement, core |-> core, negated |-> negated, scope |-> scope, mode |-> mode,
     vacuous |-> vacuous, exception |-> exception]

MCRule ==
    {RuleText("x y", {"x", "y"}, FALSE, "local", "blocking", FALSE, {}),
     RuleText("y x", {"x", "y"}, FALSE, "local", "blocking", FALSE, {2}),
     RuleText("never x y", {"x", "y"}, TRUE, "local", "advisory", TRUE, {1}),
     RuleText("?", {}, FALSE, "local", "blocking", FALSE, {1, 3}),
     RuleText("never", {}, TRUE, "local", "blocking", FALSE, {3}),
     RuleText("x y", {"x", "y"}, FALSE, "always", "blocking", FALSE, {}),
     RuleText("x y", {"x", "y"}, FALSE, "nowhere", "blocking", TRUE, {3})}

MCThreshold == <<1, 2>>

MCNext ==
    \/ /\ heuristics = <<>> /\ MemoryNext /\ UNCHANGED heuristicVars
       /\ cases' \subseteq MCPatternCase \/ (patterns' = <<>> /\ offer' = offer)
    \/ /\ patterns = <<>> /\ Cardinality(cases) = 1
       /\ HeuristicNext /\ UNCHANGED memoryVars

MCSpec == ExperienceInit /\ [][MCNext]_<<memoryVars, heuristicVars>>

=============================================================================
