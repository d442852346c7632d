----------------------------- MODULE HeuristicRegistry -----------------------------
(***************************************************************************)
(* The heuristics of experience/: rules proposed with a regression case,   *)
(* moved forward by new snapshots up to shadow, trialed in shadow against  *)
(* a run, and linted before anyone may rely on the registry.               *)
(*                                                                         *)
(* The text of a rule is what the linter tells apart: its statement, the   *)
(* content words of the statement and whether they are negated, its scope, *)
(* whether its rollback says nothing, and the heuristics its exceptions    *)
(* name.  Names are positions in the order of publication.  A rule must be *)
(* associated with captured cases, which are immutable: that there is one  *)
(* is all that matters of them.                                            *)
(***************************************************************************)
EXTENDS ResearchMemory

CONSTANTS
    Rule,               \* texts a caller may propose or replace
    DeadScope,          \* _DEAD_SCOPES
    UniversalScope,     \* _UNIVERSAL_SCOPES
    MinHeuristics,      \* _MIN_HEURISTICS of a shadow report
    MaxHeuristics,      \* _MAX_HEURISTICS of a shadow report
    MaxSnapshots        \* bound on published heuristic snapshots

\* One statement has one set of content words; many have the same.
ASSUME HeuristicAssumption ==
    /\ \A r \in Rule : r.negated \in BOOLEAN /\ r.vacuous \in BOOLEAN /\ r.exception \subseteq Nat
    /\ \A r, s \in Rule : r.statement = s.statement => r.core = s.core /\ r.negated = s.negated
    /\ MinHeuristics <= MaxHeuristics

VARIABLES
    heuristics,     \* heuristic snapshots published
    trial           \* the heuristics of the last shadow report

heuristicVars == <<heuristics, trial>>

StatusOrder == [lesson_hypothesis |-> 0, candidate |-> 1, shadow |-> 2]
Unreachable == {"validated", "promoted", "deprecated", "retired"}
Statuses == DOMAIN StatusOrder \cup {"rejected"}

PublishHeuristic(h) ==
    /\ heuristics' = Append(heuristics, h)
    /\ UNCHANGED trial

\* propose_heuristic: the schema wants one regression case at least.
Propose(rule) ==
    /\ cases # {}
    /\ PublishHeuristic([status |-> "lesson_hypothesis", supersedes |-> 0, rule |-> rule])

\* The lifecycle guard, below the ceiling of shadow
MayAdvance(old, new) ==
    /\ old # "rejected" /\ old \notin Unreachable /\ new \notin Unreachable
    /\ new # "rejected" => StatusOrder[new] > StatusOrder[old]

\* transition_heuristic: the text of the predecessor, or another
Advance(i, status) ==
    /\ MayAdvance(heuristics[i].status, status)
    /\ \E rule \in Rule :
          PublishHeuristic([status |-> status, supersedes |-> i, rule |-> rule])

-----------------------------------------------------------------------------
(* The linter, over the tips *)

Names == 1 .. Len(heuristics)

\* _pins: superseded versions are not linted; rejected ones are.
LintTips == {i \in Names : \A j \in Names : heuristics[j].supersedes # i}

Text(i) == heuristics[i].rule

Finding(kind, severity, ids) == [kind |-> kind, severity |-> severity, ids |-> ids]

\* _lint_duplicates: one finding for each statement and scope that several tips have
Duplicates ==
    LET twins(i) == {j \in LintTips : /\ Text(j).statement = Text(i).statement
                                      /\ Text(j).scope = Text(i).scope}
    IN  {Finding("duplicate", "reject", twins(i)) : i \in {t \in LintTips : Cardinality(twins(t)) > 1}}

\* _lint_conflicts: the same content words in the same scope, negated on one side only.  A
\* statement without any contradicts none.
Conflicts ==
    {Finding("conflict", "reject", {p[1], p[2]}) :
        p \in {q \in LintTips \X LintTips :
                 /\ Text(q[1]).core = Text(q[2]).core /\ Text(q[1]).core # {}
                 /\ Text(q[1]).scope = Text(q[2]).scope
                 /\ ~Text(q[1]).negated /\ Text(q[2]).negated}}

\* The heuristics a rule yields to, as far as they are tips
Cited(i) == (Text(i).exception \cap LintTips) \ {i}

Unseen == 0
Open == 1
Done == 2

Front(stack) == SubSeq(stack, 1, Len(stack) - 1)

\* What the search for cycles keeps: the marks, the stack and the cycles found
Search == [state : [Names -> {Unseen, Open, Done}], stack : Seq(Names), found : SUBSET SUBSET Names]

\* Mutant of CycleClosed: the part of the stack before m is not cut off.
CycleWithStem(w, m) == {w.stack[k] : k \in DOMAIN w.stack}

\* The cycle that m closes: the stack from m on
CycleClosed(w, m) ==
    {w.stack[k] : k \in {l \in DOMAIN w.stack : \E first \in 1 .. l : w.stack[first] = m}}

\* What visit does at n with the name m: only one that n yields to is followed, and an open
\* one closes a cycle.  Deeper is visit with one place less on the stack.
Follow(n, w, m, deeper) ==
    CASE m \notin Cited(n)                        -> w
      [] m \in Cited(n) /\ w.state[m] = Open -> [w EXCEPT !.found = @ \cup {CycleClosed(w, m)}]
      [] m \in Cited(n) /\ w.state[m] = Unseen -> deeper[m][w]
      [] m \in Cited(n) /\ w.state[m] = Done   -> w

FollowAll(n, w, deeper) ==
    LET after[m \in 0 .. Len(heuristics)] ==
            IF m = 0 THEN w ELSE Follow(n, after[m - 1], m, deeper)
    IN  after[Len(heuristics)]

Enter(n, w) == [w EXCEPT !.state[n] = Open, !.stack = Append(@, n)]
Leave(n, w) == [w EXCEPT !.state[n] = Done, !.stack = Front(@)]

\* visit of _lint_precedence_cycles: depth first, along the names in order.  The depth is the
\* room left on the stack, which holds no name twice, so that there is some at every visit.
Descend ==
    LET visit[depth \in 0 .. Len(heuristics)] ==
            [n \in Names |-> [w \in Search |->
                IF depth = 0 THEN w
                ELSE Leave(n, FollowAll(n, Enter(n, w), visit[depth - 1]))]]
    IN  visit[Len(heuristics)]

Searched ==
    LET ended[n \in 0 .. Len(heuristics)] ==
            IF n = 0 THEN [state |-> [i \in Names |-> Unseen], stack |-> <<>>, found |-> {}]
            ELSE IF n \in LintTips /\ ended[n - 1].state[n] # Done THEN Descend[n][ended[n - 1]]
            ELSE ended[n - 1]
    IN  ended[Len(heuristics)]

Cycles == {Finding("precedence_cycle", "reject", ids) : ids \in Searched.found}

Severity(i) == IF Text(i).mode = "blocking" THEN "reject" ELSE "report"

\* _lint_scopes: no free text may gate everything.
Scopes ==
    {Finding("dead_rule", "report", {i}) : i \in {t \in LintTips : Text(t).scope \in DeadScope}}
    \cup {Finding("always_triggered", Severity(i), {i}) :
            i \in {t \in LintTips : Text(t).scope \in UniversalScope}}

\* _lint_rollbacks
Rollbacks ==
    {Finding("vacuous_rollback", Severity(i), {i}) : i \in {t \in LintTips : Text(t).vacuous}}

\* lint_heuristics, without the findings that are only reported
Findings == Duplicates \cup Conflicts \cup Cycles \cup Scopes \cup Rollbacks

\* assert_registry_clean
Clean == \A f \in Findings : f.severity # "reject"

-----------------------------------------------------------------------------
(* Shadow reports *)

\* record_shadow_report: distinct shadow versions, each observed exactly once.  It does not
\* ask whether a newer version exists.
Shadow(ids) ==
    /\ \A i \in ids : heuristics[i].status = "shadow"
    /\ Cardinality(ids) \in MinHeuristics .. MaxHeuristics
    /\ trial' = ids
    /\ UNCHANGED heuristics

-----------------------------------------------------------------------------

HeuristicInit == heuristics = <<>> /\ trial = {}

HeuristicNext ==
    \/ /\ Len(heuristics) < MaxSnapshots
       /\ \/ \E rule \in Rule : Propose(rule)
          \/ \E i \in Names, status \in Statuses \cup Unreachable : Advance(i, status)
    \/ \E ids \in SUBSET Names : Shadow(ids)

\* The research memory as a whole: patterns and heuristics are made of the same cases.
ExperienceInit == MemoryInit /\ HeuristicInit

ExperienceNext ==
    \/ MemoryNext /\ UNCHANGED heuristicVars
    \/ HeuristicNext /\ UNCHANGED memoryVars

ExperienceSpec == ExperienceInit /\ [][ExperienceNext]_<<memoryVars, heuristicVars>>

-----------------------------------------------------------------------------
(* Properties *)

\* No chain climbs past shadow, turns back or leaves rejection, whichever old copies its
\* versions were made from, and what is trialed in shadow got there along such a chain.
CeilingHolds ==
    /\ \A i \in Names :
          LET h == heuristics[i]
          IN  /\ h.status \in Statuses
              /\ h.supersedes # 0 =>
                    /\ h.supersedes < i /\ heuristics[h.supersedes].status # "rejected"
                    /\ h.status = "rejected"
                          \/ StatusOrder[h.status] > StatusOrder[heuristics[h.supersedes].status]
    /\ \A i \in trial : heuristics[i].status = "shadow"

\* Who yields to whom among the tips, in any number of steps
YieldsTo ==
    LET pairs == LintTips \X LintTips
        reach[n \in 0 .. Len(heuristics)] ==
            IF n = 0 THEN {p \in pairs : p[2] \in Cited(p[1])}
            ELSE reach[n - 1] \cup
                 {p \in pairs : \E k \in LintTips : {<<p[1], k>>, <<k, p[2]>>} \subseteq reach[n - 1]}
    IN  reach[Len(heuristics)]

\* A registry that passes the linter can be applied: every heuristic's exceptions can be
\* resolved in some order, no two current rules of one scope have the same statement or say
\* opposite things in the same words, and no rule that blocks does so everywhere or without
\* a way back.  And the linter refuses nothing else: each of its cycles is a real one.
CleanIsConsistent ==
    LET harmless ==
            /\ \A i \in LintTips : <<i, i>> \notin YieldsTo
            /\ \A i, j \in LintTips : i # j /\ Text(i).scope = Text(j).scope =>
                  /\ Text(i).statement # Text(j).statement
                  /\ Text(i).core = Text(j).core /\ Text(i).core # {} =>
                        Text(i).negated = Text(j).negated
            /\ \A i \in LintTips : Text(i).mode = "blocking" =>
                  Text(i).scope \notin UniversalScope /\ ~Text(i).vacuous
    IN  /\ Clean <=> harmless
        /\ \A f \in Cycles : \A i, j \in f.ids : <<i, j>> \in YieldsTo

\* Heuristics never outgrow the shadow, and a clean lint means they agree
\* (transition_heuristic, lint_heuristics).
HeuristicsSound == CeilingHolds /\ CleanIsConsistent

=============================================================================
