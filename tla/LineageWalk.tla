------------------------------ MODULE LineageWalk ------------------------------
(***************************************************************************)
(* _find_lineage_cycles of core/_graph.py: the walk over the supersedes     *)
(* edges that names every lineage cycle once.  A record supersedes at most  *)
(* one other, so the edges are a function; the walk starts at each record   *)
(* that has an edge, in sorted order, follows edges until it meets a record *)
(* it has met before, and then marks the whole path as done.                *)
(*                                                                         *)
(* One step is one turn of a loop.  Record ids are numbers, in sorted order.*)
(***************************************************************************)
EXTENDS Integers, Sequences, FiniteSets, Lineage

CONSTANT Ids                                \* the record ids

ASSUME IdsAssumption == Ids \subseteq Nat /\ IsFiniteSet(Ids)

None == -1                                  \* node = None: the chain has ended

VARIABLES
    edges,      \* supersedes edges: a function on the records that have one
    state,      \* 0 absent, 1 on the current path, 2 done
    path,       \* the current path
    node,       \* the next record to visit
    cycles,     \* what has been appended to cycles so far
    pc          \* where the loops are: outer, between two starts; inner, walking; done

vars == <<edges, state, path, node, cycles, pc>>

\* node is not None and node not in state
Unvisited == node # None /\ state[node] = 0
Starts == {n \in DOMAIN edges : state[n] = 0}

Graphs == UNION {[D -> Ids] : D \in SUBSET Ids}

\* A record never supersedes itself here: that is reported as self_reference
\* and leaves no edge.
Lineages == {g \in Graphs : \A n \in DOMAIN g : g[n] # n}

Init ==
    /\ edges \in Lineages
    /\ state = [n \in Ids |-> 0]
    /\ path = <<>>
    /\ node = None
    /\ cycles = <<>>
    /\ pc = "outer"

\* for start in sorted(edges), the ones already visited skipped.
Begin ==
    /\ pc = "outer"
    /\ \E start \in Starts :
          /\ \A other \in Starts : start <= other
          /\ node' = start
    /\ path' = <<>>
    /\ pc' = "inner"
    /\ UNCHANGED <<edges, state, cycles>>

\* One turn of the walk: mark the record, follow its edge.
Visit ==
    /\ pc = "inner"
    /\ Unvisited
    /\ state' = [state EXCEPT ![node] = 1]
    /\ path' = Append(path, node)
    /\ node' = IF node \in DOMAIN edges THEN edges[node] ELSE None
    /\ UNCHANGED <<edges, cycles, pc>>

\* path[path.index(node):], as the set of its members: the walk closed on node.
Closed == {path[i] : i \in {j \in 1..Len(path) : \E k \in 1..j : path[k] = node}}

\* Mutant of Report: only a walk that comes back to its start is a cycle.
ReportRoundTrips ==
    IF node # None /\ path[1] = node THEN Append(cycles, Closed) ELSE cycles

Report ==
    IF node # None /\ state[node] = 1 THEN Append(cycles, Closed) ELSE cycles

\* Mutant of Demote: the path is forgotten instead of marked done.
DemoteToUnvisited ==
    [n \in Ids |-> IF \E i \in 1..Len(path) : path[i] = n THEN 0 ELSE state[n]]

\* for item in path: state[item] = 2
Demote ==
    [n \in Ids |-> IF \E i \in 1..Len(path) : path[i] = n THEN 2 ELSE state[n]]

Stop ==
    /\ pc = "inner"
    /\ ~Unvisited
    /\ cycles' = Report
    /\ state' = Demote
    /\ pc' = "outer"
    /\ UNCHANGED <<edges, path, node>>

Return ==
    /\ pc = "outer"
    /\ Starts = {}
    /\ pc' = "done"
    /\ UNCHANGED <<edges, state, path, node, cycles>>

Next == Begin \/ Visit \/ Stop \/ Return

Spec == Init /\ [][Next]_vars

\* The walk runs in one call: nothing can hold it up.
FairSpec == Spec /\ WF_vars(Next)

(***************************************************************************)
(* What the walk promises                                                   *)
(***************************************************************************)

TypeOK ==
    /\ edges \in Lineages
    /\ state \in [Ids -> {0, 1, 2}]
    /\ path \in Seq(Ids)
    /\ node \in Ids \cup {None}
    /\ cycles \in Seq(SUBSET Ids)
    /\ pc \in {"outer", "inner", "done"}

\* Only cycles are named, and whole ones: no record that merely leads into a
\* cycle is accused, and no report runs two cycles together.
OnlyCyclesNamed == \A i \in 1..Len(cycles) : Cycle(edges, cycles[i])

\* "Cycles in a functional graph are pairwise disjoint, so each is reported
\* exactly once": no record is in two reports.
NamedOnce ==
    \A i, j \in 1..Len(cycles) : i # j => cycles[i] \cap cycles[j] = {}

\* When the walk returns it has named every cycle of the lineage and nothing
\* else, and each of them whole.
EveryCycleNamed ==
    pc = "done" =>
        {cycles[i] : i \in 1..Len(cycles)} =
            {N \in SUBSET DOMAIN edges : Cycle(edges, N)}

\* The report is exact: every cycle of the lineage, whole and once
\* (_find_lineage_cycles).
CyclesNamed == NamedOnce /\ EveryCycleNamed

\* The walk ends, on every lineage.
WalkEnds == <>(pc = "done")

================================================================================
