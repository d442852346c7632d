-------------------------------- MODULE Lineage --------------------------------
(* Cycles of a lineage: a partial function from a record to the one it       *)
(* supersedes.                                                               *)

\* A loop: a set of records each of which supersedes one of the set, and is
\* superseded by one of the set.
Loop(g, N) ==
    /\ N # {}
    /\ N \subseteq DOMAIN g
    /\ \A n \in N : g[n] \in N
    /\ \A n \in N : \E m \in N : g[m] = n

\* Cycles are the smallest loops.
Cycle(g, N) == Loop(g, N) /\ \A M \in SUBSET N : Loop(g, M) => M = N

================================================================================
