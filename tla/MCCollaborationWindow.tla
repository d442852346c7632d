----------------------- MODULE MCCollaborationWindow -----------------------
(* Budgets of one unit per ticket: a process may cost nothing, one unit or   *)
(* two, the second of which only a reserve pays for.                         *)
EXTENDS CollaborationWindow

Even(n) == [s \in Slot |-> n]
Routes(a, b, c) == <<a, b, c>>

RecitedPlan ==
    [adapter : {"deterministic"},
     base : {Even(1)}, reserve : {Even(0), <<1, 0, 1>>, Even(1)}, hard : {3, 5},
     class : {Routes("direct", "enabling", "hedge"), Routes("direct", "hedge", "hedge")}]

ProcessPlan ==
    [adapter : {"fake", "real"},
     base : {Even(1)}, reserve : {Even(0)}, hard : {3},
     class : {Routes("direct", "enabling", "hedge")}]

MCPlan == RecitedPlan \cup ProcessPlan

Events == {<<>>, <<"e1">>, <<"e2">>, <<"e1", "e1">>}

\* Well-formed outputs in full, and one of each kind execute rejects.
MCOutput ==
    LET Worker(valids, bounds, leaks, statuses) ==
            [valid : valids, bound : bounds, restricted : leaks, status : statuses,
             future : {NoEvidence, "e1"}, events : Events, bounds : BOOLEAN, recordable : BOOLEAN]
    IN  Worker({TRUE}, {TRUE}, {FALSE}, Status)
        \cup {o \in Worker({TRUE}, BOOLEAN, BOOLEAN, {"candidate"}) : o.bounds /\ o.recordable}
        \cup {o \in Worker({FALSE}, {TRUE}, {FALSE}, {"failed"}) : o.events = <<>> /\ o.bounds}

\* What the deterministic adapter may say: everything about budget and status, then
\* everything about a future route, then each reason to reject it out of hand.
Recited(statuses, spends, futures, events) ==
    [bound : {TRUE}, scope : {TRUE}, recordable : {TRUE}, clean : {TRUE},
     status : statuses, artifacts : SUBSET {"candidate"}, bounds : BOOLEAN,
     future : futures, events : events, spend : spends,
     opportunities : 0 .. 2, extensions : 0 .. 2,
     failure : {NoFailure, <<"adapter_execution", "reported">>}]

MCObservation ==
    LET budgets == Recited({"candidate", "bounded_negative", "inconclusive", "failed"}, 0 .. 3,
                           {NoEvidence}, {<<>>})
    IN  budgets
        \cup Recited({"candidate", "failed"}, {1}, {NoEvidence, "e1"}, Events)
        \cup {[o EXCEPT !.scope = FALSE] : o \in budgets}
        \cup {[o EXCEPT !.recordable = FALSE] : o \in budgets}
        \cup {[o EXCEPT !.bound = FALSE] : o \in budgets}
=============================================================================
