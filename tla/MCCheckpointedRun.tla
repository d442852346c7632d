------------------------ MODULE MCCheckpointedRun ------------------------
(* Losses better than, equal to and worse than the first one, or not finite  *)
(* from some step on; one that is too large to be resumed is followed by    *)
(* another or by the best.                                                  *)
EXTENDS CheckpointedRun

Curves ==
    {l \in [0 .. MaxStep -> {NonFinite, 0, 1, 2, 3}] :
        /\ l[0] = 1
        /\ l[1] # NonFinite
        /\ \A n \in 1 .. MaxStep : l[n] = 3 => n < MaxStep /\ l[n + 1] \in {0, 3}
        /\ \A n \in 1 .. MaxStep - 1 : l[n] = NonFinite => l[n + 1] = NonFinite
        /\ l[MaxStep] = NonFinite => l[MaxStep - 1] = NonFinite}

Problems(losses, on, patiences, deltas, warmups) ==
    [loss : losses, enabled : on, patience : patiences, min_delta : deltas, warmup : warmups]

MCProblem ==
    Problems(Curves, {FALSE}, {0}, {0}, {0})
    \cup Problems(Curves, {TRUE}, {1}, {1}, {1}) \cup Problems(Curves, {TRUE}, {2}, {0}, {0})

Cap(steps, epochs, flops) ==
    [rowsFit |-> TRUE, max_steps |-> steps, max_epochs |-> epochs, max_flops |-> flops]

MCBudget ==
    {Cap(MaxStep, NoCap, NoCap), Cap(2, 2, NoCap), Cap(NoCap, 1, 0),
     [Cap(1, NoCap, NoCap) EXCEPT !.rowsFit = FALSE]}

Full == Cap(MaxStep, NoCap, NoCap)

Ask(steps, at, budgets, retentions) ==
    [requested : {steps}, inject : {at}, budget : budgets, retention : retentions, max_retained : {2}]

MCRequest ==
    Ask(MaxStep, 0, {Full}, {"all", "last", "last_n"})
    \cup Ask(MaxStep, 2, {Full}, {"best_and_last"})
    \cup Ask(1, 0, {Full}, {"best_and_last", "none"})
    \cup Ask(MaxStep, 0, MCBudget, {"best_and_last"})

MCUninterrupted ==
    LET run[p \in MCProblem, n \in 0 .. MaxStep] ==
            IF n = 0 THEN Fresh(p)
            ELSE IF p.loss[n] = NonFinite THEN run[p, n - 1]
            ELSE Updated(p, run[p, n - 1], n)
    IN  [p \in MCProblem |-> [n \in 0 .. MaxStep |-> run[p, n]]]
=============================================================================
