---------------------------- MODULE MCInterruption ----------------------------
(* Two calls on one directory: the first trains two steps, the second two or  *)
(* three, each with a checkpoint before the last step.                        *)
EXTENDS Interruption
MCGiven == [c \in 1 .. MaxCalls |-> IF c = 1 THEN {"short"} ELSE Fixtures]
MCCheckpointStep == [f \in Fixtures |-> IF f = "short" THEN 1 ELSE 2]
MCRequestedSteps == [f \in Fixtures |-> IF f = "short" THEN 2 ELSE 3]

\* States are told apart by what some step or property still reads: of a call that
\* is over no process that ended counts, but for the child of one that completed,
\* and not whether one that runs on was asked to end.
ChildSeen(c) == IF c = Self \/ Completed(c) THEN child[c]
                ELSE IF Alive(child[c]) THEN [child[c] EXCEPT !.asked = FALSE]
                ELSE NotStarted
WorkerSeen(c) == IF c = Self \/ Alive(worker[c]) THEN worker[c] ELSE NotStarted
MCView == <<call, files, ended, [c \in Calls |-> ChildSeen(c)], [c \in Calls |-> WorkerSeen(c)]>>
=============================================================================
