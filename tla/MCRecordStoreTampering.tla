---------------------- MODULE MCRecordStoreTampering ----------------------
(* Two callers of one process and an editor of the files.                    *)
EXTENDS RecordStoreTampering, TLC

CONSTANTS t1, t2, p, a1, a2, b1, A, B

MCThread == {t1, t2}
MCRecord == {a1, a2, b1}
MCDomainOf == [t \in MCThread |-> p]
MCIdOf == (a1 :> A) @@ (a2 :> A) @@ (b1 :> B)
MCRank == (a1 :> 1) @@ (a2 :> 2) @@ (b1 :> 3)

ThreadSymmetry == Permutations(MCThread)
=============================================================================
