------------------------- MODULE MCRecordStoreRetry -------------------------
(* Three retrying callers: two of them with different contents of one id.    *)
EXTENDS RecordStoreRetry, TLC

CONSTANTS t1, t2, t3, p, a1, a2, b1, A, B

MCThread == {t1, t2, t3}
MCRecord == {a1, a2, b1}
MCDomainOf == [t \in MCThread |-> p]
MCIdOf == (a1 :> A) @@ (a2 :> A) @@ (b1 :> B)
MCRank == (a1 :> 1) @@ (a2 :> 2) @@ (b1 :> 3)
MCOwn == (t1 :> a1) @@ (t2 :> a2) @@ (t3 :> b1)
=============================================================================
