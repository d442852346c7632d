----------------------------- MODULE MCRecordGraph -----------------------------
(* Three pools of drafts: one in which every lineage can go wrong, one in     *)
(* which a package can, one in which its export can.                          *)
EXTENDS RecordGraph, TLC

Draft(family, id, sha, refs, supersedes) ==
    [family |-> family, id |-> id, sha |-> sha, refs |-> refs,
     supersedes |-> supersedes, outcome |-> "none", mode |-> "none"]

To(id, pin) == [id |-> id, pin |-> pin]
One(field, id, pin) == field :> <<To(id, pin)>>

Task(id) == Draft("task", id, id, <<>>, None)
Run(id, sha, task) == Draft("run", id, sha, One("task", task, task), None)
Observation(id, run, pin) == Draft("observation", id, id, One("run", run, pin), None)
Analysis(id, sha, of, supersedes) ==
    Draft("analysis", id, sha, One("observation", of, of), supersedes)
Claim(id, sha, evidence, supersedes) ==
    Draft("claim", id, sha,
          "supporting_evidence" :> [i \in 1..Len(evidence) |-> To(evidence[i], None)],
          supersedes)
Evidence(id, sha, claims) ==
    Draft("evidence", id, sha,
          "claim_ids" :> [i \in 1..Len(claims) |-> To(claims[i], None)], None)
Pattern(id, sha, supersedes) == Draft("pattern", id, sha, "source_cases" :> <<>>, supersedes)
Decision(id, sha, case, pin, supersedes, outcome, mode) ==
    [Draft("decision", id, sha, One("case", case, pin), supersedes)
        EXCEPT !.outcome = outcome, !.mode = mode]
Receipt(id, sha, decision, pin, mode) ==
    [Draft("receipt", id, sha, One("decision", decision, pin), None) EXCEPT !.mode = mode]
Case(id, sha, analyses, claims, evidence) ==
    Draft("case", id, sha,
          "task" :> <<To("t", "t")>> @@ "runs" :> <<To("r", "r")>>
          @@ "observations" :> (IF analyses = <<>> THEN <<>> ELSE <<To("o", "o")>>)
          @@ "analyses" :> analyses @@ "claims" :> claims @@ "evidence" :> evidence,
          None)

\* Three claims that may supersede each other in any order, analyses of one or
\* of two observations, and patterns that may carry the id of a claim.
LineageDrafts ==
    {Task("t"), Run("r", "r", "t"), Observation("o", "r", "r"), Observation("p", "r", "r"),
     Claim("c1", "c1a", <<>>, None), Claim("c1", "c1b", <<>>, "c2"),
     Claim("c2", "c2a", <<>>, "c1"), Claim("c2", "c2b", <<>>, "c3"),
     Claim("c3", "c3", <<>>, "c1"),
     Analysis("a1", "a1", "o", None),
     Analysis("a2", "a2a", "o", "a1"), Analysis("a2", "a2b", "p", "a1"),
     Pattern("q", "q", None), Pattern("c1", "c1q", "q")}

\* One case in four forms, over members that agree with it or do not.
PackageDrafts ==
    {Task("t"), Task("u"), Run("r", "r", "t"), Run("r", "r2", "u"),
     Observation("o", "r", "r"), Analysis("a", "a", "o", None),
     Claim("c", "ca", <<"e">>, None), Claim("c", "cb", <<"e", "f">>, None),
     Claim("d", "d", <<"e">>, None),
     Evidence("e", "ea", <<"c">>), Evidence("e", "eb", <<"c", "d">>),
     Evidence("f", "f", <<"c">>),
     Case("k", "k1", <<To("a", "a")>>, <<>>, <<>>),
     Case("k", "k2", <<>>, <<To("c", "ca")>>, <<To("e", "eb")>>),
     Case("k", "k3", <<>>, <<To("c", "cb")>>, <<To("e", "ea"), To("f", "f")>>),
     Case("k", "k4", <<>>, <<To("c", "cb")>>, <<To("e", "ea"), To("e", "ea")>>)}

\* One case, the decisions about it and what was exported under them.
ExportDrafts ==
    {Task("t"), Run("r", "r", "t"),
     Case("k", "k1", <<>>, <<>>, <<>>), Case("l", "l1", <<>>, <<>>, <<>>),
     Decision("d", "d1", "k", "k1", None, "allow", "full"),
     Decision("d", "d2", "k", "k1", None, "deny", "full"),
     Decision("d", "d3", "k", "k0", None, "allow", "metrics"),
     Decision("s", "s1", "k", "k1", "d", "deny", "full"),
     Decision("s", "s2", "l", "l1", "d", "allow", "full"),
     Decision("s", "s3", "k", "k1", "v", "allow", "full"),
     Decision("v", "v1", "k", "k1", "s", "allow", "full"),
     Receipt("x", "x1", "d", "d1", "full"), Receipt("x", "x2", "d", "d1", "metrics"),
     Receipt("x", "x3", "d", "d2", "full"), Receipt("y", "y1", "s", "s1", "full"),
     Receipt("y", "y2", "k", "k1", "full"), Receipt("y", "y3", "s", "s3", "full")}

MCPools == {LineageDrafts, PackageDrafts, ExportDrafts}

================================================================================
