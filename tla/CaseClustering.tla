------------------------------ MODULE CaseClustering ------------------------------
(***************************************************************************)
(* cluster_cases of experience/clustering.py: a ladder of four tiers, each *)
(* over the cases the tiers above left alone.  The last one proposes       *)
(* groups by the words their summaries share: case by case in the order of *)
(* the names, each joins the first group with a similar member.            *)
(***************************************************************************)
EXTENDS Integers, Sequences, FiniteSets

CONSTANTS
    TaxonomyPath,   \* paths of the taxonomy, {} when none is given
    Threshold       \* semantic_threshold as a fraction <<n, d>>

ASSUME ThresholdAssumption == 0 < Threshold[1] /\ Threshold[1] <= Threshold[2]

\* _jaccard of the two summaries reaches the threshold.
Similar(c, d) ==
    LET v == c.signature.words
        w == d.signature.words
    IN  /\ v # {} /\ w # {}
        /\ Cardinality(v \cap w) * Threshold[2] >= Cardinality(v \cup w) * Threshold[1]

\* emit: the groups of two and more with one key; the others go on to the next tier.
Grouped(cs, Key(_)) == {g \in {{d \in cs : Key(d) = Key(c)} : c \in cs} : Cardinality(g) > 1}

Fingerprint(c) == c.signature.sha256
FacetsOf(c) == c.signature.facets

\* The taxonomy_path facet, if there is one
PathOf(c) == {f[2] : f \in {g \in c.signature.facets : g[1] = "taxonomy_path"}}
Placed(c) == PathOf(c) # {} /\ PathOf(c) \subseteq TaxonomyPath

Exact(cs) == Grouped(cs, Fingerprint)

\* Mutant of Structural: facetless cases share their lack of facets.
StructuralEmpty(cs) == Grouped(cs, FacetsOf)

\* Empty facets carry no structural information.
Structural(cs) == Grouped({c \in cs : FacetsOf(c) # {}}, FacetsOf)

\* Only a path the taxonomy knows counts.
ByTaxonomy(cs) == Grouped({c \in cs : Placed(c)}, PathOf)

\* The cases in the order of their names
InOrder(cs) ==
    [n \in 1 .. Cardinality(cs) |->
        CHOOSE c \in cs : Cardinality({d \in cs : d.case_id < c.case_id}) = n - 1]

\* A case joins the first group with a similar member, or opens one.
Join(groups, c) ==
    LET near == {k \in DOMAIN groups : \E d \in groups[k] : Similar(c, d)}
    IN  IF near = {} THEN Append(groups, {c})
        ELSE [groups EXCEPT ![CHOOSE k \in near : \A l \in near : k <= l] = @ \cup {c}]

\* The last tier, as groups in the order they were opened
Proposals(cs) ==
    LET order == InOrder(cs)
        groups[n \in 0 .. Cardinality(cs)] ==
            IF n = 0 THEN <<>> ELSE Join(groups[n - 1], order[n])
    IN  groups[Cardinality(cs)]

\* cluster_cases
Clusters(cs) ==
    LET exact == Exact(cs)
        left == cs \ UNION exact
        structural == Structural(left)
        loose == left \ UNION structural
        taxonomy == ByTaxonomy(loose)
        proposals == Proposals(loose \ UNION taxonomy)
        Tier(tier, groups) == {[tier |-> tier, members |-> g] : g \in groups}
        proposed == {proposals[k] : k \in DOMAIN proposals}
    IN  Tier("exact_fingerprint", exact) \cup Tier("structural_fields", structural)
        \cup Tier("taxonomy_path", taxonomy)
        \cup Tier("semantic_proposal", {g \in proposed : Cardinality(g) > 1})
        \cup Tier("singleton", {g \in proposed : Cardinality(g) = 1})

-----------------------------------------------------------------------------
(* Properties *)

\* No case is lost or counted twice; cases with one fingerprint are never apart; a group
\* holds together for the reason its tier gives: its cases have one fingerprint, the same
\* facets, one path that the taxonomy knows, or a chain of similar summaries.  And a case
\* gets to the last tier only if nothing of a tier above ties it to another that did
\* (cluster_cases).
ClustersJustified(cs) ==
    LET found == Clusters(cs)
        low == UNION {g.members : g \in {h \in found : h.tier \in {"semantic_proposal", "singleton"}}}
    IN  /\ UNION {g.members : g \in found} = cs
        /\ \A g, h \in found : g # h => g.members \cap h.members = {}
        /\ \A g \in found : \A c \in g.members, d \in cs :
              Fingerprint(c) = Fingerprint(d) => d \in g.members
        /\ \A g \in found : \A c, d \in g.members :
              /\ g.tier = "exact_fingerprint" => Fingerprint(c) = Fingerprint(d)
              /\ g.tier = "structural_fields" => FacetsOf(c) = FacetsOf(d) /\ FacetsOf(c) # {}
              /\ g.tier = "taxonomy_path" => PathOf(c) = PathOf(d) /\ Placed(c)
        /\ \A c, d \in low : c # d =>
              /\ FacetsOf(c) # {} => FacetsOf(c) # FacetsOf(d)
              /\ Placed(c) => PathOf(c) # PathOf(d)
        /\ \A g \in found : g.tier = "semantic_proposal" =>
              \A part \in (SUBSET g.members) \ {{}, g.members} :
                 \E c \in part, d \in g.members \ part : Similar(c, d)

=============================================================================
