------------------------------ MODULE ResearchMemory ------------------------------
(***************************************************************************)
(* The research memory of experience/: captured cases, patterns distilled  *)
(* from them and moved through a lifecycle by new snapshots, the index a   *)
(* session builds over some of the snapshots, and what retrieval offers    *)
(* from that index.                                                        *)
(*                                                                         *)
(* Records are immutable, so a session that works on an old copy is a      *)
(* session that picks an old snapshot: two of them may move one pattern.   *)
(* A snapshot is published when it is made; the store refuses a used name, *)
(* so that a name is the position in the sequence.  Text that the scan for *)
(* restricted content refuses is a call that changes nothing.              *)
(***************************************************************************)
EXTENDS CaseClustering

CONSTANTS
    CaseInput,      \* what callers may capture: a name, four answers and a signature
    Supplied,       \* signatures a caller may give a pattern
    Query,          \* signatures a session asks for
    Terminal,       \* terminal statuses
    Limit,          \* limits a query may ask for
    MaxPatterns     \* bound on published pattern snapshots

\* A fingerprint with its facets, as pairs of key and value, and the words of its summary
Signatures == Supplied \cup {c.signature : c \in CaseInput}

Criterion == {"reproducible", "source_known", "sensitive_content_free", "more_than_summary"}

ASSUME MemoryAssumption ==
    /\ \A s \in Signatures \cup Query : IsFiniteSet(s.facets) /\ IsFiniteSet(s.words)
    /\ \A c \in CaseInput : c.answers \subseteq Criterion /\ c.case_id \in Nat
    /\ \A c, d \in CaseInput : c.case_id = d.case_id => c = d
    /\ Terminal \subseteq {"deprecated", "retired", "rejected"}
    /\ Limit \subseteq 1 .. 5
    /\ MaxPatterns \in Nat

VARIABLES
    cases,      \* case packages published
    patterns,   \* pattern snapshots published, in order of publication
    index,      \* the PatternIndex a session holds: names of its records
    offer       \* the last RetrievalResult, with its query

memoryVars == <<cases, patterns, index, offer>>

NoVersion == 0

StatusRank == [captured |-> 0, distilled |-> 1, candidate_pattern |-> 2, validated_pattern |-> 3,
               active_pattern |-> 4]

Forward == DOMAIN StatusRank
Promoted == {"candidate_pattern", "validated_pattern", "active_pattern"}

\* research-pattern/v1, as far as the lifecycle and retrieval read it
Pattern == [status : Forward \cup Terminal, supersedes : 0 .. MaxPatterns,
            source_cases : SUBSET CaseInput, signature : Signatures, attested : BOOLEAN]

-----------------------------------------------------------------------------
(* Cases *)

\* evaluate_eligibility: every answer must be true.
CaseEligible(c) == c.answers = Criterion

\* capture_case, and the store's refusal of a used name
CaptureCase(c) ==
    /\ c \notin cases
    /\ cases' = cases \cup {c}
    /\ UNCHANGED <<patterns, index, offer>>

-----------------------------------------------------------------------------
(* Patterns *)

\* _pin_source_cases: some case, and every one of them eligible
Pinnable(cs) == cs # {} /\ cs \subseteq cases /\ \A c \in cs : CaseEligible(c)

Publish(p) ==
    /\ patterns' = Append(patterns, p)
    /\ UNCHANGED <<cases, index, offer>>

\* Without a signature of the caller the cases must share one fingerprint; the summary
\* and the facets are those of the case that comes first.
Distill(cs) ==
    /\ Pinnable(cs)
    /\ \E s \in Signatures :
          /\ \/ s \in Supplied
             \/ /\ \A c, d \in cs : c.signature.sha256 = d.signature.sha256
                /\ \E first \in cs : s = first.signature
          /\ Publish([status |-> "distilled", supersedes |-> NoVersion, source_cases |-> cs,
                      signature |-> s, attested |-> FALSE])

\* Mutant of MayMove: only the rank is compared, and a terminal version has none.
MayMoveByRank(old, new) == old \notin Terminal /\ new \notin Terminal => StatusRank[new] > StatusRank[old]

\* The lifecycle guard: a terminal version never moves, the others move forward or end.
MayMove(old, new) == old \notin Terminal /\ (new \notin Terminal => StatusRank[new] > StatusRank[old])

\* The promotion guard: one case carries a candidate only, and only with an attestation,
\* which is for nothing else.
MayPromote(status, pins, attested) ==
    /\ status \in Promoted /\ Cardinality(pins) = 1 => status = "candidate_pattern" /\ attested
    /\ attested => status = "candidate_pattern" /\ Cardinality(pins) = 1

\* transition_pattern: replaced is the source cases of the call, {} if it gives none.
Transition(i, status) ==
    /\ MayMove(patterns[i].status, status)
    /\ \E replaced \in SUBSET cases, attested \in BOOLEAN :
          LET pins == IF replaced # {} THEN replaced ELSE patterns[i].source_cases
          IN  /\ replaced # {} => Pinnable(replaced)
              /\ MayPromote(status, pins, attested)
              /\ Publish([patterns[i] EXCEPT !.status = status, !.supersedes = i,
                                             !.source_cases = pins, !.attested = attested])

-----------------------------------------------------------------------------
(* The index and the chains in it *)

Superseded(ids) == {patterns[i].supersedes : i \in ids}

\* Mutant of Tips: the newest record of the index is the only tip.
TipsNewest(ids) == {i \in ids : \A j \in ids : j <= i}

\* build_pattern_index: a fork has two tips.
Tips(ids) == {i \in ids : i \notin Superseded(ids)}

\* pattern_chain over all that is published: the version and those before it
ChainTo ==
    LET chain[i \in 0 .. Len(patterns)] ==
            IF i = NoVersion THEN {} ELSE {i} \cup chain[patterns[i].supersedes]
    IN  chain

\* One session: it builds its index once, from the records it was given.
BuildIndex(ids) ==
    /\ index = {}
    /\ index' = ids
    /\ UNCHANGED <<cases, patterns, offer>>

-----------------------------------------------------------------------------
(* Retrieval *)

Shared(s, t) == Cardinality(s.facets \cap t.facets)
Overlap(s, t) == Cardinality(s.words \cap t.words)
Union(s, t) == Cardinality(s.words \cup t.words)

\* The tier of a pattern for a query: 3 is no match.
Tier(q, s) ==
    CASE q.sha256 = s.sha256 -> 0
      [] q.sha256 # s.sha256 /\ Shared(q, s) > 0 -> 1
      [] q.sha256 # s.sha256 /\ Shared(q, s) = 0 -> IF Overlap(q, s) > 0 THEN 2 ELSE 3

\* The score within a tier, as a fraction of two numbers
Score(q, s) ==
    CASE Tier(q, s) = 0 -> <<1, 1>>
      [] Tier(q, s) = 1 -> <<Shared(q, s), 1>>
      [] OTHER -> <<Overlap(q, s), Union(q, s)>>

Greater(x, y) == x[1] * y[2] > y[1] * x[2]

\* The sort key (tier, -score, pattern_id); names sort as they were published.
Before(q, i, j) ==
    LET s == patterns[i].signature
        t == patterns[j].signature
    IN  \/ Tier(q, s) < Tier(q, t)
        \/ Tier(q, s) = Tier(q, t) /\ Greater(Score(q, s), Score(q, t))
        \/ Tier(q, s) = Tier(q, t) /\ i < j /\ ~Greater(Score(q, t), Score(q, s))

Scored(q, ids) ==
    {i \in Tips(ids) : patterns[i].status \in Promoted /\ Tier(q, patterns[i].signature) < 3}

\* scored[:limit]
Best(q, ids, limit) ==
    LET m == Scored(q, ids)
        place(i) == 1 + Cardinality({j \in m : Before(q, j, i)})
    IN  [n \in 1 .. IF Cardinality(m) < limit THEN Cardinality(m) ELSE limit |->
            CHOOSE i \in m : place(i) = n]

\* retrieve_patterns, from the index as it is
Retrieve(q, limit) ==
    /\ offer' = [query |-> q, limit |-> limit, seen |-> index, found |-> Best(q, index, limit),
                 abstained |-> Scored(q, index) = {}]
    /\ UNCHANGED <<cases, patterns, index>>

-----------------------------------------------------------------------------

MemoryInit ==
    /\ cases = {}
    /\ patterns = <<>>
    /\ index = {}
    /\ offer \in {[query |-> q, limit |-> 1, seen |-> {}, found |-> <<>>, abstained |-> TRUE] :
                    q \in Query}

MemoryNext ==
    \/ \E c \in CaseInput : CaptureCase(c)
    \/ /\ Len(patterns) < MaxPatterns
       /\ \/ \E cs \in SUBSET cases : Distill(cs)
          \/ \E i \in 1 .. Len(patterns), status \in Forward \cup Terminal : Transition(i, status)
    \/ \E ids \in SUBSET (1 .. Len(patterns)) : BuildIndex(ids)
    \/ \E q \in Query, limit \in Limit : Retrieve(q, limit)

MemorySpec == MemoryInit /\ [][MemoryNext]_memoryVars

-----------------------------------------------------------------------------
(* Properties *)

MemoryTypeOK ==
    /\ cases \subseteq CaseInput
    /\ patterns \in Seq(Pattern)
    /\ index \subseteq 1 .. Len(patterns)
    /\ offer.seen \subseteq 1 .. Len(patterns)

\* A promoted pattern rests on evidence, however its cases were replaced on the way: all of
\* them captured and eligible; two or more of them, unless it is a candidate whose own
\* transition records the attestation.
EvidenceCarried ==
    \A i \in 1 .. Len(patterns) :
        LET p == patterns[i]
        IN  /\ p.source_cases # {} /\ p.source_cases \subseteq {c \in cases : CaseEligible(c)}
            /\ p.status \in Promoted /\ Cardinality(p.source_cases) < 2
                  => p.status = "candidate_pattern" /\ p.attested

\* Along every chain, whoever made it and from however old a copy, the lifecycle moves
\* strictly forward and nothing follows a terminal version: two steps can never join into
\* one that each of them was refused.
ChainsForward ==
    LET chain == ChainTo
    IN  \A i \in 1 .. Len(patterns) : \A j \in chain[i] \ {i} :
            /\ j < i
            /\ patterns[j].status \notin Terminal
            /\ \/ patterns[i].status \in Terminal
               \/ StatusRank[patterns[i].status] > StatusRank[patterns[j].status]

\* Of two versions one may be the better offer: an exact fingerprint beats shared facets,
\* these beat shared words.
Better(q, i, j) ==
    LET s == patterns[i].signature
        t == patterns[j].signature
    IN  \/ s.sha256 = q.sha256 /\ t.sha256 # q.sha256
        \/ /\ s.sha256 # q.sha256 /\ t.sha256 # q.sha256
           /\ Shared(q, s) > Shared(q, t)

\* What retrieval offers is justified by what its session has seen, and the pool cannot
\* contradict it except by a version the session has not seen: a promoted version that no
\* seen version supersedes and no terminal version precedes; no more than the limit; none
\* better was left out or put behind; and it abstains only if no seen version that is still
\* current matches.
OffersJustified ==
    LET q == offer.query
        offered == {offer.found[n] : n \in DOMAIN offer.found}
        current == {i \in offer.seen : /\ patterns[i].status \in Promoted
                                       /\ \A j \in offer.seen : patterns[j].supersedes # i}
        chain == ChainTo
    IN  /\ offered \subseteq current
        /\ Len(offer.found) <= offer.limit /\ Cardinality(offered) = Len(offer.found)
        /\ \A i \in offered : \A j \in chain[i] : patterns[j].status \notin Terminal
        /\ \A m, n \in DOMAIN offer.found : m < n => ~Better(q, offer.found[n], offer.found[m])
        /\ \A i \in current \ offered :
              /\ Len(offer.found) < offer.limit =>
                    /\ patterns[i].signature.sha256 # q.sha256
                    /\ patterns[i].signature.facets \cap q.facets = {}
                    /\ patterns[i].signature.words \cap q.words = {}
              /\ \A j \in offered : ~Better(q, i, j)
        /\ offer.abstained <=> offered = {}

\* Along every chain of snapshots evidence is carried and the status only advances
\* (distill_patterns, transition_pattern).
PatternsSound == MemoryTypeOK /\ EvidenceCarried /\ ChainsForward

\* The clusters of whatever has been captured are justified (cluster_cases).
CapturedClusters == ClustersJustified(cases)

=============================================================================
