--------------------------- MODULE RecordGraphProofs ---------------------------
(* What the verifier's verdicts mean, whatever is published. *)
EXTENDS RecordGraph, FiniteSetTheorems, WellFoundedInduction, TLAPS

\* Published records are drafts, no two with one family and id.
LEMMA Typed == Spec => []TypeOK
<1>1. Init => TypeOK
  BY DEF Init, TypeOK, Unique
<1>2. TypeOK /\ [Next]_vars => TypeOK'
  <2>1. ASSUME TypeOK, NEW d \in Drafts, Publish(d) PROVE TypeOK'
    BY <2>1 DEF TypeOK, Unique, Publish, Has
  <2>2. ASSUME TypeOK, UNCHANGED vars PROVE TypeOK'
    BY <2>2 DEF TypeOK, Unique, vars
  <2> QED
    BY <2>1, <2>2 DEF Next, Drafts
<1> QED
  BY <1>1, <1>2, PTL DEF Spec

-----------------------------------------------------------------------------
(* Bad news is final *)

LEMMA LineagesDistinct ==
    \A i, j \in 1..Len(Lineages) : i < j => Lineages[i] # Lineages[j]
<1>1. Len(Lineages) = 5
  BY DEF Lineages
<1>2. \A i, j \in 1..5 : i < j => Lineages[i] # Lineages[j]
  BY DEF Lineages
<1> QED
  BY <1>1, <1>2

\* With ids that no two records share, a record's edge is what it supersedes.
LEMMA EdgeOfRecord ==
    ASSUME NEW S, Unique(S), ~\E x \in S : DuplicateId(S, x),
           NEW r \in Linked(S)
    PROVE  r.id \in DOMAIN Edges(S) /\ Edges(S)[r.id] = r.supersedes
<1>1. r \in S /\ Linked(S) \subseteq S
  BY DEF Linked
<1>2. \A q \in S : q.id = r.id => q = r
  BY <1>1 DEF Unique, DuplicateId
<1>3. ~Overwritten(S, r)
  BY <1>1, <1>2, LineagesDistinct DEF Overwritten
<1>4. (CHOOSE q \in Linked(S) : q.id = r.id /\ ~Overwritten(S, q)) = r
  <2>1. \E q \in Linked(S) : q.id = r.id /\ ~Overwritten(S, q)
    BY <1>3
  <2>2. \A q \in Linked(S) : q.id = r.id /\ ~Overwritten(S, q) => q = r
    BY <1>1, <1>2
  <2> QED
    BY <2>1, <2>2
<1> QED
  BY <1>4 DEF Edges

\* A record linked to the one it supersedes stays linked.
LEMMA LinkedGrows ==
    ASSUME NEW S, NEW T, S \subseteq T
    PROVE  Linked(S) \subseteq Linked(T)
BY DEF Linked, Has

\* A lineage cycle outlives every publication, or hides behind a duplicate id.
LEMMA CycleStays ==
    ASSUME NEW S, NEW T, S \subseteq T, Unique(T), NEW r \in S, OnCycle(S, r)
    PROVE  OnCycle(T, r) \/ \E x \in T : DuplicateId(T, x)
<1> SUFFICES ASSUME ~\E x \in T : DuplicateId(T, x) PROVE OnCycle(T, r)
  OBVIOUS
<1>1. Unique(S) /\ ~\E x \in S : DuplicateId(S, x)
  BY DEF Unique, DuplicateId
<1>2. PICK N \in SUBSET DOMAIN Edges(S) : r.id \in N /\ Loop(Edges(S), N)
  BY DEF OnCycle
<1>3. \A n \in N : n \in DOMAIN Edges(T) /\ Edges(T)[n] = Edges(S)[n]
  <2> TAKE n \in N
  <2>1. PICK q \in Linked(S) : q.id = n
    BY <1>2 DEF Edges
  <2>2. q \in Linked(T)
    BY LinkedGrows
  <2>3. n \in DOMAIN Edges(S) /\ Edges(S)[n] = q.supersedes
    BY <1>1, <2>1, EdgeOfRecord
  <2>4. n \in DOMAIN Edges(T) /\ Edges(T)[n] = q.supersedes
    BY <2>1, <2>2, EdgeOfRecord
  <2> QED
    BY <2>3, <2>4
<1>4. Loop(Edges(T), N)
  BY <1>2, <1>3 DEF Loop
<1>5. N \in SUBSET DOMAIN Edges(T) /\ r.id \in DOMAIN Edges(T)
  BY <1>2, <1>3
<1> QED
  BY <1>2, <1>4, <1>5 DEF OnCycle

\* A reference to a record of the wrong family is not healed by publishing one
\* of the right family: that one takes an id in use.
LEMMA CrossTypeStays ==
    ASSUME NEW S, NEW T, S \subseteq T, NEW r \in S, CrossType(S, r)
    PROVE  CrossType(T, r) \/ \E x \in T : DuplicateId(T, x)
<1>1. PICK n \in Names(r) : Owned(S, n[2]) /\ ~Has(S, n[1], n[2])
  BY DEF CrossType
<1>2. PICK p \in S : p.id = n[2] /\ p.family # n[1]
  BY <1>1 DEF Owned, Has
<1>3. CASE Has(T, n[1], n[2])
  <2>1. PICK q \in T : q.family = n[1] /\ q.id = n[2]
    BY <1>3 DEF Has
  <2>2. DuplicateId(T, p)
    BY <1>2, <2>1 DEF DuplicateId
  <2> QED
    BY <1>2, <2>2
<1>4. CASE ~Has(T, n[1], n[2])
  <2>1. Owned(T, n[2])
    BY <1>2 DEF Owned
  <2> QED
    BY <1>1, <1>4, <2>1 DEF CrossType
<1> QED
  BY <1>3, <1>4

\* The checks of one record against others see no less in a larger store.
LEMMA LocalFaultsStay ==
    ASSUME NEW S, NEW T, S \subseteq T, NEW r \in S
    PROVE  /\ DuplicateId(S, r) => DuplicateId(T, r)
           /\ PinMismatch(S, r) => PinMismatch(T, r)
           /\ OneWayLink(S, r) => OneWayLink(T, r)
           /\ ScopeMismatch(S, r) => ScopeMismatch(T, r)
           /\ UnauthorizedExport(S, r) => UnauthorizedExport(T, r)
<1>1. DuplicateId(S, r) => DuplicateId(T, r)
  BY DEF DuplicateId
<1>2. PinMismatch(S, r) => PinMismatch(T, r)
  BY DEF PinMismatch
<1>3. OneWayLink(S, r) => OneWayLink(T, r)
  BY DEF OneWayLink
<1>4. ScopeMismatch(S, r) => ScopeMismatch(T, r)
  BY LinkedGrows DEF ScopeMismatch
<1>5. UnauthorizedExport(S, r) => UnauthorizedExport(T, r)
  BY DEF UnauthorizedExport
<1> QED
  BY <1>1, <1>2, <1>3, <1>4, <1>5

LEMMA CaseFaultsStay ==
    ASSUME NEW S, NEW T, S \subseteq T, NEW r \in S, CaseIncomplete(S, r)
    PROVE  CaseIncomplete(T, r)
<1>1. \A a : ChainBroken(S, r, a) => ChainBroken(T, r, a)
  BY DEF ChainBroken
<1> QED
  BY <1>1 DEF CaseIncomplete

\* Whatever is published later, a spoiled store stays spoiled.
LEMMA SpoiledStays ==
    ASSUME NEW S, NEW T, S \subseteq T, Unique(T), Spoiled(S)
    PROVE  Spoiled(T)
<1>1. PICK r \in S : Spoils(S, r)
  BY DEF Spoiled
<1>2. r \in T
  OBVIOUS
<1>3. Spoils(T, r) \/ \E x \in T : DuplicateId(T, x)
  BY <1>1, CycleStays, CrossTypeStays, LocalFaultsStay, CaseFaultsStay DEF Spoils
<1> QED
  BY <1>2, <1>3 DEF Spoiled, Spoils

\* Once the verifier has found anything but a missing target, it never again
\* says ok of the store, whatever is published.
THEOREM BadNewsStays == Spec => BadNewsIsFinal
<1>1. TypeOK /\ TypeOK' /\ [Next]_vars => (Spoiled(published) => Spoiled(published'))
  <2>1. ASSUME TypeOK', NEW d \in Drafts, Publish(d), Spoiled(published)
        PROVE  Spoiled(published')
    <3>1. published \subseteq published' /\ Unique(published')
      BY <2>1 DEF Publish, TypeOK
    <3> QED
      BY <2>1, <3>1, SpoiledStays
  <2>2. ASSUME UNCHANGED vars, Spoiled(published) PROVE Spoiled(published')
    BY <2>2 DEF vars
  <2> QED
    BY <2>1, <2>2 DEF Next, Drafts
<1> QED
  BY <1>1, Typed, PTL DEF Spec, BadNewsIsFinal

-----------------------------------------------------------------------------
(* Exports *)

\* In a store that verifies a pinned reference names a record by its bytes.
LEMMA PinnedResolves ==
    ASSUME NEW S, Ok(S), NEW r \in S, NEW ref \in Fields(r.family), Pinned(r, ref[2])
    PROVE  \E q \in S : /\ q.family = ref[3]
                        /\ r.refs[ref[2]][1] = [id |-> q.id, pin |-> q.sha]
<1>1. ~Dangling(S, r) /\ ~CrossType(S, r) /\ ~PinMismatch(S, r)
  BY DEF Ok, Accused, Spoils
<1>2. 1 \in 1..Len(r.refs[ref[2]])
  BY DEF Pinned
<1>3. Target(r, ref[2]) \in Listed(r, ref[2])
  BY <1>2 DEF Target, Listed
<1>4. <<ref[3], Target(r, ref[2])>> \in Names(r)
  BY <1>3 DEF Names
<1>5. Owned(S, Target(r, ref[2])) /\ Has(S, ref[3], Target(r, ref[2]))
  BY <1>1, <1>4 DEF Dangling, CrossType
<1>6. PICK q \in S : q.family = ref[3] /\ q.id = Target(r, ref[2])
  BY <1>5 DEF Has
<1>7. r.refs[ref[2]][1].pin = q.sha
  BY <1>1, <1>2, <1>6 DEF PinMismatch, Pinned, Target
<1> QED
  BY <1>6, <1>7 DEF Pinned

\* In a store that verifies, an export was allowed, in its mode, for the bytes
\* of the case in the store.
THEOREM ExportsAreJustified == Spec => []ExportJustified
<1>1. ASSUME TypeOK, Ok(published), NEW r \in published, r.family = "receipt"
      PROVE  \E d, case \in published :
                /\ d.family = "decision" /\ r.refs["decision"][1] = [id |-> d.id, pin |-> d.sha]
                /\ case.family = "case" /\ d.refs["case"][1] = [id |-> case.id, pin |-> case.sha]
                /\ d.outcome = "allow" /\ d.mode = r.mode
  <2>1. <<"receipt", "decision", "decision">> \in Fields(r.family)
    BY <1>1 DEF Fields, References, ExportReferences
  <2>2. Pinned(r, "decision")
    BY <1>1, DraftsAssumption DEF TypeOK
  <2>3. PICK d \in published :
            d.family = "decision" /\ r.refs["decision"][1] = [id |-> d.id, pin |-> d.sha]
    BY <1>1, <2>1, <2>2, PinnedResolves
  <2>4. <<"decision", "case", "case">> \in Fields(d.family)
    BY <2>3 DEF Fields, References, ExportReferences
  <2>5. Pinned(d, "case") /\ d.outcome \in {"allow", "deny"}
    BY <1>1, <2>3, DraftsAssumption DEF TypeOK
  <2>6. PICK case \in published :
            case.family = "case" /\ d.refs["case"][1] = [id |-> case.id, pin |-> case.sha]
    BY <1>1, <2>4, <2>5, PinnedResolves
  <2>7. ~UnauthorizedExport(published, r)
    BY <1>1 DEF Ok, Accused, Spoils
  <2>8. d.id = Target(r, "decision")
    BY <2>3 DEF Target
  <2>9. d.outcome # "deny" /\ r.mode = d.mode
    BY <1>1, <2>3, <2>7, <2>8 DEF UnauthorizedExport
  <2> QED
    BY <2>3, <2>5, <2>6, <2>9
<1>2. TypeOK => ExportJustified
  BY <1>1 DEF ExportJustified
<1> QED
  BY <1>2, Typed, PTL

-----------------------------------------------------------------------------
(* Recursion over an interval *)

\* What holds of 0, and of every number with its predecessor, holds up to n.
LEMMA UpTo ==
    ASSUME NEW n \in Nat, NEW T, 0 \in T, \A k \in 1..n : k - 1 \in T => k \in T
    PROVE  \A k \in 0..n : k \in T
<1> SUFFICES ASSUME (0..n) \ T # {} PROVE FALSE
  OBVIOUS
<1> DEFINE left == (0..n) \ T
<1>1. left \subseteq Nat /\ left # {}
  OBVIOUS
<1>2. \E x \in left : \A y \in left : ~(<<y, x>> \in OpToRel(<, Nat))
  <2> HIDE DEF left
  <2> QED
    BY <1>1, WFMin, NatLessThanWellFounded
<1>3. PICK x \in left : \A y \in left : ~(<<y, x>> \in OpToRel(<, Nat))
  BY <1>2
<1>4. \A y \in left : ~(y < x)
  BY <1>1, <1>3 DEF OpToRel
<1>5. x \in 1..n
  <2>1. x \in 0..n /\ x \notin T
    OBVIOUS
  <2>2. x # 0
    BY <2>1, Zenon
  <2> QED
    BY <2>1, <2>2
<1>6. x - 1 \in 0..n /\ x - 1 < x
  BY <1>5
<1>7. x - 1 \in T
  BY <1>4, <1>6
<1> QED
  BY <1>3, <1>5, <1>7

\* f takes the move from base again and again, up to n times.
Repeats(f, n, base, move) ==
    \A k \in 0..n : f[k] = IF k = 0 THEN base ELSE move[f[k - 1]]

\* A move that stays in a set can be repeated.
LEMMA Repeating ==
    ASSUME NEW n \in Nat, NEW S, NEW base \in S, NEW move \in [S -> S]
    PROVE  \E f \in [0..n -> S] : Repeats(f, n, base, move)
<1> DEFINE Upto(m) == \E f \in [0..m -> S] :
              \A k \in 0..m : f[k] = IF k = 0 THEN base ELSE move[f[k - 1]]
           T == {m \in 0..n : Upto(m)}
<1>1. 0 \in T
  <2>1. [k \in 0..0 |-> base] \in [0..0 -> S]
    OBVIOUS
  <2>2. \A k \in 0..0 : [j \in 0..0 |-> base][k] =
              IF k = 0 THEN base ELSE move[[j \in 0..0 |-> base][k - 1]]
    OBVIOUS
  <2>3. Upto(0)
    BY <2>1, <2>2
  <2> QED
    BY <2>3
<1>2. ASSUME NEW m \in 1..n, m - 1 \in T PROVE m \in T
  <2>1. PICK f \in [0..m - 1 -> S] :
           \A k \in 0..m - 1 : f[k] = IF k = 0 THEN base ELSE move[f[k - 1]]
    BY <1>2
  <2> DEFINE g == [k \in 0..m |-> IF k = m THEN move[f[m - 1]] ELSE f[k]]
  <2>2. move[f[m - 1]] \in S
    OBVIOUS
  <2>3. g \in [0..m -> S]
    BY <2>2
  <2>4. \A k \in 0..m : g[k] = IF k = 0 THEN base ELSE move[g[k - 1]]
    <3> SUFFICES ASSUME NEW k \in 0..m
                 PROVE  g[k] = IF k = 0 THEN base ELSE move[g[k - 1]]
      OBVIOUS
    <3>1. CASE k = m
      <4>1. g[k] = move[f[m - 1]] /\ g[k - 1] = f[m - 1] /\ k # 0
        BY <3>1
      <4> QED
        BY <3>1, <4>1
    <3>2. CASE k # m
      <4>1. k \in 0..m - 1 /\ g[k] = f[k]
        BY <3>2
      <4>2. k # 0 => g[k - 1] = f[k - 1]
        BY <4>1
      <4> QED
        BY <2>1, <4>1, <4>2
    <3> QED
      BY <3>1, <3>2
  <2>5. Upto(m)
    BY <2>3, <2>4
  <2>6. m \in 0..n
    OBVIOUS
  <2> HIDE DEF Upto
  <2> QED
    BY <2>5, <2>6
<1> HIDE DEF T
<1>3. \A m \in 1..n : m - 1 \in T => m \in T
  BY <1>2
<1>4. \A m \in 0..n : m \in T
  BY <1>1, <1>3, UpTo
<1>5. n \in T
  BY <1>4
<1> QED
  BY <1>5 DEF T, Repeats

-----------------------------------------------------------------------------
(* What is reached *)

\* The steps taken from the given records, one after the other.
Walks(after, n, from, leads) ==
    /\ after[0] = from
    /\ \A k \in 1..n : after[k] = after[k - 1] \cup UNION {leads[r] : r \in after[k - 1]}

LEMMA ReachedByWalk ==
    ASSUME NEW S, IsFiniteSet(S), NEW leads \in [S -> SUBSET S], NEW from \in SUBSET S
    PROVE  \E n \in Nat : \E after \in [0..n -> SUBSET S] :
               Walks(after, n, from, leads) /\ Reached(from, leads) = after[n]
<1> DEFINE C == Cardinality(S)
           Further(X) == X \cup UNION {leads[r] : r \in X}
           move == [X \in SUBSET S |-> Further(X)]
           Body(f) == [k \in 0..C |-> IF k = 0 THEN from ELSE Further(f[k - 1])]
<1>1. C \in Nat
  BY FS_CardinalityType
<1>2. \A X \in SUBSET S : Further(X) \in SUBSET S
  OBVIOUS
<1> HIDE DEF Further
<1>3. move \in [SUBSET S -> SUBSET S] /\ \A X \in SUBSET S : move[X] = Further(X)
  BY <1>2
<1> HIDE DEF C, move
<1>12. \E f \in [0..C -> SUBSET S] : Repeats(f, C, from, move)
  <2> DEFINE Sets == SUBSET S
  <2>1. from \in Sets /\ move \in [Sets -> Sets]
    BY <1>3
  <2> HIDE DEF Sets
  <2>2. \E f \in [0..C -> Sets] : Repeats(f, C, from, move)
    BY <1>1, <2>1, Repeating
  <2> QED
    BY <2>2 DEF Sets
<1>4. PICK f \in [0..C -> SUBSET S] : Repeats(f, C, from, move)
  BY <1>12
<1>5. f = Body(f)
  BY <1>1, <1>3, <1>4 DEF Repeats
<1> DEFINE after == CHOOSE g : g = Body(g)
<1>6. after = Body(after)
  BY <1>5
<1>7. Reached(from, leads) = after[C]
  <2>1. DOMAIN leads = S
    OBVIOUS
  <2> QED
    BY <2>1 DEF Reached, C, Further
<1> HIDE DEF after
<1>8. /\ DOMAIN after = 0..C /\ after[0] = from
      /\ \A k \in 1..C : after[k] = Further(after[k - 1])
  BY <1>1, <1>6
<1>9. \A k \in 0..C : after[k] \in SUBSET S
  <2> DEFINE T == {k \in 0..C : after[k] \in SUBSET S}
  <2>1. 0 \in T
    BY <1>1, <1>8
  <2>2. \A k \in 1..C : k - 1 \in T => k \in T
    BY <1>1, <1>2, <1>8
  <2> HIDE DEF T
  <2>3. \A k \in 0..C : k \in T
    BY <1>1, <2>1, <2>2, UpTo
  <2> QED
    BY <2>3 DEF T
<1>10. after \in [0..C -> SUBSET S]
  <2>1. after = [k \in 0..C |-> after[k]]
    BY <1>6
  <2> QED
    BY <1>9, <2>1
<1>11. Walks(after, C, from, leads)
  BY <1>8 DEF Walks, Further
<1> QED
  BY <1>1, <1>7, <1>10, <1>11

\* A set that holds the given records and what each of its own leads to holds all
\* that is reached.
LEMMA ReachedWithin ==
    ASSUME NEW S, IsFiniteSet(S), NEW leads \in [S -> SUBSET S], NEW from \in SUBSET S,
           NEW within, from \subseteq within,
           \A r \in within \cap S : leads[r] \subseteq within
    PROVE  Reached(from, leads) \subseteq within \cap S
<1>1. PICK n \in Nat : \E after \in [0..n -> SUBSET S] :
          Walks(after, n, from, leads) /\ Reached(from, leads) = after[n]
  BY ReachedByWalk
<1>2. PICK after \in [0..n -> SUBSET S] :
          Walks(after, n, from, leads) /\ Reached(from, leads) = after[n]
  BY <1>1
<1> DEFINE T == {k \in 0..n : after[k] \subseteq within}
<1>3. 0 \in T
  BY <1>2 DEF Walks
<1>4. ASSUME NEW k \in 1..n, k - 1 \in T PROVE k \in T
  <2>1. k - 1 \in 0..n /\ k \in 0..n
    OBVIOUS
  <2>2. after[k - 1] \subseteq within \cap S
    BY <1>4, <2>1
  <2>3. after[k] = after[k - 1] \cup UNION {leads[r] : r \in after[k - 1]}
    BY <1>2 DEF Walks
  <2>4. after[k] \subseteq within
    BY <2>2, <2>3
  <2> QED
    BY <2>1, <2>4
<1> HIDE DEF T
<1>5. \A k \in 0..n : k \in T
  BY <1>3, <1>4, UpTo
<1>6. n \in T
  BY <1>5
<1> QED
  BY <1>2, <1>6 DEF T

-----------------------------------------------------------------------------
(* Packages *)

\* A store holds finitely many records.
Finite == IsFiniteSet(published)

LEMMA StoreFinite == Spec => []Finite
<1>1. Init => Finite
  BY FS_EmptySet DEF Init, Finite
<1>2. Finite /\ [Next]_vars => Finite'
  <2>1. ASSUME Finite, NEW d, Publish(d) PROVE Finite'
    BY <2>1, FS_AddElement DEF Publish, Finite
  <2>2. ASSUME Finite, UNCHANGED vars PROVE Finite'
    BY <2>2 DEF vars, Finite
  <2> QED
    BY <2>1, <2>2 DEF Next
<1> QED
  BY <1>1, <1>2, PTL DEF Spec

\* An object-shaped reference lists one id.
LEMMA PinnedListsOne ==
    ASSUME NEW r, NEW field, Pinned(r, field)
    PROVE  Listed(r, field) = {Target(r, field)}
<1>1. Len(r.refs[field]) = 1
  BY DEF Pinned
<1>2. 1..1 = {1}
  OBVIOUS
<1> QED
  BY <1>1, <1>2 DEF Listed, Target

\* What the records a package argues with refer to.
LEMMA ArgumentFields ==
    /\ Fields("claim") = {<<"claim", "supporting_evidence", "evidence">>}
    /\ Fields("evidence") = {<<"evidence", "claim_ids", "claim">>}
    /\ Fields("analysis") = {<<"analysis", "observation", "observation">>}
    /\ Fields("observation") = {<<"observation", "run", "run">>}
    /\ Fields("run") = {<<"run", "task", "task">>}
    /\ Fields("task") = {}
<1>1. \A ref \in Members("case") \cup Members("case_v2") : ref[1] \in {"case", "case_v2"}
  BY DEF Members
<1>2. \A ref \in ExportReferences \cup EvaluationReferences :
          ref[1] \notin {"claim", "evidence", "analysis", "observation", "run", "task"}
  BY DEF ExportReferences, EvaluationReferences
<1>3. \A ref \in MemoryReferences \cup IncubationReferences :
          ref[1] \notin {"claim", "evidence", "analysis", "observation", "run", "task"}
  BY DEF MemoryReferences, IncubationReferences
<1>4. \A ref \in ContextReferences \cup CollaborationReferences :
          ref[1] \notin {"claim", "evidence", "analysis", "observation", "run", "task"}
  BY DEF ContextReferences, CollaborationReferences
<1>5. ASSUME NEW f \in {"claim", "evidence", "analysis", "observation", "run", "task"}
      PROVE  Fields(f) = {ref \in CoreReferences : ref[1] = f}
  BY <1>1, <1>2, <1>3, <1>4 DEF Fields, References
<1> QED
  BY <1>5 DEF CoreReferences

\* In a store that verifies, whatever a package argues with is in the package.
LEMMA PackageComplete ==
    ASSUME NEW S, S \subseteq Drafts, IsFiniteSet(S), Ok(S),
           NEW case \in S, case.family = "case"
    PROVE  LET members == Package(S, case)
               argued == {q \in members : q.family \in {"claim", "evidence", "analysis"}}
           IN  Reached(argued, RestsOn(S)) \subseteq members
<1> DEFINE members == Package(S, case)
           argued == {q \in members : q.family \in {"claim", "evidence", "analysis"}}
           observed == {o \in S : /\ o.family = "observation"
                                  /\ \E a \in members : a.family = "analysis"
                                                        /\ o.id = Target(a, "observation")}
           run == {r \in S : r.family = "run" /\ \E o \in observed : r.id = Target(o, "run")}
           tasks == {t \in S : t.family = "task" /\ t.id = Target(case, "task")}
           within == argued \cup observed \cup run \cup tasks
           leads == RestsOn(S)
<1>1. ~CaseIncomplete(S, case)
  BY DEF Ok, Accused, Spoils
<1>2. Pinned(case, "task")
  BY DraftsAssumption
<1>3. \A q \in S : q \in members <=>
          \/ q.family = "task" /\ q.id \in Listed(case, "task")
          \/ q.family = "run" /\ q.id \in Listed(case, "runs")
          \/ q.family = "claim" /\ q.id \in Listed(case, "claims")
          \/ q.family = "evidence" /\ q.id \in Listed(case, "evidence")
          \/ q.family = "observation" /\ q.id \in Listed(case, "observations")
          \/ q.family = "analysis" /\ q.id \in Listed(case, "analyses")
  BY DEF Package, Members
<1>4. members \subseteq S
  BY DEF Package
<1> HIDE DEF members
<1>5. \A a \in members : a.family = "analysis" => ~ChainBroken(S, case, a)
  BY <1>1, <1>3, <1>4 DEF CaseIncomplete
<1>6. observed \subseteq members
  BY <1>3, <1>4, <1>5 DEF ChainBroken
<1>7. run \subseteq members
  <2> SUFFICES ASSUME NEW r \in run PROVE r.id \in Listed(case, "runs")
    BY <1>3
  <2>1. PICK o \in observed : r.id = Target(o, "run")
    OBVIOUS
  <2>2. PICK a \in members : a.family = "analysis" /\ o.id = Target(a, "observation")
    OBVIOUS
  <2> QED
    BY <1>5, <2>1, <2>2 DEF ChainBroken
<1>8. tasks \subseteq members
  BY <1>2, <1>3, PinnedListsOne
<1>9. within \subseteq members /\ argued \subseteq within
  BY <1>6, <1>7, <1>8
<1>10. leads \in [S -> SUBSET S]
  BY DEF RestsOn
<1>11. ASSUME NEW r \in S, NEW q \in leads[r]
       PROVE  /\ q \in S
              /\ r.family = "claim" => q.family = "evidence" /\ q.id \in Listed(r, "supporting_evidence")
              /\ r.family = "evidence" => q.family = "claim" /\ q.id \in Listed(r, "claim_ids")
              /\ r.family = "analysis" => q.family = "observation" /\ q.id = Target(r, "observation")
              /\ r.family = "observation" => q.family = "run" /\ q.id = Target(r, "run")
              /\ r.family = "run" => q.family = "task" /\ q.id = Target(r, "task")
              /\ r.family # "task"
  <2>1. q \in S /\ \E ref \in Fields(r.family) : q.family = ref[3] /\ q.id \in Listed(r, ref[2])
    BY <1>11 DEF RestsOn
  <2>2. PICK ref \in Fields(r.family) : q.family = ref[3] /\ q.id \in Listed(r, ref[2])
    BY <2>1
  <2>3. /\ r.family = "analysis" => Listed(r, "observation") = {Target(r, "observation")}
        /\ r.family = "observation" => Listed(r, "run") = {Target(r, "run")}
        /\ r.family = "run" => Listed(r, "task") = {Target(r, "task")}
    BY DraftsAssumption, PinnedListsOne
  <2>4. r.family = "claim" => q.family = "evidence" /\ q.id \in Listed(r, "supporting_evidence")
    BY <2>2, ArgumentFields
  <2>5. r.family = "evidence" => q.family = "claim" /\ q.id \in Listed(r, "claim_ids")
    BY <2>2, ArgumentFields
  <2>6. r.family = "analysis" => q.family = "observation" /\ q.id = Target(r, "observation")
    BY <2>2, <2>3, ArgumentFields
  <2>7. r.family = "observation" => q.family = "run" /\ q.id = Target(r, "run")
    BY <2>2, <2>3, ArgumentFields
  <2>8. r.family = "run" => q.family = "task" /\ q.id = Target(r, "task")
    BY <2>2, <2>3, ArgumentFields
  <2>9. r.family # "task"
    BY <2>2, ArgumentFields
  <2> QED
    BY <2>1, <2>4, <2>5, <2>6, <2>7, <2>8, <2>9
<1> HIDE DEF leads
<1>12. ASSUME NEW r \in within \cap S, NEW q \in leads[r] PROVE q \in within
  <2>1. CASE r \in argued
    <3>1. CASE r.family = "claim"
      <4>1. Listed(r, "supporting_evidence") \subseteq Listed(case, "evidence")
        BY <1>1, <1>3, <2>1, <3>1 DEF CaseIncomplete
      <4> QED
        BY <1>3, <1>11, <1>12, <3>1, <4>1
    <3>2. CASE r.family = "evidence"
      <4>1. Listed(r, "claim_ids") \subseteq Listed(case, "claims")
        BY <1>1, <1>3, <2>1, <3>2 DEF CaseIncomplete
      <4> QED
        BY <1>3, <1>11, <1>12, <3>2, <4>1
    <3>3. CASE r.family = "analysis"
      BY <1>11, <1>12, <2>1, <3>3
    <3> QED
      BY <2>1, <3>1, <3>2, <3>3
  <2>2. CASE r \in observed
    BY <1>11, <1>12, <2>2
  <2>3. CASE r \in run
    <3>1. PICK o \in observed : r.id = Target(o, "run")
      BY <2>3
    <3>2. PICK a \in members : a.family = "analysis" /\ o.id = Target(a, "observation")
      OBVIOUS
    <3>3. Target(r, "task") = Target(case, "task")
      BY <1>5, <2>3, <3>1, <3>2 DEF ChainBroken
    <3> QED
      BY <1>11, <1>12, <2>3, <3>3
  <2>4. CASE r \in tasks
    BY <1>11, <1>12, <2>4
  <2> QED
    BY <1>12, <2>1, <2>2, <2>3, <2>4
<1>13. IsFiniteSet(S) /\ argued \in SUBSET S
  BY <1>4
<1>14. Reached(argued, leads) \subseteq within \cap S
  BY <1>9, <1>10, <1>12, <1>13, ReachedWithin
<1> QED
  BY <1>9, <1>14 DEF members, leads

-----------------------------------------------------------------------------
(* Lineages *)

\* In a store that verifies, a record that supersedes another is linked to it, by an
\* edge of the map.
LEMMA SupersedesLinks ==
    ASSUME NEW S, S \subseteq Drafts, Unique(S), Ok(S),
           NEW r \in S, NEW q \in Supersedes(S)[r]
    PROVE  /\ q \in S /\ q.family = r.family /\ q # r
           /\ r.id \in DOMAIN Edges(S) /\ Edges(S)[r.id] = q.id
           /\ \A p \in Supersedes(S)[r] : p = q
           /\ \A anchor \in Anchors :
                  r.family = anchor[1] => Target(q, anchor[2]) = Target(r, anchor[2])
<1>1. q \in S /\ q.family = r.family /\ q.id = r.supersedes /\ r.supersedes # None
  BY DEF Supersedes
<1>2. ~SelfReference(r) /\ ~ScopeMismatch(S, r) /\ ~\E x \in S : DuplicateId(S, x)
  BY DEF Ok, Accused, Spoils
<1>3. r \in Linked(S)
  <2>1. Has(S, r.family, r.supersedes)
    BY <1>1 DEF Has
  <2>2. r.family \in {Lineages[i] : i \in 1..Len(Lineages)}
    BY <1>1, DraftsAssumption
  <2> QED
    BY <1>1, <1>2, <2>1, <2>2 DEF Linked, SelfReference
<1>4. r.id \in DOMAIN Edges(S) /\ Edges(S)[r.id] = r.supersedes
  BY <1>2, <1>3, EdgeOfRecord
<1>5. \A p \in Supersedes(S)[r] : p = q
  BY <1>1 DEF Supersedes, Unique
<1>6. q # r
  BY <1>1, <1>2 DEF SelfReference
<1>7. \A anchor \in Anchors :
          r.family = anchor[1] => Target(q, anchor[2]) = Target(r, anchor[2])
  BY <1>1, <1>2, <1>3 DEF ScopeMismatch
<1> QED
  BY <1>1, <1>4, <1>5, <1>6, <1>7

\* A line back to the record it comes from would be a cycle.
LEMMA LineageForward ==
    ASSUME NEW S, S \subseteq Drafts, IsFiniteSet(S), Unique(S), Ok(S), NEW r \in S
    PROVE  LET before == Supersedes(S) IN r \notin Reached(before[r], before)
<1> DEFINE before == Supersedes(S)
           from == before[r]
<1>1. before \in [S -> SUBSET S] /\ from \in SUBSET S
  BY DEF Supersedes
<1> HIDE DEF before
<1>2. CASE from = {}
  <2>1. Reached(from, before) \subseteq {} \cap S
    <3>1. \A x \in {} \cap S : before[x] \subseteq {}
      OBVIOUS
    <3> QED
      BY <1>1, <1>2, <3>1, ReachedWithin
  <2> QED
    BY <2>1 DEF before
<1>3. ASSUME NEW p \in from PROVE r \notin Reached(from, before)
  <2>1. PICK n \in Nat : \E after \in [0..n -> SUBSET S] :
            Walks(after, n, from, before) /\ Reached(from, before) = after[n]
    BY <1>1, ReachedByWalk
  <2>2. PICK after \in [0..n -> SUBSET S] :
            Walks(after, n, from, before) /\ Reached(from, before) = after[n]
    BY <2>1
  \* All but the last have what they supersede among those reached, and all are
  \* superseded by the record itself or by one of those reached.
  <2> DEFINE Ahead(A, last) == \A q \in A : q # last => \E x \in A : x \in before[q]
             Behind(A) == \A q \in A : q \in from \/ \E x \in A : q \in before[x]
             InLine(A) == /\ A \subseteq S /\ p \in A /\ r \notin A
                          /\ Behind(A) /\ \E last \in A : Ahead(A, last)
             T == {k \in 0..n : InLine(after[k])}
  <2>3. from = {p} /\ p # r /\ p \in S
    <3>1. \A x \in Supersedes(S)[r] : x = p /\ x # r /\ x \in S
      BY <1>3, SupersedesLinks DEF before
    <3> QED
      BY <1>3, <3>1 DEF before
  <2>4. 0 \in T
    <3>1. after[0] = {p}
      BY <2>2, <2>3 DEF Walks
    <3>2. InLine({p})
      BY <2>3
    <3> QED
      BY <3>1, <3>2
  <2>5. ASSUME NEW A, InLine(A), NEW last \in A, Ahead(A, last), r \in before[last] PROVE FALSE
    <3> DEFINE M == A \cup {r}
               N == {q.id : q \in M}
               g == Edges(S)
    <3>1. M \subseteq S /\ r \in M
      BY <2>5
    <3>2. \A q \in M : \E x \in M : x \in before[q]
      <4> SUFFICES ASSUME NEW q \in M PROVE \E x \in M : x \in before[q]
        OBVIOUS
      <4>1. CASE q = r
        BY <1>3, <2>5, <4>1
      <4>2. CASE q = last
        BY <2>5, <4>2
      <4>3. CASE q \in A /\ q # last
        BY <2>5, <4>3
      <4> QED
        BY <4>1, <4>2, <4>3
    <3>3. \A q \in M : \E x \in M : q \in before[x]
      <4> SUFFICES ASSUME NEW q \in M PROVE \E x \in M : q \in before[x]
        OBVIOUS
      <4>1. CASE q = r
        BY <2>5, <4>1
      <4>2. CASE q \in A
        BY <2>5, <4>2
      <4> QED
        BY <4>1, <4>2
    <3> HIDE DEF M
    <3>4. \A q \in M : \A x \in before[q] : q.id \in DOMAIN g /\ g[q.id] = x.id
      BY <3>1, SupersedesLinks DEF before
    <3> HIDE DEF g
    <3>5. N \subseteq DOMAIN g /\ r.id \in N
      BY <3>1, <3>2, <3>4
    <3>6. \A m \in N : g[m] \in N
      <4> SUFFICES ASSUME NEW q \in M PROVE g[q.id] \in N
        OBVIOUS
      <4> QED
        BY <3>2, <3>4
    <3>7. \A m \in N : \E k \in N : g[k] = m
      <4> SUFFICES ASSUME NEW q \in M PROVE \E k \in N : g[k] = q.id
        OBVIOUS
      <4>1. PICK x \in M : q \in before[x]
        BY <3>3
      <4> QED
        BY <3>4, <4>1
    <3>8. Loop(g, N)
      BY <3>5, <3>6, <3>7 DEF Loop
    <3>9. OnCycle(S, r)
      BY <3>5, <3>8 DEF OnCycle, g
    <3> QED
      BY <3>9 DEF Ok, Accused, Spoils
  <2>6. ASSUME NEW A, InLine(A) PROVE InLine(A \cup UNION {before[x] : x \in A})
    <3>1. PICK last \in A : Ahead(A, last)
      BY <2>6
    <3>2. \A q \in A : q # last => before[q] \subseteq A
      <4> SUFFICES ASSUME NEW q \in A, q # last, NEW x \in before[q] PROVE x \in A
        OBVIOUS
      <4>1. PICK y \in A : y \in before[q]
        BY <3>1
      <4> QED
        BY <2>6, <4>1, SupersedesLinks DEF before
    <3>3. CASE before[last] \subseteq A
      <4>1. A \cup UNION {before[x] : x \in A} = A
        BY <3>2, <3>3
      <4> QED
        BY <2>6, <4>1
    <3>4. ASSUME NEW x \in before[last], x \notin A
          PROVE  InLine(A \cup UNION {before[y] : y \in A})
      <4>1. before[last] = {x} /\ x \in S
        <5>1. last \in S
          BY <2>6, <3>1
        <5> QED
          BY <3>4, <5>1, SupersedesLinks DEF before
      <4>2. A \cup UNION {before[y] : y \in A} = A \cup {x}
        BY <3>1, <3>2, <4>1
      <4>3. x # r
        BY <2>5, <2>6, <3>1, <3>4
      <4>4. Behind(A \cup {x})
        BY <2>6, <3>1, <3>4
      <4>5. Ahead(A \cup {x}, x)
        BY <3>1, <3>4
      <4>6. InLine(A \cup {x})
        BY <2>6, <4>1, <4>3, <4>4, <4>5
      <4> QED
        BY <4>2, <4>6
    <3> QED
      BY <3>3, <3>4
  <2>7. ASSUME NEW k \in 1..n, k - 1 \in T PROVE k \in T
    <3>1. k - 1 \in 0..n /\ k \in 0..n
      OBVIOUS
    <3>2. after[k] = after[k - 1] \cup UNION {before[x] : x \in after[k - 1]}
      BY <2>2 DEF Walks
    <3>3. InLine(after[k - 1])
      BY <2>7
    <3> HIDE DEF InLine
    <3>4. InLine(after[k])
      BY <2>6, <3>2, <3>3
    <3> QED
      BY <3>1, <3>4
  <2> HIDE DEF T
  <2>8. \A k \in 0..n : k \in T
    BY <2>4, <2>7, UpTo
  <2>9. n \in T
    BY <2>8
  <2> QED
    BY <2>2, <2>9 DEF T
<1> QED
  BY <1>2, <1>3 DEF before

\* A line of analyses stays with its observation, one of decisions with its case.
LEMMA LineageAnchored ==
    ASSUME NEW S, S \subseteq Drafts, IsFiniteSet(S), Unique(S), Ok(S), NEW r \in S,
           NEW anchor \in Anchors, r.family = anchor[1]
    PROVE  LET before == Supersedes(S)
           IN  \A q \in Reached(before[r], before) : Target(q, anchor[2]) = Target(r, anchor[2])
<1> DEFINE before == Supersedes(S)
           within == {q \in S : q.family = r.family /\ Target(q, anchor[2]) = Target(r, anchor[2])}
<1>1. before \in [S -> SUBSET S] /\ before[r] \in SUBSET S
  BY DEF Supersedes
<1> HIDE DEF before
<1>2. before[r] \subseteq within
  BY SupersedesLinks DEF before
<1>3. \A x \in within \cap S : before[x] \subseteq within
  BY SupersedesLinks DEF before
<1> HIDE DEF within
<1>4. Reached(before[r], before) \subseteq within \cap S
  BY <1>1, <1>2, <1>3, ReachedWithin
<1> QED
  BY <1>4 DEF before, within

\* A store found sound has lineages without a turn and packages without a gap,
\* however many records it holds and however long the lines are (check_record_graph).
THEOREM OkIsSound == Spec => []OkMeansSound
<1>1. TypeOK /\ Finite => LineagesSound
  BY LineageForward, LineageAnchored DEF TypeOK, Finite, LineagesSound
<1>2. TypeOK /\ Finite => PackageClosed
  BY PackageComplete DEF TypeOK, Finite, PackageClosed
<1> QED
  BY <1>1, <1>2, Typed, StoreFinite, PTL DEF OkMeansSound

-----------------------------------------------------------------------------
(* Newcomers *)

\* A store that verifies has everything its records name, and no id twice.
LEMMA NamedIsThere ==
    ASSUME NEW S, Ok(S), NEW r \in S, NEW n \in Names(r)
    PROVE  Has(S, n[1], n[2])
<1>1. ~Dangling(S, r) /\ ~CrossType(S, r)
  BY DEF Ok, Accused, Spoils
<1> QED
  BY <1>1 DEF Dangling, CrossType

\* So is whatever a reference lists.
LEMMA ListedIsThere ==
    ASSUME NEW S, Ok(S), NEW r \in S, NEW ref \in Fields(r.family), NEW i \in Listed(r, ref[2])
    PROVE  Has(S, ref[3], i)
<1>1. <<ref[3], i>> \in Names(r)
  BY DEF Names
<1>2. Has(S, <<ref[3], i>>[1], <<ref[3], i>>[2])
  BY <1>1, NamedIsThere
<1> QED
  BY <1>2

\* So is whatever a record supersedes, in its own family.
LEMMA SupersededIsThere ==
    ASSUME NEW S, Ok(S), NEW r \in S, r.supersedes \notin {None, r.id}
    PROVE  Has(S, r.family, r.supersedes)
<1>1. <<r.family, r.supersedes>> \in Names(r)
  BY DEF Names
<1>2. Has(S, <<r.family, r.supersedes>>[1], <<r.family, r.supersedes>>[2])
  BY <1>1, NamedIsThere
<1> QED
  BY <1>2

\* Where each of these families points.
LEMMA CaseFields ==
    /\ <<"case", "analyses", "analysis">> \in Fields("case")
    /\ <<"case", "claims", "claim">> \in Fields("case")
    /\ <<"case", "evidence", "evidence">> \in Fields("case")
    /\ <<"receipt", "decision", "decision">> \in Fields("receipt")
BY DEF Fields, References, Members, ExportReferences

\* A set whose every element is an image of one of its own is not mapped into less of it.
LEMMA NoLeak ==
    ASSUME NEW N, IsFiniteSet(N), NEW g, NEW F \in SUBSET N, NEW d \in N, d \notin F,
           \A n \in F \cup {d} : g[n] \in F,
           \A n \in N : \E m \in N : g[m] = n
    PROVE  FALSE
<1> DEFINE Y == N \ (F \cup {d})
           Z == Y \cup {d}
           G == {g[n] : n \in Y}
           f == [n \in Y |-> g[n]]
<1>1. IsFiniteSet(Y) /\ Cardinality(Y) \in Nat
  <2>1. Y \in SUBSET N
    OBVIOUS
  <2> HIDE DEF Y
  <2> QED
    BY <2>1, FS_Subset, FS_CardinalityType
<1>2. Z \subseteq G
  OBVIOUS
<1>3. f \in Surjection(Y, G)
  BY DEF Surjection
<1>4. d \notin Y
  OBVIOUS
<1> HIDE DEF Y, G, f
<1>5. IsFiniteSet(G) /\ Cardinality(G) <= Cardinality(Y)
  BY <1>1, <1>3, FS_Surjection
<1>6. Cardinality(Z) = Cardinality(Y) + 1
  BY <1>1, <1>4, FS_AddElement
<1> HIDE DEF Z
<1>7. Cardinality(Z) <= Cardinality(G)
  BY <1>2, <1>5, FS_Subset
<1>8. Cardinality(G) \in Nat
  BY <1>5, FS_CardinalityType
<1> QED
  BY <1>1, <1>5, <1>6, <1>7, <1>8

\* The edges of a finite store are finite in number.
LEMMA EdgesFinite ==
    ASSUME NEW S, IsFiniteSet(S), NEW N, N \subseteq DOMAIN Edges(S)
    PROVE  IsFiniteSet(N)
<1> DEFINE L == Linked(S)
           I == {r.id : r \in L}
           f == [r \in L |-> r.id]
<1>1. L \in SUBSET S
  BY DEF Linked
<1>2. f \in Surjection(L, I)
  BY DEF Surjection
<1>3. DOMAIN Edges(S) = I
  BY DEF Edges
<1> HIDE DEF L, I, f
<1>4. IsFiniteSet(L)
  BY <1>1, FS_Subset
<1>5. IsFiniteSet(I)
  BY <1>2, <1>4, FS_Surjection
<1> QED
  BY <1>3, <1>5, FS_Subset

-----------------------------------------------------------------------------
(* One record more *)

\* A draft published into a store that verifies.
Arrives(S, d, T) ==
    /\ IsFiniteSet(S) /\ S \subseteq Drafts /\ Unique(S) /\ Ok(S)
    /\ ~Has(S, d.family, d.id)
    /\ T = S \cup {d}

\* An old record names no newcomer.
LEMMA NewIsUnnamed ==
    ASSUME NEW S, NEW d, NEW T, Arrives(S, d, T), NEW r \in S
    PROVE  /\ \A ref \in Fields(r.family) : \A i \in Listed(r, ref[2]) :
                  ~(ref[3] = d.family /\ i = d.id)
           /\ r.supersedes \notin {None, r.id} => ~(r.family = d.family /\ r.supersedes = d.id)
BY ListedIsThere, SupersededIsThere DEF Arrives

\* The edge of an old record is what it was, unless the newcomer took its id.
LEMMA OldEdge ==
    ASSUME NEW S, NEW d, NEW T, Arrives(S, d, T), NEW n \in DOMAIN Edges(T), n # d.id
    PROVE  \E r \in S : /\ r.id = n /\ r \in Linked(S)
                        /\ n \in DOMAIN Edges(S) /\ Edges(S)[n] = r.supersedes
                        /\ Edges(T)[n] = r.supersedes
<1>1. PICK r \in Linked(T) : r.id = n
  BY DEF Edges
<1>2. r \in S /\ r.supersedes \notin {None, r.id}
  BY <1>1 DEF Arrives, Linked
<1>3. r \in Linked(S)
  <2>1. Has(S, r.family, r.supersedes)
    BY <1>2, SupersededIsThere DEF Arrives
  <2> QED
    BY <1>1, <1>2, <2>1 DEF Linked
<1>4. ~\E x \in S : DuplicateId(S, x)
  BY DEF Arrives, Ok, Accused, Spoils
<1>5. n \in DOMAIN Edges(S) /\ Edges(S)[n] = r.supersedes
  BY <1>1, <1>3, <1>4, EdgeOfRecord DEF Arrives
<1>6. \A q \in Linked(T) : q.id = n => q = r
  BY <1>1, <1>2, <1>4 DEF Arrives, Linked, Unique, DuplicateId
<1>7. ~Overwritten(T, r)
  BY <1>1, <1>6, LineagesDistinct DEF Overwritten
<1>8. (CHOOSE q \in Linked(T) : q.id = n /\ ~Overwritten(T, q)) = r
  BY <1>1, <1>6, <1>7
<1>9. Edges(T)[n] = r.supersedes
  BY <1>8 DEF Edges
<1> QED
  BY <1>1, <1>2, <1>3, <1>5, <1>9

\* The edge at the newcomer's id is the newcomer's, or as old as the others.
LEMMA NewEdge ==
    ASSUME NEW S, NEW d, NEW T, Arrives(S, d, T), d.id \in DOMAIN Edges(T)
    PROVE  \/ d \in Linked(T) /\ Edges(T)[d.id] = d.supersedes
           \/ d.id \in DOMAIN Edges(S) /\ Edges(T)[d.id] = Edges(S)[d.id]
<1> DEFINE e == CHOOSE q \in Linked(T) : q.id = d.id /\ ~Overwritten(T, q)
<1>1. \E q \in Linked(T) : q.id = d.id /\ ~Overwritten(T, q)
  <2>1. PICK c \in Linked(T) : c.id = d.id
    BY DEF Edges
  <2> SUFFICES ASSUME Overwritten(T, c) PROVE \E q \in Linked(T) : q.id = d.id /\ ~Overwritten(T, q)
    BY <2>1
  <2>2. PICK q \in Linked(T), i \in 1..Len(Lineages), j \in 1..Len(Lineages) :
            q.id = c.id /\ c.family = Lineages[i] /\ q.family = Lineages[j] /\ i < j
    BY DEF Overwritten
  <2> SUFFICES ASSUME Overwritten(T, q) PROVE FALSE
    BY <2>1, <2>2
  <2>3. PICK p \in Linked(T), k \in 1..Len(Lineages), l \in 1..Len(Lineages) :
            p.id = q.id /\ q.family = Lineages[k] /\ p.family = Lineages[l] /\ k < l
    BY DEF Overwritten
  <2>4. Len(Lineages) = 5
    BY DEF Lineages
  <2>9. \A a, b \in 1..5 : a < b => Lineages[a] # Lineages[b]
    BY <2>4, LineagesDistinct
  <2>10. {i, j, k, l} \subseteq 1..5 /\ i < j /\ k < l /\ Lineages[j] = Lineages[k]
    BY <2>2, <2>3, <2>4
  <2>5. ~(j < k) /\ ~(k < j)
    BY <2>9, <2>10
  <2>11. i < l
    BY <2>5, <2>10
  <2>12. Lineages[i] # Lineages[l] /\ Lineages[i] # Lineages[j] /\ Lineages[k] # Lineages[l]
    BY <2>9, <2>10, <2>11
  <2>6. c.family # q.family /\ q.family # p.family /\ c.family # p.family
    BY <2>2, <2>3, <2>12
  <2>7. ~\E x \in S : DuplicateId(S, x)
    BY DEF Arrives, Ok, Accused, Spoils
  <2>8. \A x, y \in Linked(T) : x.id = y.id /\ x # d /\ y # d => x.family = y.family
    BY <2>7 DEF Arrives, Linked, DuplicateId
  <2> QED
    BY <2>1, <2>2, <2>3, <2>6, <2>8
<1>2. e \in Linked(T) /\ e.id = d.id
  BY <1>1
<1>3. Edges(T)[d.id] = e.supersedes
  BY DEF Edges
<1> HIDE DEF e
<1>4. CASE e = d
  BY <1>2, <1>3, <1>4
<1>5. CASE e # d
  <2>1. e \in S /\ e.supersedes \notin {None, e.id}
    BY <1>2, <1>5 DEF Arrives, Linked
  <2>2. Has(S, e.family, e.supersedes)
    BY <2>1, SupersededIsThere DEF Arrives
  <2>3. e \in Linked(S)
    BY <1>2, <2>1, <2>2 DEF Linked
  <2>4. ~\E x \in S : DuplicateId(S, x)
    BY DEF Arrives, Ok, Accused, Spoils
  <2> QED
    BY <1>2, <1>3, <2>3, <2>4, EdgeOfRecord DEF Arrives
<1> QED
  BY <1>4, <1>5

\* A cycle through the newcomer's id would have to leave the newcomer's family.
LEMMA NoNewCycle ==
    ASSUME NEW S, NEW d, NEW T, Arrives(S, d, T), NEW r \in S, r.id # d.id
    PROVE  ~OnCycle(T, r)
<1> SUFFICES ASSUME OnCycle(T, r) PROVE FALSE
  OBVIOUS
<1> DEFINE g == Edges(T)
           h == Edges(S)
<1>1. PICK N \in SUBSET DOMAIN g : r.id \in N /\ Loop(g, N)
  BY DEF OnCycle
<1>2. ~OnCycle(S, r)
  BY DEF Arrives, Ok, Accused, Spoils
<1>3. \A n \in N : n # d.id => n \in DOMAIN h /\ h[n] = g[n]
  BY <1>1, OldEdge
<1>4. ASSUME d.id \in N => d.id \in DOMAIN h /\ h[d.id] = g[d.id] PROVE FALSE
  <2>1. \A n \in N : n \in DOMAIN h /\ h[n] = g[n]
    BY <1>3, <1>4
  <2> HIDE DEF g, h
  <2>2. Loop(h, N) /\ N \in SUBSET DOMAIN h /\ r.id \in DOMAIN h
    BY <1>1, <2>1 DEF Loop
  <2> QED
    BY <1>1, <1>2, <2>2 DEF OnCycle, h
<1>5. ASSUME d.id \in N, d \in Linked(T), g[d.id] = d.supersedes PROVE FALSE
  <2> DEFINE Kin(n) == \E x \in S : x.id = n /\ x.family = d.family
             F == {n \in N : Kin(n)}
  <2>1. d.id \notin F
    BY DEF Arrives, Has
  <2>2. g[d.id] \in F
    <3>1. d.supersedes \notin {None, d.id} /\ Has(T, d.family, d.supersedes)
      BY <1>5 DEF Linked
    <3>2. Kin(d.supersedes)
      BY <3>1 DEF Arrives, Has
    <3>3. g[d.id] \in N
      BY <1>1, <1>5 DEF Loop
    <3> QED
      BY <1>5, <3>2, <3>3
  <2>3. ASSUME NEW n \in F PROVE g[n] \in F
    <3>1. n # d.id /\ n \in DOMAIN Edges(T)
      BY <1>1, <2>1
    <3>2. PICK x \in S : x.id = n /\ x \in Linked(S) /\ g[n] = x.supersedes
      BY <3>1, OldEdge
    <3>3. x.family = d.family
      <4>1. ~\E y \in S : DuplicateId(S, y)
        BY DEF Arrives, Ok, Accused, Spoils
      <4> QED
        BY <3>2, <4>1 DEF DuplicateId
    <3>4. Kin(x.supersedes)
      <4>1. Has(S, x.family, x.supersedes)
        BY <3>2 DEF Linked
      <4> QED
        BY <3>3, <4>1 DEF Has
    <3>5. g[n] \in N
      BY <1>1 DEF Loop
    <3> QED
      BY <3>2, <3>4, <3>5
  <2>4. IsFiniteSet(N)
    <3>1. IsFiniteSet(T)
      BY FS_AddElement DEF Arrives
    <3> QED
      BY <1>1, <3>1, EdgesFinite
  <2>5. \A n \in N : \E m \in N : g[m] = n
    BY <1>1 DEF Loop
  <2>6. F \in SUBSET N
    OBVIOUS
  <2> HIDE DEF F, g
  <2> QED
    BY <1>5, <2>1, <2>2, <2>3, <2>4, <2>5, <2>6, NoLeak
<1> QED
  BY <1>1, <1>4, <1>5, NewEdge

\* Nothing else is held against an old record that does not share the newcomer's id.
LEMMA OldIsUnblamed ==
    ASSUME NEW S, NEW d, NEW T, Arrives(S, d, T), NEW r \in S, r.id # d.id
    PROVE  ~Accused(T, r)
<1>1. ~Accused(S, r) /\ Ok(S) /\ S \subseteq T /\ d.id # r.id
  BY DEF Arrives, Ok
<1>2. \A n \in Names(r) : Has(T, n[1], n[2])
  BY <1>1, NamedIsThere DEF Has
<1>3. ~Dangling(T, r) /\ ~CrossType(T, r)
  BY <1>2 DEF Dangling, CrossType, Has, Owned
<1>11. \A x \in S : /\ \A ref \in Fields(x.family) : \A i \in Listed(x, ref[2]) :
                           ~(ref[3] = d.family /\ i = d.id)
                    /\ x.supersedes \notin {None, x.id} =>
                           ~(x.family = d.family /\ x.supersedes = d.id)
  BY NewIsUnnamed
<1>12. \A x \in T : x \in S \/ x = d
  BY DEF Arrives
<1>4. ~PinMismatch(T, r)
  <2> SUFFICES ASSUME NEW ref \in Fields(r.family), NEW i \in 1..Len(r.refs[ref[2]]), NEW q \in T,
                      q.family = ref[3], q.id = r.refs[ref[2]][i].id,
                      r.refs[ref[2]][i].pin \notin {None, q.sha}
               PROVE  FALSE
    BY DEF PinMismatch
  <2>1. q.id \in Listed(r, ref[2])
    BY DEF Listed
  <2>2. q \in S
    BY <1>11, <1>12, <2>1
  <2>3. PinMismatch(S, r)
    BY <2>2 DEF PinMismatch
  <2> QED
    BY <1>1, <2>3 DEF Accused, Spoils
<1>5. ~DuplicateId(T, r) /\ ~SelfReference(r) /\ ~DuplicateReference(r)
  BY <1>1 DEF Arrives, DuplicateId, Accused, Spoils
<1>6. ~OneWayLink(T, r)
  <2> SUFFICES ASSUME NEW link \in TwoWay, NEW q \in T, r.family = link[1], q.family = link[3],
                      q.id \in Listed(r, link[2]), r.id \notin Listed(q, link[4])
               PROVE  FALSE
    BY DEF OneWayLink
  <2>1. <<link[1], link[2], link[3]>> \in Fields(r.family)
    BY DEF TwoWay, Fields, References, CoreReferences
  <2>2. q \in S
    BY <1>11, <1>12, <2>1
  <2>3. OneWayLink(S, r)
    BY <2>2 DEF OneWayLink
  <2> QED
    BY <1>1, <2>3 DEF Accused, Spoils
<1>7. ~ScopeMismatch(T, r)
  <2> SUFFICES ASSUME NEW anchor \in Anchors, r.family = anchor[1], r \in Linked(T), NEW q \in T,
                      q.family = r.family, q.id = r.supersedes,
                      Target(r, anchor[2]) # Target(q, anchor[2])
               PROVE  FALSE
    BY DEF ScopeMismatch
  <2>1. q \in S
    BY <1>11, <1>12 DEF Linked
  <2>2. r \in Linked(S)
    BY <2>1 DEF Linked, Has
  <2>3. ScopeMismatch(S, r)
    BY <2>1, <2>2 DEF ScopeMismatch
  <2> QED
    BY <1>1, <2>3 DEF Accused, Spoils
<1>13. \A x \in S : /\ x.family = "analysis" => Target(x, "observation") \in Listed(x, "observation")
                    /\ x.family = "observation" => Target(x, "run") \in Listed(x, "run")
                    /\ x.family = "receipt" => Target(x, "decision") \in Listed(x, "decision")
  BY PinnedListsOne, DraftsAssumption DEF Arrives
<1>8. ~CaseIncomplete(T, r)
  <2> SUFFICES ASSUME r.family = "case" PROVE ~CaseIncomplete(T, r)
    BY DEF CaseIncomplete
  <2>1. ~CaseIncomplete(S, r)
    BY <1>1 DEF Accused, Spoils
  <2>2. ASSUME NEW a \in T, a.family = "analysis", a.id \in Listed(r, "analyses") PROVE ~ChainBroken(T, r, a)
    <3>1. a \in S
      BY <1>11, <1>12, <2>2, CaseFields
    <3>2. ~ChainBroken(S, r, a)
      BY <2>1, <2>2, <3>1 DEF CaseIncomplete
    <3>3. ASSUME NEW o \in T, o.family = "observation", o.id = Target(a, "observation") PROVE o \in S
      <4>1. <<"analysis", "observation", "observation">> \in Fields(a.family)
        BY <2>2, ArgumentFields
      <4>2. o.id \in Listed(a, "observation")
        BY <1>13, <2>2, <3>1, <3>3
      <4>3. ~("observation" = d.family /\ o.id = d.id)
        BY <1>11, <3>1, <4>1, <4>2
      <4> QED
        BY <1>12, <3>3, <4>3
    <3>4. ASSUME NEW o \in S, o.family = "observation",
                 NEW run \in T, run.family = "run", run.id = Target(o, "run")
          PROVE  run \in S
      <4>1. <<"observation", "run", "run">> \in Fields(o.family)
        BY <3>4, ArgumentFields
      <4>2. run.id \in Listed(o, "run")
        BY <1>13, <3>4
      <4>3. ~("run" = d.family /\ run.id = d.id)
        BY <1>11, <3>4, <4>1, <4>2
      <4> QED
        BY <1>12, <3>4, <4>3
    <3> QED
      BY <3>2, <3>3, <3>4 DEF ChainBroken
  <2>3. ASSUME NEW c \in T, c.family = "claim", c.id \in Listed(r, "claims")
        PROVE  Listed(c, "supporting_evidence") \subseteq Listed(r, "evidence")
    <3>1. c \in S
      BY <1>11, <1>12, <2>3, CaseFields
    <3> QED
      BY <2>1, <2>3, <3>1 DEF CaseIncomplete
  <2>4. ASSUME NEW e \in T, e.family = "evidence", e.id \in Listed(r, "evidence")
        PROVE  Listed(e, "claim_ids") \subseteq Listed(r, "claims")
    <3>1. e \in S
      BY <1>11, <1>12, <2>4, CaseFields
    <3> QED
      BY <2>1, <2>4, <3>1 DEF CaseIncomplete
  <2> QED
    BY <2>2, <2>3, <2>4 DEF CaseIncomplete
<1>9. ~UnauthorizedExport(T, r)
  <2> SUFFICES ASSUME r.family = "receipt", NEW q \in T, q.family = "decision",
                      q.id = Target(r, "decision"), q.outcome = "deny" \/ r.mode # q.mode
               PROVE  FALSE
    BY DEF UnauthorizedExport
  <2>1. q \in S
    BY <1>11, <1>12, <1>13, CaseFields
  <2>2. UnauthorizedExport(S, r)
    BY <2>1 DEF UnauthorizedExport
  <2> QED
    BY <1>1, <2>2 DEF Accused, Spoils
<1>10. ~OnCycle(T, r)
  BY NoNewCycle
<1> QED
  BY <1>3, <1>4, <1>5, <1>6, <1>7, <1>8, <1>9, <1>10 DEF Accused, Spoils

\* What is published into a store that verifies spoils nothing but itself, or the
\* record whose id it took: references point backward only (check_record_graph).
THEOREM NewcomersAreBlamed == Spec => NewcomerBlamed
<1>1. TypeOK /\ TypeOK' /\ Finite /\ [Next]_vars =>
          (Ok(published) =>
              \A r \in Blamed(published') : \E d \in published' \ published : r.id = d.id)
  <2>1. ASSUME TypeOK, Finite, NEW d \in Drafts, Publish(d), Ok(published),
               NEW r \in Blamed(published')
        PROVE  \E e \in published' \ published : r.id = e.id
    <3>1. Arrives(published, d, published')
      BY <2>1 DEF Arrives, TypeOK, Finite, Publish
    <3>2. d \in published' \ published
      BY <2>1 DEF Publish, Has
    <3>3. r \in published' /\ Accused(published', r)
      BY <2>1 DEF Blamed
    <3>4. r = d \/ r \in published
      BY <2>1, <3>3 DEF Publish
    <3>5. r.id = d.id
      BY <3>1, <3>3, <3>4, OldIsUnblamed
    <3> QED
      BY <3>2, <3>5
  <2>2. ASSUME UNCHANGED vars, Ok(published) PROVE Blamed(published') = {}
    BY <2>2 DEF vars, Blamed, Ok
  <2> QED
    BY <2>1, <2>2 DEF Next, Drafts
<1> QED
  BY <1>1, Typed, StoreFinite, PTL DEF Spec, NewcomerBlamed
=============================================================================
