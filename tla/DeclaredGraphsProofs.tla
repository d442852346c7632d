------------------------- MODULE DeclaredGraphsProofs -------------------------
(* Algorithms over what callers declare, and what rests on them:              *)
(* _find_lineage_cycles is right on every lineage, of any number of records;  *)
(* the verdicts on machine learning cases mean what they say, for any number  *)
(* of sections; so do the synthetic runs and the claims, for any number of    *)
(* rows and any evidence; and the research memory carries its evidence,       *)
(* offers only what its session can justify, clusters cases for reasons and   *)
(* lints its heuristics soundly, however many of them there are.              *)
EXTENDS LineageWalk, MLStudy, HeuristicRegistry, FiniteSetTheorems, WellFoundedInduction, TLAPS

\* The path is a chain of edges that leads to node, and the records marked 1.
Chained ==
    pc = "inner" =>
        /\ \A n \in Ids : state[n] = 1 <=> \E i \in 1..Len(path) : path[i] = n
        /\ \A i \in 1..(Len(path) - 1) :
              path[i] \in DOMAIN edges /\ edges[path[i]] = path[i + 1]
        /\ Len(path) > 0 =>
              node = IF path[Len(path)] \in DOMAIN edges
                     THEN edges[path[Len(path)]] ELSE None

\* Between two walks no record is on a path, and at the end none is unvisited.
Settled ==
    /\ pc # "inner" => \A n \in Ids : state[n] # 1
    /\ pc = "done" => Starts = {}

\* What is named is done with.
NamedIsDone == \A i \in 1..Len(cycles) : \A n \in cycles[i] : state[n] = 2

\* A cycle any record of which is done with has been named.
DoneIsNamed ==
    \A N \in SUBSET DOMAIN edges :
        Cycle(edges, N) /\ (\E n \in N : state[n] = 2) =>
            \E i \in 1..Len(cycles) : cycles[i] = N

IInv ==
    /\ TypeOK
    /\ Chained
    /\ Settled
    /\ OnlyCyclesNamed
    /\ NamedIsDone
    /\ NamedOnce
    /\ DoneIsNamed

-----------------------------------------------------------------------------
(* The path *)

\* What a lineage is: a partial function on the records.
LEMMA LineageShape ==
    ASSUME edges \in Lineages
    PROVE  DOMAIN edges \subseteq Ids /\ \A n \in DOMAIN edges : edges[n] \in Ids
BY DEF Lineages, Graphs

\* A set that the edges do not leave contains the path from where it enters the
\* set, and the record the path leads to.
LEMMA PathStaysIn ==
    ASSUME TypeOK, Chained, pc = "inner",
           NEW S, \A n \in S : n \in DOMAIN edges /\ edges[n] \in S,
           NEW j \in 1..Len(path), path[j] \in S
    PROVE  /\ \A i \in j..Len(path) : path[i] \in S
           /\ node \in S
<1> DEFINE Bad == {i \in j..Len(path) : path[i] \notin S}
<1>0. Len(path) \in Nat /\ path \in Seq(Ids)
  BY DEF TypeOK
<1>1. Bad = {}
  <2> SUFFICES ASSUME Bad # {} PROVE FALSE
    OBVIOUS
  <2>1. Bad \subseteq Nat
    BY <1>0
  <2>2. PICK b \in Bad : \A i \in Bad : ~(<<i, b>> \in OpToRel(<, Nat))
    BY <2>1, NatLessThanWellFounded, WFMin
  <2>3. b \in j..Len(path) /\ path[b] \notin S /\ b # j
    OBVIOUS
  <2>4. b - 1 \in j..Len(path) /\ b - 1 < b
    BY <1>0, <2>3
  <2>5. b - 1 \notin Bad
    <3> SUFFICES ASSUME b - 1 \in Bad PROVE FALSE
      OBVIOUS
    <3>1. ~(<<b - 1, b>> \in OpToRel(<, Nat))
      BY <2>2
    <3>2. b - 1 \in Nat /\ b \in Nat
      BY <2>1
    <3> QED
      BY <2>4, <3>1, <3>2, SMT DEF OpToRel
  <2>6. path[b - 1] \in S
    BY <2>4, <2>5
  <2>7. b - 1 \in 1..(Len(path) - 1) /\ (b - 1) + 1 = b
    BY <1>0, <2>3, <2>4
  <2>8. edges[path[b - 1]] = path[b]
    BY <2>7 DEF Chained
  <2> QED
    BY <2>3, <2>6, <2>8
<1>2. \A i \in j..Len(path) : path[i] \in S
  BY <1>1
<1>3. path[Len(path)] \in S /\ Len(path) > 0
  BY <1>0, <1>2
<1>4. node = edges[path[Len(path)]]
  BY <1>3 DEF Chained
<1> QED
  BY <1>2, <1>3, <1>4

\* Where the walk has come back to its own path, it has closed a cycle.
LEMMA ClosedIsCycle ==
    ASSUME TypeOK, Chained, pc = "inner", node # None, state[node] = 1
    PROVE  /\ Cycle(edges, Closed)
           /\ node \in Closed
           /\ \A n \in Closed : \E i \in 1..Len(path) : path[i] = n
<1>0. /\ Len(path) \in Nat /\ path \in Seq(Ids) /\ node \in Ids
      /\ \A n \in DOMAIN edges : edges[n] \in Ids
  BY LineageShape DEF TypeOK
<1>1. PICK k \in 1..Len(path) : path[k] = node
  BY <1>0 DEF Chained
<1>2. Len(path) > 0 /\ Len(path) \in 1..Len(path)
  BY <1>0, <1>1
<1>3. path[Len(path)] \in DOMAIN edges /\ edges[path[Len(path)]] = node
  BY <1>2 DEF Chained
<1>4. node \in Closed
  BY <1>1 DEF Closed
<1>5. path[Len(path)] \in Closed
  BY <1>0, <1>1, <1>2 DEF Closed
<1>6. \A n \in Closed : \E j \in 1..Len(path) :
          path[j] = n /\ \E h \in 1..j : path[h] = node
  BY DEF Closed
<1>7. ASSUME NEW n \in Closed
      PROVE  n \in DOMAIN edges /\ edges[n] \in Closed /\ \E m \in Closed : edges[m] = n
  <2>1. PICK j \in 1..Len(path) : path[j] = n /\ \E h \in 1..j : path[h] = node
    BY <1>6
  <2>2. PICK h \in 1..j : path[h] = node
    BY <2>1
  <2>3. n \in DOMAIN edges /\ edges[n] \in Closed
    <3>1. CASE j = Len(path)
      BY <1>3, <1>4, <2>1, <3>1
    <3>2. CASE j # Len(path)
      <4>1. j \in 1..(Len(path) - 1) /\ j + 1 \in 1..Len(path) /\ h \in 1..(j + 1)
        BY <1>0, <2>1, <2>2, <3>2
      <4>2. path[j + 1] \in Closed
        BY <2>2, <4>1 DEF Closed
      <4> QED
        BY <2>1, <4>1, <4>2 DEF Chained
    <3> QED
      BY <3>1, <3>2
  <2>4. \E m \in Closed : edges[m] = n
    <3>1. CASE h = j
      BY <1>3, <1>5, <2>1, <2>2, <3>1
    <3>2. CASE h # j
      <4>1. j - 1 \in 1..(Len(path) - 1) /\ j - 1 \in 1..Len(path) /\ h \in 1..(j - 1)
            /\ (j - 1) + 1 = j
        BY <1>0, <2>1, <2>2, <3>2
      <4>2. path[j - 1] \in Closed
        BY <2>2, <4>1 DEF Closed
      <4> QED
        BY <2>1, <4>1, <4>2 DEF Chained
    <3> QED
      BY <3>1, <3>2
  <2> QED
    BY <2>3, <2>4
<1>8. Loop(edges, Closed)
  BY <1>4, <1>7 DEF Loop
<1>9. ASSUME NEW M \in SUBSET Closed, Loop(edges, M) PROVE M = Closed
  <2>1. \A n \in M : n \in DOMAIN edges /\ edges[n] \in M
    BY <1>9 DEF Loop
  <2>2. PICK m \in M : TRUE
    BY <1>9 DEF Loop
  <2>3. PICK j \in 1..Len(path) : path[j] = m
    BY <1>6, <2>2
  <2>4. node \in M
    BY <2>1, <2>2, <2>3, PathStaysIn
  <2>5. ASSUME NEW n \in Closed PROVE n \in M
    <3>1. PICK i \in 1..Len(path) : path[i] = n /\ \E h \in 1..i : path[h] = node
      BY <1>6
    <3>2. PICK h \in 1..i : path[h] = node
      BY <3>1
    <3>3. h \in 1..Len(path) /\ i \in h..Len(path)
      BY <1>0, <3>1, <3>2
    <3> QED
      BY <2>1, <2>4, <3>1, <3>2, <3>3, PathStaysIn
  <2> QED
    BY <2>5
<1> QED
  BY <1>4, <1>6, <1>8, <1>9 DEF Cycle

-----------------------------------------------------------------------------
(* The steps *)

LEMMA InitIInv == ASSUME Init PROVE IInv
<1>1. \A n \in Ids : state[n] = 0
  BY DEF Init
<1>2. edges \in Lineages /\ DOMAIN edges \subseteq Ids
  BY LineageShape DEF Init
<1>3. TypeOK
  BY DEF Init, TypeOK
<1>4. Chained /\ Settled /\ OnlyCyclesNamed /\ NamedIsDone /\ NamedOnce
  BY <1>1 DEF Init, Chained, Settled, OnlyCyclesNamed, NamedIsDone, NamedOnce
<1>5. DoneIsNamed
  <2>1. \A N \in SUBSET DOMAIN edges : \A n \in N : state[n] # 2
    BY <1>1, <1>2
  <2> QED
    BY <2>1 DEF DoneIsNamed
<1> QED
  BY <1>3, <1>4, <1>5 DEF IInv

\* A walk begins with an empty path.
LEMMA BeginIInv == ASSUME IInv, Begin PROVE IInv'
<1>1. pc = "outer" /\ pc' = "inner" /\ path' = <<>> /\ node' \in Starts
      /\ UNCHANGED <<edges, state, cycles>>
  BY DEF Begin
<1>2. TypeOK'
  BY <1>1, LineageShape DEF IInv, TypeOK, Starts
<1>3. Chained' /\ Settled'
  BY <1>1 DEF IInv, Chained, Settled, TypeOK
<1>4. OnlyCyclesNamed' /\ NamedIsDone' /\ NamedOnce' /\ DoneIsNamed'
  BY <1>1 DEF IInv, OnlyCyclesNamed, NamedIsDone, NamedOnce, DoneIsNamed
<1> QED
  BY <1>2, <1>3, <1>4 DEF IInv

\* A record is put at the end of the chain.
LEMMA VisitIInv == ASSUME IInv, Visit PROVE IInv'
<1>1. /\ pc = "inner" /\ node # None /\ state[node] = 0
      /\ state' = [state EXCEPT ![node] = 1]
      /\ path' = Append(path, node)
      /\ node' = IF node \in DOMAIN edges THEN edges[node] ELSE None
      /\ UNCHANGED <<edges, cycles, pc>>
  BY DEF Visit, Unvisited
<1>2. TypeOK /\ Chained /\ node \in Ids /\ path \in Seq(Ids) /\ Len(path) \in Nat
  BY <1>1 DEF IInv, TypeOK
<1>3. TypeOK'
  BY <1>1, <1>2, LineageShape DEF TypeOK
<1>4. /\ Len(path') = Len(path) + 1
      /\ path'[Len(path) + 1] = node
      /\ \A i \in 1..Len(path) : path'[i] = path[i]
  BY <1>1, <1>2
<1>5. /\ \A n \in Ids : n # node => state'[n] = state[n]
      /\ state'[node] = 1
  BY <1>1, <1>2 DEF TypeOK
<1>6. Chained'
  <2>1. \A n \in Ids : state'[n] = 1 <=> \E i \in 1..Len(path') : path'[i] = n
    <3> TAKE n \in Ids
    <3>1. state[n] = 1 <=> \E i \in 1..Len(path) : path[i] = n
      BY <1>1, <1>2 DEF Chained
    <3>2. (\E i \in 1..Len(path') : path'[i] = n)
             <=> (n = node \/ \E i \in 1..Len(path) : path[i] = n)
      BY <1>2, <1>4
    <3> QED
      BY <1>5, <3>1, <3>2
  <2>2. \A i \in 1..(Len(path') - 1) :
            path'[i] \in DOMAIN edges' /\ edges'[path'[i]] = path'[i + 1]
    <3> TAKE i \in 1..(Len(path') - 1)
    <3>1. i \in 1..Len(path) /\ path'[i] = path[i]
      BY <1>2, <1>4
    <3>2. CASE i = Len(path)
      <4>1. path[i] \in DOMAIN edges /\ node = edges[path[i]]
        BY <1>1, <1>2, <3>1, <3>2 DEF Chained
      <4> QED
        BY <1>1, <1>4, <3>1, <3>2, <4>1
    <3>3. CASE i # Len(path)
      <4>1. i \in 1..(Len(path) - 1) /\ i + 1 \in 1..Len(path)
        BY <1>2, <3>1, <3>3
      <4>2. path[i] \in DOMAIN edges /\ edges[path[i]] = path[i + 1]
        BY <1>1, <1>2, <4>1 DEF Chained
      <4> QED
        BY <1>1, <1>4, <3>1, <4>1, <4>2
    <3> QED
      BY <3>2, <3>3
  <2>3. path'[Len(path')] = node
    BY <1>2, <1>4
  <2> QED
    BY <1>1, <2>1, <2>2, <2>3 DEF Chained
<1>7. Settled'
  BY <1>1 DEF Settled
<1>8. \A n \in Ids : state'[n] = 2 <=> state[n] = 2
  BY <1>1, <1>2, <1>5
<1>9. OnlyCyclesNamed' /\ NamedOnce'
  BY <1>1 DEF IInv, OnlyCyclesNamed, NamedOnce
<1>10. NamedIsDone'
  BY <1>1, <1>2, <1>8 DEF IInv, NamedIsDone, TypeOK
<1>11. DoneIsNamed'
  <2>1. DOMAIN edges \subseteq Ids
    BY <1>2, LineageShape DEF TypeOK
  <2> QED
    BY <1>1, <1>8, <2>1 DEF IInv, DoneIsNamed
<1> QED
  BY <1>3, <1>6, <1>7, <1>9, <1>10, <1>11 DEF IInv

\* A walk ends: a closed path is a cycle not named before, and any cycle the
\* path touches is that one.
LEMMA StopIInv == ASSUME IInv, Stop PROVE IInv'
<1> DEFINE OnPath(n) == \E i \in 1..Len(path) : path[i] = n
<1>1. /\ pc = "inner" /\ pc' = "outer" /\ ~Unvisited
      /\ cycles' = Report /\ state' = Demote
      /\ UNCHANGED <<edges, path, node>>
  BY DEF Stop
<1>2. TypeOK /\ Chained /\ path \in Seq(Ids) /\ Len(path) \in Nat
      /\ cycles \in Seq(SUBSET Ids) /\ Len(cycles) \in Nat
      /\ DOMAIN edges \subseteq Ids
  BY LineageShape DEF IInv, TypeOK
<1>3. \A n \in Ids : state'[n] = IF OnPath(n) THEN 2 ELSE state[n]
  BY <1>1 DEF Demote
<1>4. \A n \in Ids : state[n] = 1 <=> OnPath(n)
  BY <1>1, <1>2 DEF Chained
<1>5. \A n \in Ids : state'[n] = 2 <=> (state[n] = 2 \/ OnPath(n))
  BY <1>3
<1>6. \A n \in Ids : state'[n] # 1
  BY <1>3, <1>4
<1>7. state' \in [Ids -> {0, 1, 2}]
  BY <1>1, <1>2 DEF Demote, TypeOK
<1>8. Chained' /\ Settled'
  BY <1>1, <1>6 DEF Chained, Settled
<1>9. CASE node # None /\ state[node] = 1
  <2>1. cycles' = Append(cycles, Closed)
    BY <1>1, <1>9 DEF Report
  <2>2. /\ Cycle(edges, Closed) /\ node \in Closed
        /\ \A n \in Closed : OnPath(n)
    BY <1>1, <1>2, <1>9, ClosedIsCycle
  <2>3. Closed \subseteq Ids
    BY <1>2 DEF Closed
  <2>4. /\ Len(cycles') = Len(cycles) + 1
        /\ cycles'[Len(cycles) + 1] = Closed
        /\ \A i \in 1..Len(cycles) : cycles'[i] = cycles[i]
    BY <1>2, <2>1, <2>3
  <2>5. TypeOK'
    BY <1>1, <1>2, <1>7, <2>1, <2>3 DEF TypeOK
  <2>6. \A i \in 1..Len(cycles') : i \in 1..Len(cycles) \/ i = Len(cycles) + 1
    BY <1>2, <2>4
  <2>7. OnlyCyclesNamed'
    BY <1>1, <2>2, <2>4, <2>6 DEF IInv, OnlyCyclesNamed
  <2>8. NamedIsDone'
    <3>1. \A i \in 1..Len(cycles) : \A n \in cycles[i] : n \in Ids /\ state'[n] = 2
      BY <1>2, <1>5 DEF IInv, NamedIsDone
    <3>2. \A n \in Closed : state'[n] = 2
      BY <1>5, <2>2, <2>3
    <3> QED
      BY <2>4, <2>6, <3>1, <3>2 DEF NamedIsDone
  <2>9. NamedOnce'
    <3>1. \A i \in 1..Len(cycles) : cycles[i] \cap Closed = {}
      <4> SUFFICES ASSUME NEW i \in 1..Len(cycles), NEW n \in cycles[i], n \in Closed
                   PROVE FALSE
        OBVIOUS
      <4>1. state[n] = 2 /\ n \in Ids
        BY <1>2 DEF IInv, NamedIsDone
      <4> QED
        BY <1>4, <2>2, <4>1
    <3>2. \A i, j \in 1..Len(cycles) : i # j => cycles[i] \cap cycles[j] = {}
      BY DEF IInv, NamedOnce
    <3>3. SUFFICES ASSUME NEW i \in 1..Len(cycles'), NEW j \in 1..Len(cycles'), i # j
                   PROVE  cycles'[i] \cap cycles'[j] = {}
      BY DEF NamedOnce
    <3>4. CASE i = Len(cycles) + 1
      BY <2>4, <2>6, <3>1, <3>3, <3>4
    <3>5. CASE i # Len(cycles) + 1
      BY <2>4, <2>6, <3>1, <3>2, <3>3, <3>5
    <3> QED
      BY <3>4, <3>5
  <2>10. DoneIsNamed'
    <3> SUFFICES ASSUME NEW N \in SUBSET DOMAIN edges, Cycle(edges, N),
                        NEW n \in N, state'[n] = 2
                 PROVE  \E i \in 1..Len(cycles') : cycles'[i] = N
      BY <1>1 DEF DoneIsNamed
    <3>1. CASE \E m \in N : state[m] = 2
      <4>1. PICK i \in 1..Len(cycles) : cycles[i] = N
        BY <3>1 DEF IInv, DoneIsNamed
      <4>2. i \in 1..Len(cycles')
        BY <1>2, <2>4, <4>1
      <4> QED
        BY <2>4, <4>1, <4>2
    <3>2. CASE ~\E m \in N : state[m] = 2
      <4>1. PICK j \in 1..Len(path) : path[j] = n
        BY <1>2, <1>5, <3>2
      <4>2. \A m \in N : m \in DOMAIN edges /\ edges[m] \in N
        BY DEF Cycle, Loop
      <4>3. node \in N
        BY <1>1, <1>2, <4>1, <4>2, PathStaysIn
      <4>4. Closed \subseteq N
        <5> SUFFICES ASSUME NEW m \in Closed PROVE m \in N
          OBVIOUS
        <5>1. PICK i \in 1..Len(path) : path[i] = m /\ \E h \in 1..i : path[h] = node
          BY DEF Closed
        <5>2. PICK h \in 1..i : path[h] = node
          BY <5>1
        <5>3. h \in 1..Len(path) /\ i \in h..Len(path)
          BY <1>2, <5>1, <5>2
        <5> QED
          BY <1>1, <1>2, <4>2, <4>3, <5>1, <5>2, <5>3, PathStaysIn
      <4>5. Closed = N
        BY <2>2, <4>4 DEF Cycle
      <4>6. Len(cycles) + 1 \in 1..Len(cycles')
        BY <1>2, <2>4
      <4> QED
        BY <2>4, <4>5, <4>6
    <3> QED
      BY <3>1, <3>2
  <2> QED
    BY <1>8, <2>5, <2>7, <2>8, <2>9, <2>10 DEF IInv
<1>10. CASE ~(node # None /\ state[node] = 1)
  <2>1. cycles' = cycles
    BY <1>1, <1>10 DEF Report
  <2>2. TypeOK'
    BY <1>1, <1>2, <1>7, <2>1 DEF TypeOK
  <2>3. OnlyCyclesNamed' /\ NamedOnce'
    BY <1>1, <2>1 DEF IInv, OnlyCyclesNamed, NamedOnce
  <2>4. NamedIsDone'
    BY <1>2, <1>5, <2>1 DEF IInv, NamedIsDone
  <2>5. DoneIsNamed'
    <3> SUFFICES ASSUME NEW N \in SUBSET DOMAIN edges, Cycle(edges, N),
                        NEW n \in N, state'[n] = 2
                 PROVE  \E m \in N : state[m] = 2
      BY <1>1, <2>1 DEF IInv, DoneIsNamed
    <3>1. CASE state[n] = 2
      BY <3>1
    <3>2. CASE state[n] # 2
      <4>1. PICK j \in 1..Len(path) : path[j] = n
        BY <1>2, <1>5, <3>2
      <4>2. \A m \in N : m \in DOMAIN edges /\ edges[m] \in N
        BY DEF Cycle, Loop
      <4>3. node \in N
        BY <1>1, <1>2, <4>1, <4>2, PathStaysIn
      <4>4. node \in Ids /\ node # None
        BY <1>2, <4>3, IdsAssumption DEF None
      <4>5. state[node] = 2
        BY <1>1, <1>2, <1>10, <4>4 DEF Unvisited, TypeOK
      <4> QED
        BY <4>3, <4>5
    <3> QED
      BY <3>1, <3>2
  <2> QED
    BY <1>8, <2>2, <2>3, <2>4, <2>5 DEF IInv
<1> QED
  BY <1>9, <1>10

LEMMA ReturnIInv == ASSUME IInv, Return PROVE IInv'
<1>1. pc = "outer" /\ pc' = "done" /\ Starts = {}
      /\ UNCHANGED <<edges, state, path, node, cycles>>
  BY DEF Return
<1>2. Starts' = Starts
  BY <1>1 DEF Starts
<1> QED
  BY <1>1, <1>2 DEF IInv, TypeOK, Chained, Settled, OnlyCyclesNamed, NamedIsDone,
                   NamedOnce, DoneIsNamed

LEMMA StutterIInv == ASSUME IInv, UNCHANGED vars PROVE IInv'
BY DEF vars, IInv, TypeOK, Chained, Settled, Starts, OnlyCyclesNamed, NamedIsDone,
       NamedOnce, DoneIsNamed

LEMMA Invariance == Spec => []IInv
<1>1. Init => IInv
  BY InitIInv
<1>2. IInv /\ [Next]_vars => IInv'
  BY BeginIInv, VisitIInv, StopIInv, ReturnIInv, StutterIInv DEF Next
<1> QED
  BY <1>1, <1>2, PTL DEF Spec

-----------------------------------------------------------------------------
(* The results *)

\* The walk keeps its types on every lineage.
THEOREM WalkTyped == Spec => []TypeOK
<1>1. IInv => TypeOK
  BY DEF IInv
<1> QED
  BY <1>1, Invariance, PTL

\* Whatever the lineage, only cycles are named, and each of them whole.
THEOREM WalkIsSound == Spec => []OnlyCyclesNamed
<1>1. IInv => OnlyCyclesNamed
  BY DEF IInv
<1> QED
  BY <1>1, Invariance, PTL

\* Whatever the lineage, no record is in two of the reports.
LEMMA WalkReportsOnce == Spec => []NamedOnce
<1>1. IInv => NamedOnce
  BY DEF IInv
<1> QED
  BY <1>1, Invariance, PTL

\* Whatever the lineage, the walk returns with all its cycles and nothing else.
LEMMA WalkIsComplete == Spec => []EveryCycleNamed
<1>1. ASSUME IInv, pc = "done", NEW N \in SUBSET DOMAIN edges, Cycle(edges, N)
      PROVE  \E i \in 1..Len(cycles) : cycles[i] = N
  <2>1. PICK n \in N : TRUE
    BY <1>1 DEF Cycle, Loop
  <2>2. n \in DOMAIN edges /\ n \in Ids
    BY <1>1, LineageShape DEF IInv, TypeOK
  <2>3. state[n] # 0 /\ state[n] # 1 /\ state[n] \in {0, 1, 2}
    BY <1>1, <2>2 DEF IInv, Settled, Starts, TypeOK
  <2> QED
    BY <1>1, <2>1, <2>3 DEF IInv, DoneIsNamed
<1>2. ASSUME IInv, NEW i \in 1..Len(cycles)
      PROVE  cycles[i] \in SUBSET DOMAIN edges /\ Cycle(edges, cycles[i])
  BY <1>2 DEF IInv, OnlyCyclesNamed, Cycle, Loop
<1>3. IInv => EveryCycleNamed
  BY <1>1, <1>2 DEF EveryCycleNamed
<1> QED
  BY <1>3, Invariance, PTL

\* Whatever the lineage, the report is exact.
THEOREM WalkIsExact == Spec => []CyclesNamed
BY WalkReportsOnce, WalkIsComplete, PTL DEF CyclesNamed

-----------------------------------------------------------------------------
(* Claims *)

\* Where the levels stand on the path.
LEMMA RankOf ==
    /\ Rank("engineering_verified") = 2
    /\ Rank("data_accepted") = 3
    /\ Rank("empirically_supported") = 5
    /\ Path[2] = "engineering_verified" /\ Path[3] = "data_accepted"
    /\ Path[5] = "empirically_supported"
<1>1. DOMAIN Path = 1 .. 7
  BY DEF Path
<1>2. \A n \in 1 .. 7 : /\ Path[n] = "engineering_verified" <=> n = 2
                        /\ Path[n] = "data_accepted" <=> n = 3
                        /\ Path[n] = "empirically_supported" <=> n = 5
  BY DEF Path
<1> QED
  BY <1>1, <1>2 DEF Rank

\* The least of some numbers
LEMMA MinIs ==
    ASSUME NEW X \in SUBSET Int, NEW x \in X, \A y \in X : x <= y
    PROVE  Min(X) = x
<1>1. \A z \in X : (\A y \in X : z <= y) => z = x
  <2> SUFFICES ASSUME NEW z \in X, \A y \in X : z <= y PROVE z = x
    OBVIOUS
  <2>1. x <= z /\ z <= x
    OBVIOUS
  <2> QED
    BY <2>1
<1> QED
  BY <1>1 DEF Min

\* The lowest of some ceilings, read off the path.
LEMMA LowestOf ==
    ASSUME NEW M \in SUBSET {"engineering_verified", "data_accepted", "empirically_supported"},
           NEW m \in M, \A o \in M : Rank(m) <= Rank(o)
    PROVE  Lowest(M) = m
<1>1. \A o \in M : Rank(o) \in Int /\ Path[Rank(o)] = o
  BY RankOf
<1>2. \A x \in {Rank(o) : o \in M} : Rank(m) <= x
  OBVIOUS
<1>3. Min({Rank(o) : o \in M}) = Rank(m)
  BY <1>1, <1>2, MinIs
<1> QED
  BY <1>1, <1>3 DEF Lowest

\* How high the evidence lifts a claim of generalization.
LEMMA CeilingOf ==
    ASSUME NEW items
    PROVE  Ceiling("generalization", items) =
               IF MultiSeed(items) = {} THEN "engineering_verified"
               ELSE IF Solid(items) = {} THEN "data_accepted" ELSE "empirically_supported"
<1> DEFINE M == {"empirically_supported"} \cup {c[1] : c \in Constraints(items)}
<1>1. Ceiling("generalization", items) = Lowest(M)
  BY DEF Ceiling
<1>2. M \in SUBSET {"engineering_verified", "data_accepted", "empirically_supported"}
  BY DEF Constraints
<1>3. /\ Eligible(items) = {} => MultiSeed(items) = {}
      /\ MultiSeed(items) = {} => Solid(items) = {}
  BY DEF MultiSeed, Solid
<1>4. /\ "empirically_supported" \in M
      /\ "engineering_verified" \in M <=> MultiSeed(items) = {}
      /\ "data_accepted" \in M <=> Eligible(items) = {} \/ Solid(items) = {}
  <2>1. \A c \in Constraints(items) :
            \/ c[1] = "engineering_verified" /\ MultiSeed(items) = {}
            \/ c[1] = "data_accepted" /\ (Eligible(items) = {} \/ Solid(items) = {})
    BY DEF Constraints
  <2>2. MultiSeed(items) = {} => \E c \in Constraints(items) : c[1] = "engineering_verified"
    <3>1. MultiSeed(items) = {} => <<"engineering_verified", "single-seed-cap">> \in Constraints(items)
      BY DEF Constraints
    <3>2. <<"engineering_verified", "single-seed-cap">>[1] = "engineering_verified"
      OBVIOUS
    <3> QED
      BY <3>1, <3>2
  <2>3. Eligible(items) = {} => \E c \in Constraints(items) : c[1] = "data_accepted"
    <3>1. Eligible(items) = {} => <<"data_accepted", "synthetic-evidence-cap">> \in Constraints(items)
      BY DEF Constraints
    <3>2. <<"data_accepted", "synthetic-evidence-cap">>[1] = "data_accepted"
      OBVIOUS
    <3> QED
      BY <3>1, <3>2
  <2>4. Solid(items) = {} => \E c \in Constraints(items) : c[1] = "data_accepted"
    <3>1. Solid(items) = {} => <<"data_accepted", "frozen-holdout-missing">> \in Constraints(items)
      BY DEF Constraints
    <3>2. <<"data_accepted", "frozen-holdout-missing">>[1] = "data_accepted"
      OBVIOUS
    <3> QED
      BY <3>1, <3>2
  <2> QED
    BY <2>1, <2>2, <2>3, <2>4
<1> HIDE DEF M
<1> QED
  BY <1>1, <1>2, <1>3, <1>4, RankOf, LowestOf

\* More evidence never lowers a ceiling.
LEMMA CeilingGrows ==
    ASSUME NEW class \in Classes, NEW all, NEW items \in SUBSET all
    PROVE  Rank(Ceiling(class, items)) <= Rank(Ceiling(class, all))
<1>1. CASE class # "generalization"
  BY <1>1, RankOf DEF Ceiling, Classes
<1>2. CASE class = "generalization"
  <2>1. Solid(items) \subseteq Solid(all) /\ MultiSeed(items) \subseteq MultiSeed(all)
    BY DEF Solid, MultiSeed, Eligible, Experiments, OfKinds
  <2>2. MultiSeed(items) = {} => Solid(items) = {}
    BY DEF Solid
  <2> QED
    BY <1>2, <2>1, <2>2, CeilingOf, RankOf
<1> QED
  BY <1>1, <1>2

\* Two seeds at least, if they are counted.
LEMMA SeedsDiffer ==
    ASSUME NEW seeds, Cardinality({seeds[n] : n \in DOMAIN seeds}) >= 2
    PROVE  \E m, n \in DOMAIN seeds : seeds[m] # seeds[n]
<1> SUFFICES ASSUME \A m, n \in DOMAIN seeds : seeds[m] = seeds[n] PROVE FALSE
  OBVIOUS
<1>1. CASE DOMAIN seeds = {}
  <2>1. {seeds[n] : n \in DOMAIN seeds} = {}
    BY <1>1
  <2>2. Cardinality({}) = 0
    BY FS_EmptySet
  <2> QED
    BY <2>1, <2>2
<1>2. CASE DOMAIN seeds # {}
  <2>1. PICK m \in DOMAIN seeds : TRUE
    BY <1>2
  <2>2. {seeds[n] : n \in DOMAIN seeds} = {seeds[m]}
    OBVIOUS
  <2>3. Cardinality({seeds[m]}) = 1
    BY FS_Singleton
  <2> QED
    BY <2>2, <2>3
<1> QED
  BY <1>1, <1>2

\* A contract never selects on the holdout that nobody may look at.
ContractSane ==
    /\ contract # Nothing => contract.selectionPartition \in {"train", "validation", "test"}
    /\ assessed # Nothing =>
          LET a == assessed
          IN  /\ a.contract.selectionPartition \in {"train", "validation", "test"}
              /\ Admissible(a.claim, a.contract, a.evidence)
              /\ a.ceiling = Ceiling(a.claim.class, a.evidence)
              /\ a.disposition = Disposition(a.claim, a.evidence)
              /\ a.claim \in Claims

\* The contract kept, and the one a claim was assessed under, are sane, however they came about.
LEMMA Sane == StudySpec => []ContractSane
<1> USE DEF ContractSane
<1>1. StudyInit => ContractSane
  BY DEF StudyInit
<1>2. ContractSane /\ [StudyNext]_studyVars => ContractSane'
  <2> SUFFICES ASSUME ContractSane, [StudyNext]_studyVars PROVE ContractSane'
    OBVIOUS
  <2>1. ASSUME NEW c \in Cases, BuildContract(c) PROVE ContractSane'
    <3>1. ContractOf(c).selectionPartition \in {"train", "validation", "test"}
      BY StudyAssumption DEF ContractOf, CaseShape
    <3> QED
      BY <2>1, <3>1 DEF BuildContract
  <2>2. ASSUME NEW k \in HandWritten, WriteContract(k) PROVE ContractSane'
    BY <2>2, StudyAssumption DEF WriteContract
  <2>3. ASSUME NEW data \in DataSets, NEW c \in Cases, NEW final \in STRING,
               RunSyntheticExperiment(data, c, final)
        PROVE  ContractSane'
    BY <2>3 DEF RunSyntheticExperiment
  <2>4. ASSUME NEW item \in Items, Collect(item) PROVE ContractSane'
    BY <2>4 DEF Collect
  <2>5. ASSUME NEW claim \in Claims, ValidateClaim(claim) PROVE ContractSane'
    BY <2>5 DEF ValidateClaim
  <2>6. ASSUME UNCHANGED studyVars PROVE ContractSane'
    BY <2>6 DEF studyVars
  <2> QED
    BY <2>1, <2>2, <2>3, <2>4, <2>5, <2>6 DEF StudyNext
<1> QED
  BY <1>1, <1>2, PTL DEF StudySpec

\* A supported or refuted claim is what the evidence says of it, and no more than a holdout
\* experiment of its own contract can say (validate_claim).
THEOREM ClaimsAreGrounded == StudySpec => []ClaimsGrounded
<1>1. ContractSane => ClaimsGrounded
  <2> SUFFICES ASSUME ContractSane, assessed # Nothing PROVE ClaimsGrounded
    BY DEF ClaimsGrounded
  <2> DEFINE a == assessed
             k == a.contract
             general == a.claim.class = "generalization"
  <2>1. /\ k.selectionPartition \in {"train", "validation", "test"}
        /\ Admissible(a.claim, k, a.evidence)
        /\ a.ceiling = Ceiling(a.claim.class, a.evidence)
        /\ a.disposition = Disposition(a.claim, a.evidence)
        /\ a.claim.class \in Classes /\ a.claim.outcome \in {"pass", "fail", "inconclusive"}
    BY StudyAssumption DEF ContractSane, Classes
  <2> HIDE DEF a
  <2>2. k.selectionPartition # "test"
    BY <2>1 DEF Admissible, SelectionAllowed
  <2>3. ASSUME general, NEW e \in a.evidence, e.kind = "experiment_run"
        PROVE  e.case = k.case /\ e.split = k.split /\ e.final \in Protected
    BY <2>1, <2>3 DEF Admissible, FinalEvaluationAllowed, Experiments, OfKinds
  <2>4. ASSUME general, a.disposition = "supported"
        PROVE  \E e \in a.evidence :
                   /\ e.kind = "experiment_run" /\ e.provenance # "synthetic"
                   /\ \E m, n \in DOMAIN e.seeds : e.seeds[m] # e.seeds[n]
                   /\ e.frozen /\ e.final # k.selectionPartition
    <3>1. a.claim.outcome = "pass" /\ Ceiling("generalization", a.evidence) = "empirically_supported"
      BY <2>1, <2>4 DEF Disposition
    <3>2. PICK e \in Solid(a.evidence) : TRUE
      BY <3>1, CeilingOf
    <3>3. /\ e \in a.evidence /\ e.kind = "experiment_run" /\ e.provenance \in {"public", "real"}
          /\ e.frozen /\ Cardinality({e.seeds[n] : n \in DOMAIN e.seeds}) >= 2
      BY DEF Solid, MultiSeed, Eligible, Experiments, OfKinds
    <3>4. \E m, n \in DOMAIN e.seeds : e.seeds[m] # e.seeds[n]
      BY <3>3, SeedsDiffer
    <3>5. e.final # k.selectionPartition
      BY <2>1, <2>2, <2>3, <2>4, <3>3 DEF Protected
    <3> QED
      BY <3>3, <3>4, <3>5
  <2>5. ASSUME general, NEW d \in AssessmentDimensions
        PROVE  \/ d \in a.claim.gaps /\ a.claim.limited
               \/ \E e \in a.evidence : e.kind = AssessmentKind(d)
    BY <2>1, <2>5 DEF Admissible, Gaps, Performed, OfKinds
  <2>6. ASSUME general, \A e \in a.evidence : e.provenance = "synthetic"
        PROVE  a.ceiling = "engineering_verified"
    <3>1. MultiSeed(a.evidence) = {}
      BY <2>6 DEF MultiSeed, Eligible, Experiments, OfKinds
    <3> QED
      BY <2>1, <2>6, <3>1, CeilingOf
  <2>7. ASSUME a.disposition # "inconclusive"
        PROVE  /\ a.disposition = (IF a.claim.outcome = "pass" THEN "supported" ELSE "refuted")
               /\ \E e \in a.evidence : e.kind \in RelevantKinds(a.claim.class)
    <3>1. OfKinds(a.evidence, RelevantKinds(a.claim.class)) # {} /\ a.claim.outcome # "inconclusive"
      BY <2>1, <2>7 DEF Disposition
    <3>2. a.disposition = (IF a.claim.outcome = "pass" THEN "supported" ELSE "refuted")
      BY <2>1, <2>7, <3>1 DEF Disposition
    <3> QED
      BY <3>1, <3>2 DEF OfKinds
  <2>8. \A items \in SUBSET a.evidence : Rank(Ceiling(a.claim.class, items)) <= Rank(a.ceiling)
    BY <2>1, CeilingGrows
  <2> QED
    BY <2>2, <2>3, <2>4, <2>5, <2>6, <2>7, <2>8 DEF ClaimsGrounded, a
<1> QED
  BY <1>1, Sane, PTL

-----------------------------------------------------------------------------
(* Rows *)

\* The least of some numbers
LEMMA LeastOf ==
    ASSUME NEW X \in SUBSET Nat, X # {}
    PROVE  \E x \in X : \A y \in X : x <= y
<1>1. PICK x \in X : \A y \in X : ~(<<y, x>> \in OpToRel(<, Nat))
  BY WFMin, NatLessThanWellFounded
<1>2. \A y \in X : ~(y < x)
  BY <1>1 DEF OpToRel
<1> QED
  BY <1>2

\* The smallest of finitely many numbers
LEMMA SmallestOf ==
    ASSUME NEW X \in SUBSET Int, IsFiniteSet(X), X # {}
    PROVE  \E x \in X : \A y \in X : x <= y
<1> DEFINE Below(x) == {y \in X : y < x}
           size == [x \in X |-> Cardinality(Below(x))]
<1>1. \A x \in X : IsFiniteSet(Below(x))
  BY FS_Subset
<1>2. \A x \in X : Cardinality(Below(x)) \in Nat
  BY <1>1, FS_CardinalityType
<1>3. \A x \in X : size[x] \in Nat /\ size[x] = Cardinality(Below(x))
  BY <1>2
<1>4. ASSUME NEW x \in X, NEW y \in X, y < x PROVE size[y] < size[x]
  <2>1. Below(y) \in SUBSET Below(x) /\ y \in Below(x) /\ y \notin Below(y)
    <3>1. x \in Int /\ y \in Int /\ y < x
      BY <1>4
    <3>2. \A z \in X : z < y => z < x
      <4> SUFFICES ASSUME NEW z \in X, z < y PROVE z < x
        OBVIOUS
      <4>1. z \in Int
        OBVIOUS
      <4> QED
        BY <3>1, <4>1
    <3>3. ~(y < y)
      BY <3>1
    <3> QED
      BY <3>1, <3>2, <3>3, Zenon
  <2> HIDE DEF Below, size
  <2>2. /\ Cardinality(Below(y)) <= Cardinality(Below(x))
        /\ Cardinality(Below(x)) = Cardinality(Below(y)) => Below(x) = Below(y)
    BY <1>1, <2>1, FS_Subset
  <2>3. Cardinality(Below(x)) # Cardinality(Below(y))
    BY <2>1, <2>2
  <2> QED
    BY <1>3, <2>2, <2>3
<1> HIDE DEF Below, size
<1>5. PICK x \in X : \A y \in X : size[x] <= size[y]
  <2> DEFINE C == {size[x] : x \in X}
  <2>1. C \in SUBSET Nat /\ C # {}
    BY <1>3
  <2>2. PICK c \in C : \A d \in C : c <= d
    BY <2>1, LeastOf
  <2> QED
    BY <2>2
<1>6. \A y \in X : ~(y < x)
  BY <1>3, <1>4, <1>5
<1> QED
  BY <1>6

\* The least and the greatest of finitely many numbers bound them, and are among them.
LEMMA Extremes ==
    ASSUME NEW X \in SUBSET Int, IsFiniteSet(X), X # {}
    PROVE  /\ Min(X) \in X /\ \A x \in X : Min(X) <= x
           /\ Max(X) \in X /\ \A x \in X : x <= Max(X)
<1>1. \E x \in X : \A y \in X : x <= y
  BY SmallestOf
<1>2. \E x \in X : \A y \in X : y <= x
  <2> DEFINE Y == {-x : x \in X}
             f == [x \in X |-> -x]
  <2>1. f \in Surjection(X, Y)
    BY DEF Surjection
  <2>2. Y \in SUBSET Int /\ Y # {}
    <3>1. \A x \in X : -x \in Int
      OBVIOUS
    <3> QED
      BY <3>1, Zenon
  <2> HIDE DEF Y, f
  <2>3. IsFiniteSet(Y)
    BY <2>1, FS_Surjection
  <2>4. PICK y \in Y : \A z \in Y : y <= z
    BY <2>2, <2>3, SmallestOf
  <2>5. PICK x \in X : y = -x
    BY DEF Y
  <2>6. ASSUME NEW z \in X PROVE z <= x
    <3>1. -z \in Y
      BY DEF Y
    <3>2. y <= -z
      BY <2>4, <3>1
    <3> QED
      BY <2>5, <3>2
  <2> QED
    BY <2>6
<1>3. Min(X) \in X /\ \A x \in X : Min(X) <= x
  BY <1>1 DEF Min
<1>4. Max(X) \in X /\ \A x \in X : x <= Max(X)
  BY <1>2 DEF Max
<1> QED
  BY <1>3, <1>4

\* The first and the last session of a partition.
LEMMA FirstAndLast ==
    ASSUME NEW data, DataShape(data), "timestamps" \in DOMAIN data.context,
           Len(data.context.timestamps) = data.rows,
           NEW p \in DOMAIN data.partitions, data.partitions[p] # {},
           data.partitions[p] \subseteq Rows(data)
    PROVE  LET ts == data.context.timestamps
           IN  /\ First(data, p) \in Int /\ Last(data, p) \in Int
               /\ \A r \in data.partitions[p] : ts[r] \in Int /\ First(data, p) <= ts[r] /\ ts[r] <= Last(data, p)
               /\ \E r \in data.partitions[p] : ts[r] = First(data, p)
               /\ \E r \in data.partitions[p] : ts[r] = Last(data, p)
<1> DEFINE ts == data.context.timestamps
           part == data.partitions[p]
           X == {ts[r] : r \in part}
<1>1. ts \in Seq(Int) /\ data.rows \in Nat
  BY DEF DataShape
<1>2. \A r \in part : ts[r] \in Int
  BY <1>1 DEF Rows
<1>3. IsFiniteSet(X)
  <2>1. IsFiniteSet(Rows(data))
    BY <1>1, FS_Interval DEF Rows
  <2>2. IsFiniteSet(part)
    BY <2>1, FS_Subset
  <2> DEFINE f == [r \in part |-> ts[r]]
  <2>3. f \in Surjection(part, X)
    BY DEF Surjection
  <2> HIDE DEF part, f, X
  <2> QED
    BY <2>2, <2>3, FS_Surjection
<1>4. X \in SUBSET Int /\ X # {}
  BY <1>2
<1>5. First(data, p) = Min(X) /\ Last(data, p) = Max(X)
  BY DEF First, Last
<1> HIDE DEF X
<1>6. /\ Min(X) \in X /\ \A x \in X : Min(X) <= x
      /\ Max(X) \in X /\ \A x \in X : x <= Max(X)
  BY <1>3, <1>4, Extremes
<1> QED
  BY <1>2, <1>4, <1>5, <1>6 DEF X

\* Sessions in order, with their distances.
LEMMA TimesApart ==
    ASSUME NEW data, DataShape(data), Disjoint(data),
           NEW split, split.gap \in Int, split.embargo \in Int, split.kind = "time_series",
           TimeSeriesExecutes(data, split)
    PROVE  RowsApart(data, split)
<1> DEFINE part == data.partitions
           ts == data.context.timestamps
           F(p) == First(data, p)
           L(p) == Last(data, p)
<1>1. /\ "timestamps" \in DOMAIN data.context /\ Len(ts) = data.rows
      /\ Assigned(data) \subseteq Rows(data)
      /\ Rows(data) \ Assigned(data) \subseteq GapRows(data)
      /\ {"train", "validation", "test"} \subseteq DOMAIN part
      /\ DOMAIN part \subseteq {"train", "validation", "test", "future_holdout"}
      /\ \A p \in DOMAIN part : part[p] # {} /\ part[p] \subseteq Rows(data)
  BY DEF TimeSeriesExecutes, Assigned, Disjoint, DataShape
<1>2. \A p \in DOMAIN part :
          /\ F(p) \in Int /\ L(p) \in Int /\ F(p) <= L(p)
          /\ \A r \in part[p] : ts[r] \in Int /\ F(p) <= ts[r] /\ ts[r] <= L(p)
          /\ \E r \in part[p] : ts[r] = F(p)
          /\ \E r \in part[p] : ts[r] = L(p)
  BY <1>1, FirstAndLast
<1>3. /\ F("validation") - L("train") - 1 >= 0 /\ F("test") - L("validation") - 1 >= 0
      /\ F("validation") - L("train") - 1 >= split.gap
      /\ F("test") - L("validation") - 1 >= split.embargo
      /\ "future_holdout" \in DOMAIN part => F("future_holdout") - L("test") - 1 >= 0
  BY DEF TimeSeriesExecutes
<1>10. GapRows(data) = {r \in Rows(data) : L("train") < ts[r] /\ ts[r] < F("validation")}
                           \cup {r \in Rows(data) : L("validation") < ts[r] /\ ts[r] < F("test")}
  BY DEF GapRows
<1>11. \A r \in Rows(data) : ts[r] \in Int
  BY <1>1 DEF DataShape, Rows
<1> HIDE DEF part, ts, F, L
<1>4. \A r \in part["train"], s \in part["validation"] : ts[s] - ts[r] > split.gap
  <2> SUFFICES ASSUME NEW r \in part["train"], NEW s \in part["validation"] PROVE ts[s] - ts[r] > split.gap
    OBVIOUS
  <2>1. /\ ts[r] \in Int /\ ts[s] \in Int /\ L("train") \in Int /\ F("validation") \in Int
        /\ ts[r] <= L("train") /\ F("validation") <= ts[s]
    BY <1>1, <1>2
  <2> QED
    BY <1>3, <2>1
<1>5. \A r \in part["validation"], s \in part["test"] : ts[s] - ts[r] > split.embargo
  <2> SUFFICES ASSUME NEW r \in part["validation"], NEW s \in part["test"] PROVE ts[s] - ts[r] > split.embargo
    OBVIOUS
  <2>1. /\ ts[r] \in Int /\ ts[s] \in Int /\ L("validation") \in Int /\ F("test") \in Int
        /\ ts[r] <= L("validation") /\ F("test") <= ts[s]
    BY <1>1, <1>2
  <2> QED
    BY <1>3, <2>1
<1>6. ASSUME "future_holdout" \in DOMAIN part, NEW p \in DOMAIN part \ {"future_holdout"},
             NEW r \in part[p], NEW s \in part["future_holdout"]
      PROVE  ts[r] < ts[s]
  <2>1. p \in {"train", "validation", "test"}
    BY <1>1
  <2>2. ts[r] <= L(p) /\ F("future_holdout") <= ts[s] /\ ts[r] \in Int /\ ts[s] \in Int /\ L(p) \in Int
        /\ F("future_holdout") \in Int
    BY <1>2, <1>6
  <2>3. L(p) < F("future_holdout")
    <3>1. /\ F("validation") \in Int /\ L("validation") \in Int /\ F("test") \in Int /\ L("test") \in Int
          /\ L("train") \in Int /\ F("future_holdout") \in Int
          /\ F("validation") <= L("validation") /\ F("test") <= L("test")
      BY <1>1, <1>2, <1>6
    <3> QED
      BY <1>3, <1>6, <2>1, <3>1
  <2> QED
    BY <2>2, <2>3
<1>7. ASSUME NEW x \in Rows(data) \ Assigned(data)
      PROVE  /\ \E r \in part["train"] : ts[r] < ts[x]
             /\ \E s \in part["test"] : ts[x] < ts[s]
             /\ \A v, w \in part["validation"] : ~(ts[v] < ts[x] /\ ts[x] < ts[w])
  <2>1. x \in GapRows(data) /\ ts[x] \in Int
    BY <1>1, <1>11
  <2>2. \/ L("train") < ts[x] /\ ts[x] < F("validation")
        \/ L("validation") < ts[x] /\ ts[x] < F("test")
    BY <1>10, <2>1
  <2>3. PICK r \in part["train"] : ts[r] = L("train")
    BY <1>1, <1>2
  <2>4. PICK s \in part["test"] : ts[s] = F("test")
    BY <1>1, <1>2
  <2>5. L("train") < ts[x] /\ ts[x] < F("test")
    BY <1>1, <1>2, <1>3, <2>1, <2>2
  <2>6. \A v, w \in part["validation"] : ~(ts[v] < ts[x] /\ ts[x] < ts[w])
    BY <1>1, <1>2, <2>1, <2>2
  <2> QED
    BY <2>3, <2>4, <2>5, <2>6
<1> QED
  BY <1>4, <1>5, <1>6, <1>7 DEF RowsApart, part, ts

\* One fold of a list validates each row.
LEMMA OneFold ==
    ASSUME NEW folds, IsFiniteSet(DOMAIN folds), NEW rows, ValidatedOnce(folds, rows),
           NEW r \in rows
    PROVE  \E n \in DOMAIN folds : /\ r \in folds[n].validation
                                   /\ \A m \in DOMAIN folds \ {n} : r \notin folds[m].validation
<1> DEFINE N == {n \in DOMAIN folds : r \in folds[n].validation}
<1>1. Cardinality(N) = 1
  BY DEF ValidatedOnce
<1>2. IsFiniteSet(N)
  BY FS_Subset
<1>3. PICK n : N = {n}
  BY <1>1, <1>2, FS_Singleton
<1> QED
  BY <1>3

\* Folds that are declared nested are so, on both levels.
LEMMA NestedApart ==
    ASSUME NEW data, DataShape(data), NEW split, split.kind = "nested", NestedExecutes(data, split)
    PROVE  RowsApart(data, split)
<1> DEFINE part == data.partitions
           folds == data.context.folds
           development == part["train"] \cup part["validation"]
<1>1. /\ folds \in Seq([train : SUBSET Nat, validation : SUBSET Nat,
                        inner : Seq([train : SUBSET Nat, validation : SUBSET Nat])])
      /\ ValidatedOnce(folds, development)
      /\ \A n \in DOMAIN folds :
            /\ Parts(folds[n], development)
            /\ \A k \in DOMAIN folds[n].inner : Parts(folds[n].inner[k], folds[n].train)
            /\ ValidatedOnce(folds[n].inner, folds[n].train)
  BY DEF NestedExecutes, DataShape
<1>2. IsFiniteSet(DOMAIN folds)
  <2>1. DOMAIN folds = 1 .. Len(folds) /\ Len(folds) \in Nat
    BY <1>1
  <2> QED
    BY <2>1, FS_Interval
<1>7. \A n \in DOMAIN folds :
          folds[n] \in [train : SUBSET Nat, validation : SUBSET Nat,
                       inner : Seq([train : SUBSET Nat, validation : SUBSET Nat])]
  <2> DEFINE Fold == [train : SUBSET Nat, validation : SUBSET Nat,
                      inner : Seq([train : SUBSET Nat, validation : SUBSET Nat])]
  <2>1. folds \in Seq(Fold)
    BY <1>1
  <2> HIDE DEF Fold, folds
  <2>2. \A n \in DOMAIN folds : folds[n] \in Fold
    BY <2>1
  <2> QED
    BY <2>2 DEF Fold
<1>3. \A n \in DOMAIN folds : IsFiniteSet(DOMAIN folds[n].inner)
  <2> SUFFICES ASSUME NEW n \in DOMAIN folds PROVE IsFiniteSet(DOMAIN folds[n].inner)
    OBVIOUS
  <2>1. folds[n].inner \in Seq([train : SUBSET Nat, validation : SUBSET Nat])
    BY <1>7
  <2>2. DOMAIN folds[n].inner = 1 .. Len(folds[n].inner) /\ Len(folds[n].inner) \in Nat
    BY <2>1
  <2> QED
    BY <2>2, FS_Interval
<1> HIDE DEF folds, development
<1>4. \A n \in DOMAIN folds :
          /\ folds[n].train \cap folds[n].validation = {}
          /\ folds[n].train \cup folds[n].validation = development
          /\ \A k \in DOMAIN folds[n].inner :
                /\ folds[n].inner[k].train \cap folds[n].inner[k].validation = {}
                /\ folds[n].inner[k].train \cup folds[n].inner[k].validation = folds[n].train
  BY <1>1 DEF Parts
<1>5. ASSUME NEW r \in development
      PROVE  \E n \in DOMAIN folds :
                /\ r \in folds[n].validation \ folds[n].train
                /\ \A k \in DOMAIN folds[n].inner :
                      r \notin folds[n].inner[k].train \cup folds[n].inner[k].validation
                /\ \A m \in DOMAIN folds \ {n} :
                      /\ r \in folds[m].train \ folds[m].validation
                      /\ \E k \in DOMAIN folds[m].inner :
                            /\ r \notin folds[m].inner[k].train
                            /\ \A l \in DOMAIN folds[m].inner \ {k} : r \in folds[m].inner[l].train
  <2>1. PICK n \in DOMAIN folds : /\ r \in folds[n].validation
                                  /\ \A m \in DOMAIN folds \ {n} : r \notin folds[m].validation
    BY <1>1, <1>2, OneFold
  <2>2. r \notin folds[n].train
        /\ \A k \in DOMAIN folds[n].inner :
              r \notin folds[n].inner[k].train \cup folds[n].inner[k].validation
    BY <1>4, <2>1
  <2>3. ASSUME NEW m \in DOMAIN folds \ {n}
        PROVE  /\ r \in folds[m].train \ folds[m].validation
               /\ \E k \in DOMAIN folds[m].inner :
                     /\ r \notin folds[m].inner[k].train
                     /\ \A l \in DOMAIN folds[m].inner \ {k} : r \in folds[m].inner[l].train
    <3>1. r \in folds[m].train /\ r \notin folds[m].validation
      BY <1>4, <2>1
    <3>2. PICK k \in DOMAIN folds[m].inner :
              /\ r \in folds[m].inner[k].validation
              /\ \A l \in DOMAIN folds[m].inner \ {k} : r \notin folds[m].inner[l].validation
      BY <1>1, <1>3, <3>1, OneFold
    <3> QED
      BY <1>4, <3>1, <3>2
  <2> QED
    BY <2>1, <2>2, <2>3
<1>6. ASSUME NEW r, r \notin development, NEW n \in DOMAIN folds
      PROVE  /\ r \notin folds[n].train \cup folds[n].validation
             /\ \A k \in DOMAIN folds[n].inner :
                   r \notin folds[n].inner[k].train \cup folds[n].inner[k].validation
  BY <1>4, <1>6
<1> QED
  BY <1>5, <1>6 DEF RowsApart, folds, development

\* An assignment that a split executes keeps the rows apart as that split promises.
LEMMA SplitApart ==
    ASSUME NEW data, DataShape(data), Disjoint(data),
           NEW split, split.kind = "time_series" => split.gap \in Int /\ split.embargo \in Int,
           SplitExecutes(data, split)
    PROVE  RowsApart(data, split)
<1>1. CASE split.kind = "iid"
  BY <1>1 DEF RowsApart
<1>2. CASE split.kind = "group" /\ GroupExecutes(data, split)
  <2> DEFINE part == data.partitions
             labels == data.context.labels
  <2>1. PICK owner : \A p \in DOMAIN part : \A r \in part[p] : owner[labels[r]] = p
    BY <1>2 DEF GroupExecutes
  <2>2. \A p, q \in DOMAIN part : p # q =>
            \A r \in part[p], s \in part[q] : labels[r] # labels[s]
    BY <2>1
  <2> QED
    BY <1>2, <2>2 DEF RowsApart
<1> QED
  BY <1>1, <1>2, TimesApart, NestedApart DEF SplitExecutes

-----------------------------------------------------------------------------
(* Recursion over an interval *)

\* What holds of 0, and of every number with its predecessor, holds up to n.
LEMMA UpTo ==
    ASSUME NEW n \in Nat, NEW T, 0 \in T, \A k \in 1..n : k - 1 \in T => k \in T
    PROVE  \A k \in 0..n : k \in T
<1> SUFFICES ASSUME (0..n) \ T # {} PROVE FALSE
  OBVIOUS
<1> DEFINE left == (0..n) \ T
<1>1. left \subseteq Nat /\ left # {}
  OBVIOUS
<1>2. \E x \in left : \A y \in left : ~(<<y, x>> \in OpToRel(<, Nat))
  <2> HIDE DEF left
  <2> QED
    BY <1>1, WFMin, NatLessThanWellFounded
<1>3. PICK x \in left : \A y \in left : ~(<<y, x>> \in OpToRel(<, Nat))
  BY <1>2
<1>4. \A y \in left : ~(y < x)
  BY <1>1, <1>3 DEF OpToRel
<1>5. x \in 1..n
  <2>1. x \in 0..n /\ x \notin T
    OBVIOUS
  <2>2. x # 0
    BY <2>1, Zenon
  <2> QED
    BY <2>1, <2>2
<1>6. x - 1 \in 0..n /\ x - 1 < x
  BY <1>5
<1>7. x - 1 \in T
  BY <1>4, <1>6
<1> QED
  BY <1>3, <1>5, <1>7

\* f takes the move from base again and again, up to n times.
Repeats(f, n, base, move) ==
    \A k \in 0..n : f[k] = IF k = 0 THEN base ELSE move[f[k - 1]]

\* A move that stays in a set can be repeated.
LEMMA Repeating ==
    ASSUME NEW n \in Nat, NEW S, NEW base \in S, NEW move \in [S -> S]
    PROVE  \E f \in [0..n -> S] : Repeats(f, n, base, move)
<1> DEFINE Upto(m) == \E f \in [0..m -> S] :
              \A k \in 0..m : f[k] = IF k = 0 THEN base ELSE move[f[k - 1]]
           T == {m \in 0..n : Upto(m)}
<1>1. 0 \in T
  <2>1. [k \in 0..0 |-> base] \in [0..0 -> S]
    OBVIOUS
  <2>2. \A k \in 0..0 : [j \in 0..0 |-> base][k] =
              IF k = 0 THEN base ELSE move[[j \in 0..0 |-> base][k - 1]]
    OBVIOUS
  <2>3. Upto(0)
    BY <2>1, <2>2
  <2> QED
    BY <2>3
<1>2. ASSUME NEW m \in 1..n, m - 1 \in T PROVE m \in T
  <2>1. PICK f \in [0..m - 1 -> S] :
           \A k \in 0..m - 1 : f[k] = IF k = 0 THEN base ELSE move[f[k - 1]]
    BY <1>2
  <2> DEFINE g == [k \in 0..m |-> IF k = m THEN move[f[m - 1]] ELSE f[k]]
  <2>2. move[f[m - 1]] \in S
    OBVIOUS
  <2>3. g \in [0..m -> S]
    BY <2>2
  <2>4. \A k \in 0..m : g[k] = IF k = 0 THEN base ELSE move[g[k - 1]]
    <3> SUFFICES ASSUME NEW k \in 0..m
                 PROVE  g[k] = IF k = 0 THEN base ELSE move[g[k - 1]]
      OBVIOUS
    <3>1. CASE k = m
      <4>1. g[k] = move[f[m - 1]] /\ g[k - 1] = f[m - 1] /\ k # 0
        BY <3>1
      <4> QED
        BY <3>1, <4>1
    <3>2. CASE k # m
      <4>1. k \in 0..m - 1 /\ g[k] = f[k]
        BY <3>2
      <4>2. k # 0 => g[k - 1] = f[k - 1]
        BY <4>1
      <4> QED
        BY <2>1, <4>1, <4>2
    <3> QED
      BY <3>1, <3>2
  <2>5. Upto(m)
    BY <2>3, <2>4
  <2>6. m \in 0..n
    OBVIOUS
  <2> HIDE DEF Upto
  <2> QED
    BY <2>5, <2>6
<1> HIDE DEF T
<1>3. \A m \in 1..n : m - 1 \in T => m \in T
  BY <1>2
<1>4. \A m \in 0..n : m \in T
  BY <1>1, <1>3, UpTo
<1>5. n \in T
  BY <1>4
<1> QED
  BY <1>5 DEF T, Repeats

-----------------------------------------------------------------------------
(* Loops *)

\* In a finite loop nothing is superseded twice.
LEMMA LoopInjective ==
    ASSUME NEW g, NEW N, IsFiniteSet(N), Loop(g, N), NEW m \in N, NEW n \in N, g[m] = g[n]
    PROVE  m = n
<1> DEFINE f == [i \in N |-> g[i]]
<1>1. f \in Surjection(N, N)
  BY DEF Loop, Surjection
<1> HIDE DEF f
<1>2. f \in Injection(N, N)
  BY <1>1, FS_Surjection
<1>3. f[m] = f[n] => m = n
  BY <1>2 DEF Injection, IsInjective
<1> QED
  BY <1>3 DEF f

\* What is left when all that nothing points at has been removed, again and again, is a loop.
LEMMA KeptIsLoop ==
    ASSUME NEW g, NEW R, IsFiniteSet(R), R # {},
           \A i \in R : \E j \in R \cap DOMAIN g : g[j] = i
    PROVE  Loop(g, R)
<1> DEFINE P == {j \in R \cap DOMAIN g : g[j] \in R}
           f == [j \in P |-> g[j]]
<1>1. f \in Surjection(P, R)
  BY DEF Surjection
<1>2. P \in SUBSET R /\ IsFiniteSet(P)
  BY FS_Subset
<1> HIDE DEF P, f
<1>3. Cardinality(R) <= Cardinality(P) /\ Cardinality(P) <= Cardinality(R)
      /\ (Cardinality(R) = Cardinality(P) => R = P)
  BY <1>1, <1>2, FS_Surjection, FS_Subset
<1>4. Cardinality(R) \in Nat /\ Cardinality(P) \in Nat
  BY <1>2, FS_CardinalityType
<1>5. R = P
  BY <1>3, <1>4
<1>6. R \subseteq DOMAIN g /\ \A i \in R : g[i] \in R
  BY <1>5 DEF P
<1> QED
  BY <1>6 DEF Loop

\* Every member of a finite loop is on a cycle.
LEMMA OnSomeCycle ==
    ASSUME NEW g, NEW R, IsFiniteSet(R), Loop(g, R), NEW x \in R
    PROVE  \E N \in SUBSET R : Cycle(g, N) /\ x \in N
<1> DEFINE Ls == {N \in SUBSET R : Loop(g, N) /\ x \in N}
           C == {Cardinality(N) : N \in Ls}
<1>1. \A N \in SUBSET R : IsFiniteSet(N) /\ Cardinality(N) \in Nat
  BY FS_Subset, FS_CardinalityType
<1>2. C \in SUBSET Nat /\ C # {}
  BY <1>1
<1>3. PICK c \in C : \A d \in C : c <= d
  BY <1>2, LeastOf
<1>4. PICK N \in Ls : c = Cardinality(N)
  OBVIOUS
<1>5. \A M \in Ls : Cardinality(N) <= Cardinality(M)
  BY <1>3, <1>4
<1>6. N \in SUBSET R /\ Loop(g, N) /\ x \in N /\ IsFiniteSet(N)
  BY <1>1
<1>7. ASSUME NEW M \in SUBSET N, M # N, M # {} PROVE Cardinality(M) < Cardinality(N)
  <2>1. /\ Cardinality(M) <= Cardinality(N)
        /\ Cardinality(N) = Cardinality(M) => N = M
    BY <1>6, FS_Subset
  <2>2. Cardinality(M) \in Nat /\ Cardinality(N) \in Nat
    BY <1>1, <1>6
  <2> QED
    BY <1>7, <2>1, <2>2
<1>8. ASSUME NEW M \in SUBSET N, Loop(g, M), M # N PROVE FALSE
  <2>1. M # {} /\ M \in SUBSET R
    BY <1>6, <1>8 DEF Loop
  <2>2. CASE x \in M
    <3>1. M \in Ls
      BY <1>8, <2>1, <2>2
    <3>2. Cardinality(M) < Cardinality(N) /\ Cardinality(N) <= Cardinality(M)
      BY <1>5, <1>7, <1>8, <2>1, <3>1
    <3>3. Cardinality(M) \in Nat /\ Cardinality(N) \in Nat
      BY <1>1, <1>6, <2>1
    <3> QED
      BY <3>2, <3>3
  <2>3. CASE x \notin M
    <3> DEFINE O == N \ M
    <3>1. O # {} /\ O \subseteq DOMAIN g /\ x \in O /\ O \in SUBSET R /\ O \in SUBSET N
      BY <1>6, <2>3 DEF Loop
    <3>2. ASSUME NEW i \in O PROVE g[i] \in O
      <4>1. g[i] \in N
        BY <1>6 DEF Loop
      <4>2. ASSUME g[i] \in M PROVE FALSE
        <5>1. PICK m \in M : g[m] = g[i]
          BY <1>8, <4>2 DEF Loop
        <5>2. m = i
          BY <1>6, <5>1, LoopInjective
        <5> QED
          BY <5>2
      <4> QED
        BY <4>1, <4>2
    <3>3. ASSUME NEW i \in O PROVE \E m \in O : g[m] = i
      <4>1. PICK m \in N : g[m] = i
        BY <1>6 DEF Loop
      <4>2. m \notin M
        BY <1>8, <4>1 DEF Loop
      <4> QED
        BY <4>1, <4>2
    <3> HIDE DEF O
    <3>4. Loop(g, O)
      BY <3>1, <3>2, <3>3 DEF Loop
    <3>5. O \in Ls /\ O # N
      BY <2>1, <3>1, <3>4 DEF O
    <3>6. Cardinality(O) < Cardinality(N) /\ Cardinality(N) <= Cardinality(O)
      BY <1>5, <1>7, <3>1, <3>5
    <3>7. Cardinality(O) \in Nat /\ Cardinality(N) \in Nat
      BY <1>1, <1>6, <3>1
    <3> QED
      BY <3>6, <3>7
  <2> QED
    BY <2>2, <2>3
<1> QED
  BY <1>6, <1>8 DEF Cycle

-----------------------------------------------------------------------------
(* Elimination *)

\* Sections in a row, each with a resolved pin to another or none.
LEMMA UpstreamIs ==
    ASSUME NEW s \in Seq(SectionShape)
    PROVE  /\ DOMAIN s = 1 .. Len(s) /\ Len(s) \in Nat /\ IsFiniteSet(DOMAIN s)
           /\ \A i \in DOMAIN s : s[i] \in SectionShape
           /\ DOMAIN Upstream(s) = Pinning(s) \ (SelfPinned(s) \cup Dangling(s))
           /\ DOMAIN Upstream(s) \subseteq DOMAIN s
           /\ \A i \in DOMAIN Upstream(s) : Upstream(s)[i] \in PinTargets(s, i)
<1>1. DOMAIN s = 1 .. Len(s) /\ Len(s) \in Nat /\ \A i \in DOMAIN s : s[i] \in SectionShape
  OBVIOUS
<1>2. IsFiniteSet(DOMAIN s)
  BY <1>1, FS_Interval
<1>3. DOMAIN Upstream(s) = Pinning(s) \ (SelfPinned(s) \cup Dangling(s))
  BY DEF Upstream
<1>4. Pinning(s) \subseteq DOMAIN s
  BY DEF Pinning
<1>5. ASSUME NEW i \in DOMAIN Upstream(s) PROVE Upstream(s)[i] \in PinTargets(s, i)
  <2>1. PinTargets(s, i) \in SUBSET Nat /\ PinTargets(s, i) # {}
    BY <1>1, <1>3 DEF PinTargets, Dangling
  <2>2. \E x \in PinTargets(s, i) : \A y \in PinTargets(s, i) : x <= y
    BY <2>1, LeastOf
  <2>3. Min(PinTargets(s, i)) \in PinTargets(s, i)
    BY <2>2 DEF Min
  <2>4. Upstream(s)[i] = Min(PinTargets(s, i))
    BY <1>3 DEF Upstream
  <2> QED
    BY <2>3, <2>4
<1> QED
  BY <1>1, <1>2, <1>3, <1>4, <1>5

\* One round of the elimination
Kept(g, X) == {i \in X : \E j \in X \cap DOMAIN g : g[j] = i}

\* What the elimination leaves: n rounds, where there are n sections.
LEMMA LeftAfterRounds ==
    ASSUME NEW s \in Seq(SectionShape)
    PROVE  \E rem \in [0..Len(s) -> SUBSET DOMAIN s] :
               /\ rem[0] = DOMAIN s
               /\ \A k \in 1..Len(s) : rem[k] = Kept(Upstream(s), rem[k - 1])
               /\ DOMAIN s \ Eliminated(s) = rem[Len(s)]
<1> DEFINE D == DOMAIN s
           C == Len(s)
           g == Upstream(s)
           Sets == SUBSET D
           move == [X \in Sets |-> Kept(g, X)]
           Body(f) == [k \in 0..C |-> IF k = 0 THEN D ELSE Kept(g, f[k - 1])]
<1>1. C \in Nat
  OBVIOUS
<1>2. \A X \in Sets : Kept(g, X) \in Sets
  BY DEF Kept
<1>3. D \in Sets /\ move \in [Sets -> Sets] /\ \A X \in Sets : move[X] = Kept(g, X)
  BY <1>2
<1> HIDE DEF C, move, g, Sets
<1>4. PICK f \in [0..C -> Sets] : Repeats(f, C, D, move)
  BY <1>1, <1>3, Repeating
<1>5. f = Body(f)
  BY <1>1, <1>3, <1>4 DEF Repeats
<1> DEFINE rem == CHOOSE h : h = Body(h)
<1>6. rem = Body(rem)
  BY <1>5
<1>7. Eliminated(s) = D \ rem[C]
  BY DEF Eliminated, C, g, Kept
<1> HIDE DEF rem
<1>8. /\ DOMAIN rem = 0..C /\ rem[0] = D
      /\ \A k \in 1..C : rem[k] = Kept(g, rem[k - 1])
  BY <1>1, <1>6
<1>9. \A k \in 0..C : rem[k] \in Sets
  <2> DEFINE T == {k \in 0..C : rem[k] \in Sets}
  <2>1. 0 \in T
    BY <1>1, <1>3, <1>8
  <2>2. \A k \in 1..C : k - 1 \in T => k \in T
    BY <1>1, <1>2, <1>8
  <2> HIDE DEF T
  <2>3. \A k \in 0..C : k \in T
    BY <1>1, <2>1, <2>2, UpTo
  <2> QED
    BY <2>3 DEF T
<1>10. rem \in [0..C -> Sets]
  <2>1. rem = [k \in 0..C |-> rem[k]]
    BY <1>6
  <2> QED
    BY <1>9, <2>1
<1>11. rem[C] \in SUBSET D
  BY <1>1, <1>9 DEF Sets
<1>12. D \ Eliminated(s) = rem[C]
  BY <1>7, <1>11
<1> QED
  BY <1>8, <1>10, <1>12 DEF C, g, Sets

\* It leaves exactly what is on a cycle.
LEMMA LeftIsCycles ==
    ASSUME NEW s \in Seq(SectionShape)
    PROVE  LET left == DOMAIN s \ Eliminated(s)
               loops == {N \in SUBSET DOMAIN s : Cycle(Upstream(s), N)}
           IN  left = UNION loops /\ (left = {} <=> loops = {})
<1> DEFINE D == DOMAIN s
           C == Len(s)
           g == Upstream(s)
           loops == {N \in SUBSET D : Cycle(g, N)}
<1>1. PICK rem \in [0..C -> SUBSET D] :
          /\ rem[0] = D
          /\ \A k \in 1..C : rem[k] = Kept(g, rem[k - 1])
          /\ D \ Eliminated(s) = rem[C]
  BY LeftAfterRounds
<1>2. D = 1..C /\ C \in Nat /\ IsFiniteSet(D) /\ Cardinality(D) = C
  <2>1. D = 1..C /\ C \in Nat /\ IsFiniteSet(D)
    BY UpstreamIs
  <2> HIDE DEF D, C
  <2>2. Cardinality(1..C) = IF 1 > C THEN 0 ELSE C - 1 + 1
    BY <2>1, FS_Interval
  <2> QED
    BY <2>1, <2>2
<1> HIDE DEF D, C, g
<1>3. \A X \in SUBSET D : IsFiniteSet(X) /\ Cardinality(X) \in Nat
  BY <1>2, FS_Subset, FS_CardinalityType
<1>4. Kept(g, rem[C]) = rem[C]
  <2> DEFINE T == {k \in 0..C : Kept(g, rem[k]) = rem[k] \/ Cardinality(rem[k]) <= C - k}
  <2>1. 0 \in T
    BY <1>1, <1>2
  <2>2. ASSUME NEW k \in 1..C, k - 1 \in T PROVE k \in T
    <3>1. k - 1 \in 0..C /\ k \in 0..C /\ rem[k] = Kept(g, rem[k - 1])
      BY <1>1, <1>2
    <3>2. CASE Kept(g, rem[k - 1]) = rem[k - 1]
      BY <3>1, <3>2
    <3>3. CASE Kept(g, rem[k - 1]) # rem[k - 1]
      <4>1. rem[k] \in SUBSET rem[k - 1] /\ rem[k] # rem[k - 1] /\ rem[k - 1] \in SUBSET D /\ rem[k] \in SUBSET D
        BY <3>1, <3>3 DEF Kept
      <4>2. /\ Cardinality(rem[k]) <= Cardinality(rem[k - 1])
            /\ Cardinality(rem[k - 1]) = Cardinality(rem[k]) => rem[k - 1] = rem[k]
        BY <1>3, <4>1, FS_Subset
      <4>3. Cardinality(rem[k - 1]) <= C - (k - 1)
        BY <2>2, <3>3
      <4>4. Cardinality(rem[k]) \in Nat /\ Cardinality(rem[k - 1]) \in Nat
        BY <1>3, <4>1
      <4>5. Cardinality(rem[k]) <= C - k
        BY <1>2, <4>1, <4>2, <4>3, <4>4
      <4> QED
        BY <3>1, <4>5
    <3> QED
      BY <3>2, <3>3
  <2> HIDE DEF T
  <2>3. \A k \in 0..C : k \in T
    BY <1>2, <2>1, <2>2, UpTo
  <2>4. C \in T /\ rem[C] \in SUBSET D
    BY <1>2, <2>3
  <2>5. CASE Cardinality(rem[C]) <= C - C
    <3>1. Cardinality(rem[C]) = 0
      BY <1>2, <1>3, <2>4, <2>5
    <3>2. rem[C] = {}
      BY <1>3, <2>4, <3>1, FS_EmptySet
    <3> QED
      BY <3>2 DEF Kept
  <2> QED
    BY <2>4, <2>5 DEF T
<1>5. ASSUME NEW N \in loops PROVE N \subseteq rem[C]
  <2> DEFINE T == {k \in 0..C : N \subseteq rem[k]}
  <2>1. 0 \in T
    BY <1>1, <1>2
  <2>2. ASSUME NEW k \in 1..C, k - 1 \in T PROVE k \in T
    <3>1. k \in 0..C /\ N \subseteq rem[k - 1] /\ rem[k] = Kept(g, rem[k - 1])
      BY <1>1, <1>2, <2>2
    <3> QED
      BY <3>1 DEF Kept, Cycle, Loop
  <2> HIDE DEF T
  <2>3. \A k \in 0..C : k \in T
    BY <1>2, <2>1, <2>2, UpTo
  <2> QED
    BY <1>2, <2>3 DEF T
<1>6. ASSUME NEW x \in rem[C] PROVE \E N \in loops : x \in N
  <2>1. rem[C] \in SUBSET D /\ IsFiniteSet(rem[C])
    BY <1>2, <1>3
  <2>2. \A i \in rem[C] : \E j \in rem[C] \cap DOMAIN g : g[j] = i
    BY <1>4 DEF Kept
  <2>3. Loop(g, rem[C])
    BY <2>1, <2>2, KeptIsLoop
  <2>4. \E N \in SUBSET rem[C] : Cycle(g, N) /\ x \in N
    BY <2>1, <2>3, OnSomeCycle
  <2> QED
    BY <2>1, <2>4
<1>7. rem[C] = UNION loops
  BY <1>5, <1>6
<1>8. \A N \in loops : N # {}
  BY DEF Cycle, Loop
<1>9. rem[C] = {} <=> loops = {}
  BY <1>7, <1>8
<1> QED
  BY <1>1, <1>7, <1>9 DEF D, C, g

-----------------------------------------------------------------------------
\* How far down the order of an experiment a section stands
Height(kind) ==
    CASE kind = "dataset" -> 0 [] kind = "split" -> 1 [] kind \in Steps -> 2 [] kind = "selection" -> 3

\* What a section may pin stands above it.
LEMMA UpstreamIsLower ==
    ASSUME NEW kind \in {"dataset", "split", "selection"} \cup Steps, kind # "dataset",
           NEW up \in AllowedUpstream(kind)
    PROVE  Height(up) \in Nat /\ Height(kind) \in Nat /\ Height(up) < Height(kind)
BY DEF AllowedUpstream, Height, Steps

\* A cycle goes against the order somewhere (the comment over the elimination in
\* _dag_violations).
LEMMA CycleMisdirected ==
    ASSUME NEW s \in Seq(SectionShape), NEW N, Loop(Upstream(s), N)
    PROVE  Misdirected(s) # {}
<1> SUFFICES ASSUME Misdirected(s) = {} PROVE FALSE
  OBVIOUS
<1> DEFINE g == Upstream(s)
           H == {Height(s[i].kind) : i \in N}
<1>1. \A i \in DOMAIN g : s[g[i]].kind \in AllowedUpstream(s[i].kind)
  BY DEF Misdirected
<1>2. \A i \in DOMAIN g :
          /\ s[i].kind \in {"dataset", "split", "selection"} \cup Steps /\ s[i].kind # "dataset"
  <2>1. DOMAIN g \subseteq Pinning(s)
    BY UpstreamIs
  <2>2. \A i \in DOMAIN s : s[i].kind \in {"dataset", "split", "selection"} \cup Steps
    BY UpstreamIs DEF SectionShape
  <2> HIDE DEF g
  <2> QED
    BY <2>1, <2>2 DEF Pinning
<1>3. \A i \in DOMAIN g :
          /\ Height(s[g[i]].kind) \in Nat /\ Height(s[i].kind) \in Nat
          /\ Height(s[g[i]].kind) < Height(s[i].kind)
  BY <1>1, <1>2, UpstreamIsLower
<1>4. N # {} /\ N \subseteq DOMAIN g /\ \A i \in N : g[i] \in N
  BY DEF Loop
<1> HIDE DEF g
<1>5. H \in SUBSET Nat /\ H # {}
  BY <1>3, <1>4
<1>6. PICK h \in H : \A k \in H : h <= k
  BY <1>5, LeastOf
<1>7. PICK i \in N : h = Height(s[i].kind)
  OBVIOUS
<1>8. Height(s[g[i]].kind) \in H
  BY <1>4
<1>9. Height(s[i].kind) <= Height(s[g[i]].kind)
  BY <1>6, <1>7, <1>8
<1> QED
  BY <1>3, <1>4, <1>9

\* What nothing is held against has pins that name one section each, of the kind allowed.
LEMMA AcceptedPins ==
    ASSUME NEW s \in Seq(SectionShape), StructuralViolations(s) = {}
    PROVE  /\ DOMAIN Upstream(s) = Pinning(s)
           /\ \A i \in Pinning(s) :
                 /\ PinTargets(s, i) = {Upstream(s)[i]}
                 /\ Upstream(s)[i] \in DOMAIN s
                 /\ s[Upstream(s)[i]].sha = s[i].input
                 /\ s[Upstream(s)[i]].kind \in AllowedUpstream(s[i].kind)
<1>1. /\ Ambiguous(s) = {} /\ SelfPinned(s) = {} /\ Dangling(s) = {} /\ Misdirected(s) = {}
  BY DEF StructuralViolations, Found
<1>2. DOMAIN Upstream(s) = Pinning(s)
  <2>1. DOMAIN Upstream(s) = Pinning(s) \ (SelfPinned(s) \cup Dangling(s))
    BY UpstreamIs
  <2> QED
    BY <1>1, <2>1
<1>3. ASSUME NEW i \in Pinning(s)
      PROVE  /\ PinTargets(s, i) = {Upstream(s)[i]}
             /\ Upstream(s)[i] \in DOMAIN s
             /\ s[Upstream(s)[i]].sha = s[i].input
  <2>1. Upstream(s)[i] \in PinTargets(s, i)
    BY <1>2, UpstreamIs
  <2>2. \A j, k \in PinTargets(s, i) : j = k
    BY <1>1 DEF Ambiguous, PinTargets
  <2> QED
    BY <2>1, <2>2 DEF PinTargets
<1>4. \A i \in Pinning(s) : s[Upstream(s)[i]].kind \in AllowedUpstream(s[i].kind)
  BY <1>1, <1>2 DEF Misdirected
<1> QED
  BY <1>2, <1>3, <1>4

\* What is found is found at the sections given.
LEMMA FoundAt ==
    ASSUME NEW rule, NEW X
    PROVE  /\ {v.section : v \in Found(rule, X)} = X
           /\ Found(rule, X) = {} => X = {}
<1>1. \A x \in X : [rule |-> rule, section |-> x] \in Found(rule, X)
                  /\ [rule |-> rule, section |-> x].section = x
  BY DEF Found
<1>2. \A v \in Found(rule, X) : v.section \in X
  BY DEF Found
<1> QED
  BY <1>1, <1>2

\* Without a leak the steps are fitted where their scopes say, after the split.
LEMMA StepsAreSafe ==
    ASSUME NEW c, Leaks(c) = {}, NEW m \in DOMAIN c.sections
    PROVE  LET s == c.sections
               dataset == CHOOSE i \in DOMAIN s : s[i].kind = "dataset"
           IN  /\ s[m].kind = "preprocessing" => s[m].scope # "full_data"
               /\ s[m].kind = "sampling" => s[m].scope \notin {"full_data", "pre_split"}
               /\ s[m].kind \in Steps /\ s[m].scope \in {"train_only", "per_fold"} =>
                     s[m].input # s[dataset].sha
<1> DEFINE s == c.sections
           steps == {i \in DOMAIN s : s[i].kind \in Steps}
           dataset == CHOOSE i \in DOMAIN s : s[i].kind = "dataset"
           A == {i \in OfKind(s, "preprocessing") : s[i].scope = "full_data"}
           B == {i \in OfKind(s, "sampling") : s[i].scope \in {"full_data", "pre_split"}}
           M == {i \in steps : s[i].scope \in {"train_only", "per_fold"} /\ s[i].input = s[dataset].sha}
<1>1. /\ Found("preprocessing-fit-full-data", A) \subseteq Leaks(c)
      /\ Found("sampling-scope-unsafe", B) \subseteq Leaks(c)
      /\ Found("scope-upstream-mismatch", M) \subseteq Leaks(c)
  BY Zenon DEF Leaks
<1>2. A = {} /\ B = {} /\ M = {}
  <2> HIDE DEF A, B, M
  <2> QED
    BY <1>1, FoundAt
<1>3. /\ s[m].kind = "preprocessing" => s[m].scope # "full_data"
      /\ s[m].kind = "sampling" => s[m].scope \notin {"full_data", "pre_split"}
  BY <1>2 DEF OfKind
<1>4. s[m].kind \in Steps /\ s[m].scope \in {"train_only", "per_fold"} => s[m].input # s[dataset].sha
  BY <1>2
<1> QED
  BY <1>3, <1>4

\* In an accepted case what is fitted, resampled or selected comes after the split.
LEMMA AcceptedOrder ==
    ASSUME NEW c, CaseShape(c), TopologyViolations(c) = {},
           NEW i \in DOMAIN c.sections, c.sections[i].kind \in Steps \cup {"selection"}
    PROVE  LET s == c.sections
           IN  \E j, k \in DOMAIN s : /\ s[j].kind = "split" /\ s[k].kind = "dataset"
                                      /\ DependsOn(s, i, j) /\ DependsOn(s, j, k)
                                      /\ ~DependsOn(s, j, i)
<1> DEFINE s == c.sections
           g == Upstream(s)
<1>1. s \in Seq(SectionShape)
  BY DEF CaseShape
<1>2. StructuralViolations(s) = {} /\ Leaks(c) = {}
  BY DEF TopologyViolations
<1>3. /\ DOMAIN g = Pinning(s)
      /\ \A m \in Pinning(s) :
            /\ g[m] \in DOMAIN s /\ s[g[m]].sha = s[m].input
            /\ s[g[m]].kind \in AllowedUpstream(s[m].kind)
  BY <1>1, <1>2, AcceptedPins
<1>4. PICK k \in DOMAIN s : \A m \in DOMAIN s : s[m].kind = "dataset" <=> m = k
  BY DEF CaseShape
<1>5. PICK j \in DOMAIN s : \A m \in DOMAIN s : s[m].kind = "split" <=> m = j
  BY DEF CaseShape
<1>6. k = CHOOSE m \in DOMAIN s : s[m].kind = "dataset"
  BY <1>4
<1>7. ASSUME NEW m \in DOMAIN s, s[m].kind \in Steps PROVE g[m] = j /\ m \in DOMAIN g
  <2>1. m \in Pinning(s)
    BY <1>7 DEF Pinning, Steps
  <2>2. s[g[m]].kind \in {"dataset", "split"} /\ g[m] \in DOMAIN s /\ s[g[m]].sha = s[m].input
    BY <1>3, <1>7, <2>1 DEF AllowedUpstream, Steps
  <2>3. s[m].scope \in {"train_only", "per_fold", "full_data", "pre_split"}
    BY <1>1, <1>7, UpstreamIs DEF CaseShape, SectionShape
  <2>4. ~(s[m].scope \in {"train_only", "per_fold"} /\ s[m].input = s[k].sha)
    BY <1>2, <1>6, <1>7, StepsAreSafe
  <2>5. s[m].kind = "preprocessing" => s[m].scope # "full_data" /\ s[m].scope # "pre_split"
    <3>1. s[m].kind = "preprocessing" => s[m].scope # "full_data"
      BY <1>2, <1>7, StepsAreSafe
    <3>2. s[m].kind = "preprocessing" => s[m].scope # "pre_split"
      BY <1>7 DEF CaseShape
    <3> QED
      BY <3>1, <3>2
  <2>6. s[m].kind = "sampling" => s[m].scope \notin {"full_data", "pre_split"}
    BY <1>2, <1>7, StepsAreSafe
  <2>7. s[m].input # s[k].sha
    BY <1>7, <2>3, <2>4, <2>5, <2>6 DEF Steps
  <2>8. g[m] # k
    BY <2>2, <2>7
  <2> QED
    BY <1>3, <1>4, <1>5, <2>1, <2>2, <2>8
<1>8. j \in DOMAIN g /\ g[j] = k /\ k \notin DOMAIN g
  <2>1. j \in Pinning(s) /\ k \notin Pinning(s)
    BY <1>4, <1>5 DEF Pinning
  <2>2. s[g[j]].kind = "dataset"
    BY <1>3, <1>5, <2>1 DEF AllowedUpstream, Steps
  <2> QED
    BY <1>3, <1>4, <2>1, <2>2
<1> HIDE DEF g
<1>9. DependsOn(s, i, j)
  <2> SUFFICES ASSUME NEW N \in SUBSET DOMAIN s, i \in N, \A m \in N \cap DOMAIN g : g[m] \in N
               PROVE  j \in N
    BY DEF DependsOn, g
  <2>1. CASE s[i].kind \in Steps
    BY <1>7, <2>1
  <2>2. CASE s[i].kind = "selection"
    <3>1. i \in Pinning(s)
      BY <2>2 DEF Pinning
    <3>2. g[i] \in N /\ s[g[i]].kind \in {"split"} \cup Steps /\ g[i] \in DOMAIN s
      BY <1>3, <2>2, <3>1 DEF AllowedUpstream, Steps
    <3> QED
      BY <1>5, <1>7, <3>2
  <2> QED
    BY <2>1, <2>2
<1>10. DependsOn(s, j, k)
  BY <1>8 DEF DependsOn, g
<1>11. ~DependsOn(s, j, i)
  <2>1. i # j /\ i # k
    BY <1>4, <1>5 DEF Steps
  <2>2. \A m \in {j, k} \cap DOMAIN g : g[m] \in {j, k}
    BY <1>8
  <2>3. {j, k} \in SUBSET DOMAIN s
    OBVIOUS
  <2> QED
    BY <2>1, <2>2, <2>3 DEF DependsOn, g
<1> QED
  BY <1>4, <1>5, <1>9, <1>10, <1>11

\* The verdict on a case is the one that following its pins gives.
LEMMA VerdictsMeanOrder ==
    ASSUME NEW c, CaseShape(c)
    PROVE  VerdictMeansOrder(c, TopologyViolations(c))
<1> DEFINE s == c.sections
           structure == StructuralViolations(s)
           left == DOMAIN s \ Eliminated(s)
           loops == {N \in SUBSET DOMAIN s : Cycle(Upstream(s), N)}
           V == TopologyViolations(c)
           reported == {v.section : v \in {w \in V : w.rule = "dag-reference-cycle"}}
<1>1. s \in Seq(SectionShape)
  BY DEF CaseShape
<1>2. left = UNION loops /\ (left = {} <=> loops = {})
  BY <1>1, LeftIsCycles
<1>3. reported = (IF left = {} THEN {} ELSE {Min(left)})
  <2>1. {w \in structure : w.rule = "dag-reference-cycle"} =
            Found("dag-reference-cycle", IF left = {} THEN {} ELSE {Min(left)})
    BY DEF StructuralViolations, Found
  <2>2. {w \in Leaks(c) \cup Floors(c) : w.rule = "dag-reference-cycle"} = {}
    BY DEF Leaks, Floors, Found
  <2>3. {w \in V : w.rule = "dag-reference-cycle"} =
            Found("dag-reference-cycle", IF left = {} THEN {} ELSE {Min(left)})
    <3>1. CASE structure = {}
      BY <2>1, <2>2, <3>1 DEF TopologyViolations
    <3>2. CASE structure # {}
      BY <2>1, <3>2 DEF TopologyViolations
    <3> QED
      BY <3>1, <3>2
  <2> DEFINE X == IF left = {} THEN {} ELSE {Min(left)}
  <2>4. reported = {v.section : v \in Found("dag-reference-cycle", X)}
    BY <2>3
  <2> HIDE DEF reported, X
  <2>5. reported = X
    BY <2>4, FoundAt
  <2> QED
    BY <2>5 DEF X
<1>4. loops # {} => \E v \in V : v.rule = "dag-illegal-direction"
  <2> SUFFICES ASSUME loops # {} PROVE \E v \in V : v.rule = "dag-illegal-direction"
    OBVIOUS
  <2>1. PICK N \in loops : Loop(Upstream(s), N)
    BY DEF Cycle
  <2>2. PICK i \in Misdirected(s) : TRUE
    BY <1>1, <2>1, CycleMisdirected
  <2>3. [rule |-> "dag-illegal-direction", section |-> i] \in structure
    BY DEF StructuralViolations, Found
  <2>4. [rule |-> "dag-illegal-direction", section |-> i] \in V
    BY <2>3 DEF TopologyViolations
  <2> QED
    BY <2>4
<1>5. V = {} => \A i \in Pinning(s) : Cardinality(PinTargets(s, i)) = 1
  <2>1. V = {} => structure = {}
    BY DEF TopologyViolations
  <2> SUFFICES ASSUME V = {}, NEW i \in Pinning(s) PROVE Cardinality(PinTargets(s, i)) = 1
    OBVIOUS
  <2>2. PinTargets(s, i) = {Upstream(s)[i]}
    BY <1>1, <2>1, AcceptedPins
  <2> QED
    BY <2>2, FS_Singleton
<1>6. V = {} => \A i \in DOMAIN s : s[i].kind \in Steps \cup {"selection"} =>
                    \E j, k \in DOMAIN s : /\ s[j].kind = "split" /\ s[k].kind = "dataset"
                                           /\ DependsOn(s, i, j) /\ DependsOn(s, j, k)
                                           /\ ~DependsOn(s, j, i)
  BY AcceptedOrder
<1> HIDE DEF left
<1> QED
  BY <1>2, <1>3, <1>4, <1>5, <1>6 DEF VerdictMeansOrder

(* Runs *)

\* What has been judged and run, and under what it was run.
StudyInv ==
    /\ judged # Nothing => judged.case \in Cases /\ judged.violations = TopologyViolations(judged.case)
    /\ executed # Nothing =>
          LET x == executed
              k == x.contract
          IN  /\ x.data \in DataSets /\ x.case \in Cases
              /\ Matches(k, x.case) /\ Executable(x.case) /\ SelectionAllowed(k)
              /\ Disjoint(x.data) /\ Bound(x.data, x.case)
              /\ {"train", k.selectionPartition, x.final} \subseteq DOMAIN x.data.partitions
              /\ x.final \in Protected
              /\ SplitExecutes(x.data, x.case.split) /\ WithinBudget(x.data, x.case)
              /\ x.visits = Visits(x.case) * Len(x.case.seeds)

\* A verdict, and a run, are what they were when they were accepted.
LEMMA Studied == StudySpec => []StudyInv
<1> USE DEF StudyInv
<1>1. StudyInit => StudyInv
  BY DEF StudyInit
<1>2. StudyInv /\ [StudyNext]_studyVars => StudyInv'
  <2> SUFFICES ASSUME StudyInv, [StudyNext]_studyVars PROVE StudyInv'
    OBVIOUS
  <2>1. ASSUME NEW c \in Cases, BuildContract(c) PROVE StudyInv'
    BY <2>1 DEF BuildContract
  <2>2. ASSUME NEW k \in HandWritten, WriteContract(k) PROVE StudyInv'
    BY <2>2 DEF WriteContract
  <2>3. ASSUME NEW data \in DataSets, NEW c \in Cases, NEW final \in STRING,
               RunSyntheticExperiment(data, c, final)
        PROVE  StudyInv'
    BY <2>3 DEF RunSyntheticExperiment
  <2>4. ASSUME NEW item \in Items, Collect(item) PROVE StudyInv'
    BY <2>4 DEF Collect
  <2>5. ASSUME NEW claim \in Claims, ValidateClaim(claim) PROVE StudyInv'
    BY <2>5 DEF ValidateClaim
  <2>6. ASSUME UNCHANGED studyVars PROVE StudyInv'
    BY <2>6 DEF studyVars
  <2> QED
    BY <2>1, <2>2, <2>3, <2>4, <2>5, <2>6 DEF StudyNext
<1> QED
  BY <1>1, <1>2, PTL DEF StudySpec

\* What is accepted is in order, and what is run keeps the final rows apart, for any number
\* of sections and rows (build_evaluation_contract, run_synthetic_experiment).
THEOREM ExperimentsAreIsolated == StudySpec => []ExperimentIsolated
<1>1. StudyInv => ExperimentIsolated
  <2> SUFFICES ASSUME StudyInv PROVE ExperimentIsolated
    OBVIOUS
  <2>1. ASSUME judged # Nothing PROVE VerdictMeansOrder(judged.case, judged.violations)
    BY <2>1, VerdictsMeanOrder, StudyAssumption DEF StudyInv
  <2>2. ASSUME executed # Nothing
        PROVE  LET x == executed
                   part == x.data.partitions
               IN  /\ RowsApart(x.data, x.case.split)
                   /\ x.final \notin {"train", x.case.selectionUsed}
                   /\ part[x.final] \cap (part["train"] \cup part[x.case.selectionUsed]) = {}
                   /\ part = x.case.split.assignment
                   /\ x.visits <= MaxVisits
    <3> DEFINE x == executed
               k == x.contract
               part == x.data.partitions
    <3>1. /\ x.data \in DataSets /\ x.case \in Cases
          /\ Matches(k, x.case) /\ Executable(x.case) /\ SelectionAllowed(k)
          /\ Disjoint(x.data) /\ Bound(x.data, x.case)
          /\ {"train", k.selectionPartition, x.final} \subseteq DOMAIN part
          /\ x.final \in Protected
          /\ SplitExecutes(x.data, x.case.split) /\ WithinBudget(x.data, x.case)
          /\ x.visits = Visits(x.case) * Len(x.case.seeds)
      BY <2>2 DEF StudyInv
    <3> HIDE DEF x
    <3>2. RowsApart(x.data, x.case.split)
      BY <3>1, SplitApart, StudyAssumption
    <3>3. k.selectionPartition = x.case.selectionUsed /\ k.selectionPartition # "test"
          /\ x.case.selectionUsed \in {"train", "validation", "test"}
      BY <3>1 DEF Matches, Executable, SelectionAllowed
    <3>4. x.final \notin {"train", x.case.selectionUsed}
      BY <3>1, <3>3 DEF Protected
    <3>5. part[x.final] \cap (part["train"] \cup part[x.case.selectionUsed]) = {}
      BY <3>1, <3>3, <3>4 DEF Disjoint
    <3>6. part = x.case.split.assignment
      BY <3>1 DEF Bound
    <3>7. x.visits <= MaxVisits
      BY <3>1 DEF WithinBudget, Visits
    <3> QED
      BY <3>2, <3>4, <3>5, <3>6, <3>7 DEF x
  <2> QED
    BY <2>1, <2>2 DEF ExperimentIsolated
<1> QED
  BY <1>1, Studied, PTL

-----------------------------------------------------------------------------
(* Patterns *)

\* Each snapshot was made from an earlier one that could move to its status.
Linked ==
    \A i \in 1 .. Len(patterns) :
        /\ patterns[i].supersedes < i
        /\ patterns[i].supersedes # NoVersion =>
              MayMove(patterns[patterns[i].supersedes].status, patterns[i].status)

MemoryInv == MemoryTypeOK /\ IsFiniteSet(cases) /\ EvidenceCarried /\ Linked

\* What the lifecycle knows of a status.
LEMMA StatusIs ==
    /\ Forward = {"captured", "distilled", "candidate_pattern", "validated_pattern", "active_pattern"}
    /\ \A s \in Forward : StatusRank[s] \in Nat
    /\ Promoted \subseteq Forward /\ Terminal \cap Forward = {}
BY MemoryAssumption DEF Forward, StatusRank, Promoted

\* A new snapshot leaves the others as they are.
LEMMA Appended ==
    ASSUME MemoryTypeOK, NEW p, Publish(p)
    PROVE  /\ Len(patterns') = Len(patterns) + 1 /\ Len(patterns) \in Nat
           /\ \A i \in 1 .. Len(patterns) : patterns'[i] = patterns[i]
           /\ patterns'[Len(patterns) + 1] = p
BY DEF Publish, MemoryTypeOK

\* A snapshot that is made as the lifecycle wants keeps the records sound.
LEMMA Published ==
    ASSUME MemoryInv, NEW p \in Pattern, Publish(p), p.supersedes <= Len(patterns),
           p.source_cases # {}, p.source_cases \subseteq {c \in cases : CaseEligible(c)},
           p.status \in Promoted /\ Cardinality(p.source_cases) < 2
              => p.status = "candidate_pattern" /\ p.attested,
           p.supersedes # NoVersion => MayMove(patterns[p.supersedes].status, p.status)
    PROVE  MemoryInv'
<1>1. /\ Len(patterns') = Len(patterns) + 1 /\ Len(patterns) \in Nat
      /\ \A i \in 1 .. Len(patterns) : patterns'[i] = patterns[i]
      /\ patterns'[Len(patterns) + 1] = p
  BY Appended DEF MemoryInv
<1>2. UNCHANGED <<cases, index, offer>>
  BY DEF Publish
<1>3. MemoryTypeOK'
  <2>1. patterns' \in Seq(Pattern)
    BY DEF Publish, MemoryInv, MemoryTypeOK
  <2> QED
    BY <1>1, <1>2, <2>1 DEF MemoryInv, MemoryTypeOK
<1>4. EvidenceCarried'
  <2> SUFFICES ASSUME NEW i \in 1 .. Len(patterns')
               PROVE  LET r == patterns'[i]
                      IN  /\ r.source_cases # {} /\ r.source_cases \subseteq {c \in cases : CaseEligible(c)}
                          /\ r.status \in Promoted /\ Cardinality(r.source_cases) < 2
                                => r.status = "candidate_pattern" /\ r.attested
    BY <1>2 DEF EvidenceCarried, CaseEligible
  <2>1. CASE i = Len(patterns) + 1
    BY <1>1, <2>1
  <2>2. CASE i \in 1 .. Len(patterns)
    BY <1>1, <2>2 DEF MemoryInv, EvidenceCarried
  <2> QED
    BY <1>1, <2>1, <2>2
<1>5. Linked'
  <2> SUFFICES ASSUME NEW i \in 1 .. Len(patterns')
               PROVE  /\ patterns'[i].supersedes < i
                      /\ patterns'[i].supersedes # NoVersion =>
                            MayMove(patterns'[patterns'[i].supersedes].status, patterns'[i].status)
    BY DEF Linked, MayMove
  <2>1. CASE i = Len(patterns) + 1
    <3>1. p.supersedes \in Nat
      BY MemoryAssumption DEF Pattern
    <3> QED
      BY <1>1, <2>1, <3>1 DEF NoVersion
  <2>2. CASE i \in 1 .. Len(patterns)
    <3>1. patterns[i] \in Pattern
      BY <2>2 DEF MemoryInv, MemoryTypeOK
    <3>2. patterns[i].supersedes \in Nat
      BY <3>1, MemoryAssumption DEF Pattern
    <3>3. patterns[i].supersedes < i
      BY <2>2 DEF MemoryInv, Linked
    <3> QED
      BY <1>1, <2>2, <3>2, <3>3 DEF MemoryInv, Linked, NoVersion
  <2> QED
    BY <1>1, <2>1, <2>2
<1> QED
  BY <1>2, <1>3, <1>4, <1>5 DEF MemoryInv

\* Every step of the research memory keeps what PatternsSound rests on.
LEMMA MemoryStep == ASSUME MemoryInv, [ExperienceNext]_<<memoryVars, heuristicVars>> PROVE MemoryInv'
<1>1. ASSUME NEW c \in CaseInput, CaptureCase(c) PROVE MemoryInv'
  <2>1. cases' = cases \cup {c} /\ UNCHANGED <<patterns, index, offer>>
    BY <1>1 DEF CaptureCase
  <2>2. IsFiniteSet(cases')
    BY <2>1, FS_AddElement DEF MemoryInv
  <2> QED
    BY <2>1, <2>2 DEF MemoryInv, MemoryTypeOK, EvidenceCarried, Linked, CaseEligible, MayMove
<1>2. ASSUME NEW cs \in SUBSET cases, Len(patterns) < MaxPatterns, Distill(cs) PROVE MemoryInv'
  <2>1. PICK s \in Signatures :
           Publish([status |-> "distilled", supersedes |-> NoVersion, source_cases |-> cs,
                    signature |-> s, attested |-> FALSE])
    BY <1>2 DEF Distill
  <2> DEFINE p == [status |-> "distilled", supersedes |-> NoVersion, source_cases |-> cs,
                   signature |-> s, attested |-> FALSE]
  <2>2. p \in Pattern
    BY StatusIs, MemoryAssumption DEF Pattern, NoVersion, MemoryInv, MemoryTypeOK
  <2>3. cs # {} /\ cs \subseteq {c \in cases : CaseEligible(c)}
    BY <1>2 DEF Distill, Pinnable
  <2>4. Len(patterns) \in Nat
    BY DEF MemoryInv, MemoryTypeOK
  <2>5. p.status \notin Promoted /\ p.supersedes = NoVersion /\ p.source_cases = cs
    BY DEF Promoted
  <2> HIDE DEF p
  <2>6. p.supersedes <= Len(patterns)
    BY <2>4, <2>5 DEF NoVersion
  <2> QED
    BY <2>1, <2>2, <2>3, <2>5, <2>6, Published DEF p
<1>3. ASSUME NEW i \in 1 .. Len(patterns), NEW status \in Forward \cup Terminal,
             Len(patterns) < MaxPatterns, Transition(i, status)
      PROVE  MemoryInv'
  <2>1. PICK replaced \in SUBSET cases, attested \in BOOLEAN :
           LET pins == IF replaced # {} THEN replaced ELSE patterns[i].source_cases
           IN  /\ replaced # {} => Pinnable(replaced)
               /\ MayPromote(status, pins, attested)
               /\ Publish([patterns[i] EXCEPT !.status = status, !.supersedes = i,
                                              !.source_cases = pins, !.attested = attested])
    BY <1>3 DEF Transition
  <2> DEFINE pins == IF replaced # {} THEN replaced ELSE patterns[i].source_cases
             p == [patterns[i] EXCEPT !.status = status, !.supersedes = i,
                                      !.source_cases = pins, !.attested = attested]
  <2>2. patterns[i] \in Pattern /\ Len(patterns) \in Nat
    BY DEF MemoryInv, MemoryTypeOK
  <2>3. pins # {} /\ pins \subseteq {c \in cases : CaseEligible(c)}
    BY <2>1 DEF Pinnable, MemoryInv, EvidenceCarried
  <2>4. p \in Pattern
    <3>1. i \in 0 .. MaxPatterns
      BY <1>3, <2>2, MemoryAssumption
    <3>2. pins \in SUBSET CaseInput
      BY <2>3 DEF MemoryInv, MemoryTypeOK
    <3> HIDE DEF pins
    <3> QED
      BY <2>2, <3>1, <3>2 DEF Pattern
  <2>5. p.status = status /\ p.supersedes = i /\ p.source_cases = pins /\ p.attested = attested
    BY <2>2 DEF Pattern
  <2>6. Cardinality(pins) \in Nat /\ Cardinality(pins) # 0
    BY <2>3, FS_Subset, FS_EmptySet, FS_CardinalityType DEF MemoryInv
  <2>7. status \in Promoted /\ Cardinality(pins) < 2 => status = "candidate_pattern" /\ attested
    BY <2>1, <2>6 DEF MayPromote
  <2>8. MayMove(patterns[i].status, status) /\ Publish(p)
    BY <1>3, <2>1 DEF Transition
  <2> HIDE DEF p, pins
  <2> QED
    BY <2>2, <2>3, <2>4, <2>5, <2>7, <2>8, Published
<1>4. ASSUME NEW ids \in SUBSET (1 .. Len(patterns)), BuildIndex(ids) PROVE MemoryInv'
  BY <1>4 DEF BuildIndex, MemoryInv, MemoryTypeOK, EvidenceCarried, Linked, CaseEligible, MayMove
<1>5. ASSUME NEW q \in Query, NEW limit \in Limit, Retrieve(q, limit) PROVE MemoryInv'
  <2>1. UNCHANGED <<cases, patterns, index>> /\ offer'.seen = index
    BY <1>5 DEF Retrieve
  <2> QED
    BY <2>1 DEF MemoryInv, MemoryTypeOK, EvidenceCarried, Linked, CaseEligible, MayMove
<1>6. ASSUME UNCHANGED memoryVars PROVE MemoryInv'
  BY <1>6 DEF memoryVars, MemoryInv, MemoryTypeOK, EvidenceCarried, Linked, CaseEligible, MayMove
<1> QED
  BY <1>1, <1>2, <1>3, <1>4, <1>5, <1>6 DEF ExperienceNext, MemoryNext

\* So it always holds.
LEMMA MemoryAlways == ExperienceSpec => []MemoryInv
<1>1. ExperienceInit => MemoryInv
  BY FS_EmptySet DEF ExperienceInit, MemoryInit, MemoryInv, MemoryTypeOK, EvidenceCarried, Linked
<1> QED
  BY <1>1, MemoryStep, PTL DEF ExperienceSpec

\* The versions up to one are that one and those up to the one before it.
ChainIs(chain, n, before) ==
    \A i \in 0 .. n : chain[i] = IF i = 0 THEN {} ELSE {i} \cup chain[before[i]]

\* The recursion that ChainTo is written with defines a function.
LEMMA ChainExists ==
    ASSUME NEW n \in Nat, NEW before, \A i \in 1 .. n : before[i] \in 0 .. i - 1
    PROVE  \E chain : chain = [i \in 0 .. n |-> IF i = 0 THEN {} ELSE {i} \cup chain[before[i]]]
<1> DEFINE Upto(m) == \E f : DOMAIN f = 0 .. m /\ ChainIs(f, m, before)
           T == {m \in 0 .. n : Upto(m)}
<1>1. 0 \in T
  <2> DEFINE f == [i \in 0 .. 0 |-> {}]
  <2>1. DOMAIN f = 0 .. 0 /\ ChainIs(f, 0, before)
    BY DEF ChainIs
  <2> HIDE DEF f
  <2> QED
    BY <2>1
<1>2. ASSUME NEW m \in 1 .. n, m - 1 \in T PROVE m \in T
  <2>1. PICK f : DOMAIN f = 0 .. m - 1 /\ ChainIs(f, m - 1, before)
    BY <1>2
  <2> DEFINE g == [i \in 0 .. m |-> IF i = m THEN {m} \cup f[before[m]] ELSE f[i]]
  <2>2. ASSUME NEW i \in 0 .. m PROVE g[i] = IF i = 0 THEN {} ELSE {i} \cup g[before[i]]
    <3>1. CASE i = m
      <4>1. before[m] \in 0 .. m - 1 /\ before[m] # m
        OBVIOUS
      <4> QED
        BY <3>1, <4>1
    <3>2. CASE i # m /\ i # 0
      <4>1. i \in 1 .. n /\ i \in 0 .. m - 1
        BY <3>2
      <4>2. before[i] \in 0 .. m /\ before[i] # m
        BY <4>1
      <4>3. f[i] = {i} \cup f[before[i]]
        BY <2>1, <3>2, <4>1 DEF ChainIs
      <4> QED
        BY <3>2, <4>2, <4>3
    <3>3. CASE i = 0
      <4>1. f[0] = {}
        BY <2>1 DEF ChainIs
      <4> QED
        BY <3>3, <4>1
    <3> QED
      BY <3>1, <3>2, <3>3
  <2>3. DOMAIN g = 0 .. m
    OBVIOUS
  <2> HIDE DEF g
  <2>4. ChainIs(g, m, before)
    BY <2>2 DEF ChainIs
  <2> QED
    BY <2>3, <2>4
<1>3. n \in T
  <2> HIDE DEF T
  <2>1. \A m \in 0 .. n : m \in T
    BY <1>1, <1>2, UpTo
  <2> QED
    BY <2>1
<1>4. PICK f : DOMAIN f = 0 .. n /\ ChainIs(f, n, before)
  BY <1>3
<1> DEFINE g == [i \in 0 .. n |-> f[i]]
<1>5. \A i \in 1 .. n : before[i] \in 0 .. n
  OBVIOUS
<1>6. g = [i \in 0 .. n |-> IF i = 0 THEN {} ELSE {i} \cup g[before[i]]]
  <2> SUFFICES ASSUME NEW i \in 0 .. n PROVE f[i] = IF i = 0 THEN {} ELSE {i} \cup g[before[i]]
    OBVIOUS
  <2>1. CASE i # 0
    BY <1>4, <1>5, <2>1 DEF ChainIs
  <2>2. CASE i = 0
    BY <1>4, <2>2 DEF ChainIs
  <2> QED
    BY <2>1, <2>2
<1> QED
  BY <1>6

\* The versions before a version
LEMMA ChainToIs ==
    ASSUME MemoryInv
    PROVE  \A i \in 0 .. Len(patterns) :
              ChainTo[i] = IF i = 0 THEN {} ELSE {i} \cup ChainTo[patterns[i].supersedes]
<1> DEFINE n == Len(patterns)
           before == [i \in 1 .. n |-> patterns[i].supersedes]
           Body(f) == [i \in 0 .. n |-> IF i = NoVersion THEN {} ELSE {i} \cup f[patterns[i].supersedes]]
<1>1. n \in Nat /\ \A i \in 1 .. n : patterns[i].supersedes \in 0 .. i - 1
  <2>1. \A i \in 1 .. n : patterns[i] \in Pattern /\ patterns[i].supersedes < i
    BY DEF MemoryInv, MemoryTypeOK, Linked
  <2> QED
    BY <2>1, MemoryAssumption DEF Pattern, MemoryInv, MemoryTypeOK
<1>2. PICK f : f = [i \in 0 .. n |-> IF i = 0 THEN {} ELSE {i} \cup f[before[i]]]
  <2>1. \A i \in 1 .. n : before[i] \in 0 .. i - 1
    BY <1>1
  <2> HIDE DEF before, n
  <2> QED
    BY <1>1, <2>1, ChainExists
<1>3. f = Body(f)
  <2>1. \A i \in 0 .. n : i # 0 => before[i] = patterns[i].supersedes
    BY <1>1
  <2>2. [i \in 0 .. n |-> IF i = 0 THEN {} ELSE {i} \cup f[before[i]]] = Body(f)
    BY <2>1 DEF NoVersion
  <2> HIDE DEF Body, before
  <2> QED
    BY <1>2, <2>2
<1> DEFINE chain == CHOOSE g : g = Body(g)
<1>4. chain = Body(chain)
  <2> HIDE DEF Body
  <2> QED
    BY <1>3
<1>5. ChainTo = chain
  BY DEF ChainTo
<1> HIDE DEF chain
<1> QED
  BY <1>4, <1>5 DEF NoVersion

\* Along a chain, link by link, the lifecycle has only moved forward.
LEMMA ChainsGoForward == MemoryInv => ChainsForward
<1> SUFFICES ASSUME MemoryInv PROVE ChainsForward
  OBVIOUS
<1> DEFINE n == Len(patterns)
           Good(i) ==
              \A j \in ChainTo[i] :
                 /\ j \in 1 .. i
                 /\ j # i =>
                       /\ patterns[j].status \notin Terminal
                       /\ \/ patterns[i].status \in Terminal
                          \/ StatusRank[patterns[i].status] > StatusRank[patterns[j].status]
           T == {m \in 0 .. n : \A i \in 0 .. m : Good(i)}
<1>1. n \in Nat /\ \A i \in 1 .. n : /\ patterns[i].supersedes \in 0 .. i - 1
                                     /\ patterns[i].status \in Forward \cup Terminal
  <2>1. \A i \in 1 .. n : patterns[i] \in Pattern /\ patterns[i].supersedes < i
    BY DEF MemoryInv, MemoryTypeOK, Linked
  <2> QED
    BY <2>1, MemoryAssumption DEF Pattern, MemoryInv, MemoryTypeOK
<1>6. ASSUME NEW i \in 0 .. n
      PROVE  ChainTo[i] = IF i = 0 THEN {} ELSE {i} \cup ChainTo[patterns[i].supersedes]
  BY ChainToIs
<1>7. ChainTo[0] = {}
  <2>1. 0 \in 0 .. n
    BY <1>1
  <2>2. ChainTo[0] = IF 0 = 0 THEN {} ELSE {0} \cup ChainTo[patterns[0].supersedes]
    BY <1>6, <2>1
  <2> QED
    BY <2>2
<1>2. 0 \in T
  <2>1. ChainTo[0] = {}
    BY <1>7
  <2>2. \A i \in 0 .. 0 : Good(i)
    BY <2>1
  <2> QED
    BY <1>1, <2>2
<1>3. ASSUME NEW m \in 1 .. n, m - 1 \in T PROVE m \in T
  <2> DEFINE b == patterns[m].supersedes
  <2>1. ChainTo[m] = {m} \cup ChainTo[b]
    <3>1. m \in 0 .. n /\ m # 0
      BY <1>1
    <3> QED
      BY <1>6, <3>1
  <2>2. b \in 0 .. m - 1 /\ Good(b)
    BY <1>1, <1>3
  <2>3. ASSUME NEW j \in ChainTo[m], j # m
        PROVE  /\ j \in 1 .. m
               /\ patterns[j].status \notin Terminal
               /\ \/ patterns[m].status \in Terminal
                  \/ StatusRank[patterns[m].status] > StatusRank[patterns[j].status]
    <3>1. j \in ChainTo[b]
      BY <2>1, <2>3
    <3>2. b # 0
      BY <1>7, <3>1
    <3>3. MayMove(patterns[b].status, patterns[m].status)
      BY <3>2 DEF MemoryInv, Linked, NoVersion
    <3>4. j \in 1 .. b /\ b \in 1 .. n
      BY <1>1, <2>2, <3>1, <3>2
    <3>5. CASE j = b
      BY <3>3, <3>4, <3>5, <2>2 DEF MayMove
    <3>6. CASE j # b
      <4>1. /\ patterns[j].status \notin Terminal
            /\ \/ patterns[b].status \in Terminal
               \/ StatusRank[patterns[b].status] > StatusRank[patterns[j].status]
        BY <2>2, <3>1, <3>6
      <4>2. patterns[j].status \in Forward /\ patterns[b].status \in Forward
        BY <1>1, <3>3, <3>4, <4>1 DEF MayMove
      <4>3. patterns[m].status \notin Terminal =>
               StatusRank[patterns[m].status] > StatusRank[patterns[j].status]
        <5> SUFFICES ASSUME patterns[m].status \notin Terminal
                     PROVE  StatusRank[patterns[m].status] > StatusRank[patterns[j].status]
          OBVIOUS
        <5>1. patterns[m].status \in Forward
          BY <1>1
        <5>2. StatusRank[patterns[m].status] > StatusRank[patterns[b].status]
              /\ StatusRank[patterns[b].status] > StatusRank[patterns[j].status]
          BY <3>3, <4>1 DEF MayMove
        <5>3. /\ StatusRank[patterns[m].status] \in Nat
              /\ StatusRank[patterns[b].status] \in Nat /\ StatusRank[patterns[j].status] \in Nat
          BY <4>2, <5>1, StatusIs
        <5> QED
          BY <5>2, <5>3
      <4> QED
        BY <3>4, <4>1, <4>3, <2>2
    <3> QED
      BY <3>5, <3>6
  <2>4. Good(m)
    BY <2>3
  <2>5. ASSUME NEW i \in 0 .. m PROVE Good(i)
    <3>1. i = m \/ i \in 0 .. m - 1
      OBVIOUS
    <3> HIDE DEF Good
    <3> QED
      BY <1>3, <2>4, <3>1
  <2> HIDE DEF Good
  <2> QED
    BY <2>5
<1>4. \A m \in 0 .. n : m \in T
  <2> HIDE DEF T
  <2> QED
    BY <1>1, <1>2, <1>3, UpTo
<1>5. \A i \in 1 .. n : Good(i)
  <2>1. n \in T
    BY <1>1, <1>4
  <2> HIDE DEF Good
  <2> QED
    BY <1>1, <2>1
<1> SUFFICES ASSUME NEW i \in 1 .. n, NEW j \in ChainTo[i] \ {i}
             PROVE  /\ j < i
                    /\ patterns[j].status \notin Terminal
                    /\ patterns[i].status \in Terminal
                       \/ StatusRank[patterns[i].status] > StatusRank[patterns[j].status]
  BY DEF ChainsForward
<1> QED
  BY <1>5

\* Whatever sessions do, with however old a copy, patterns rest on evidence and only advance
\* (distill_patterns, transition_pattern).
THEOREM PatternsAreSound == ExperienceSpec => []PatternsSound
<1>1. MemoryInv => PatternsSound
  BY ChainsGoForward DEF MemoryInv, PatternsSound
<1> QED
  BY <1>1, MemoryAlways, PTL

-----------------------------------------------------------------------------
(* Orders *)

\* R is a strict total order of S; the place of a member is one more than the number of
\* those below it.
Ranked(S, R, below, place) ==
    /\ \A i \in S : <<i, i>> \notin R
    /\ \A i, j, k \in S : <<i, j>> \in R /\ <<j, k>> \in R => <<i, k>> \in R
    /\ \A i, j \in S : i = j \/ <<i, j>> \in R \/ <<j, i>> \in R
    /\ \A i \in S : below[i] \subseteq S /\ \A j \in S : j \in below[i] <=> <<j, i>> \in R
    /\ \A i \in S : place[i] = 1 + Cardinality(below[i])

\* The places number S in the order R.
Numbered(S, R, place) ==
    /\ \A i \in S : place[i] \in 1 .. Cardinality(S)
    /\ \A i, j \in S : <<i, j>> \in R <=> place[i] < place[j]
    /\ \A i, j \in S : place[i] = place[j] => i = j
    /\ \A n \in 1 .. Cardinality(S) : \E i \in S : place[i] = n

\* A finite set under a strict total order can be counted off.
LEMMA Places ==
    ASSUME NEW S, NEW R, NEW below, NEW place, IsFiniteSet(S), Ranked(S, R, below, place)
    PROVE  Numbered(S, R, place)
<1> USE DEF Ranked
<1> DEFINE N == Cardinality(S)
<1>1. \A i \in S : below[i] \subseteq S /\ i \notin below[i]
  OBVIOUS
<1>2. N \in Nat /\ \A i \in S : IsFiniteSet(below[i]) /\ Cardinality(below[i]) \in Nat
  BY <1>1, FS_Subset, FS_CardinalityType
<1>3. ASSUME NEW i \in S PROVE place[i] \in 1 .. N
  <2>1. Cardinality(below[i]) <= N /\ (N = Cardinality(below[i]) => S = below[i])
    BY <1>1, FS_Subset
  <2>2. place[i] = 1 + Cardinality(below[i])
    OBVIOUS
  <2> HIDE DEF N
  <2>3. N # Cardinality(below[i])
    BY <1>1, <2>1
  <2> QED
    BY <1>2, <2>1, <2>2, <2>3
<1>4. ASSUME NEW i \in S, NEW j \in S, <<i, j>> \in R PROVE place[i] < place[j]
  <2>1. below[i] \subseteq below[j] /\ i \in below[j] /\ i \notin below[i]
    <3>1. ASSUME NEW k \in below[i] PROVE k \in below[j]
      <4>1. k \in S /\ <<k, i>> \in R
        BY <3>1
      <4>2. <<k, j>> \in R
        BY <1>4, <4>1
      <4> QED
        BY <4>1, <4>2
    <3> QED
      BY <1>4, <3>1
  <2>2. place[i] = 1 + Cardinality(below[i]) /\ place[j] = 1 + Cardinality(below[j])
    OBVIOUS
  <2>3. Cardinality(below[i]) <= Cardinality(below[j])
        /\ (Cardinality(below[j]) = Cardinality(below[i]) => below[j] = below[i])
    BY <1>2, <2>1, FS_Subset
  <2>4. Cardinality(below[i]) # Cardinality(below[j])
    BY <2>1, <2>3
  <2> QED
    BY <1>2, <2>2, <2>3, <2>4
<1>5. \A i \in S : place[i] \in Nat
  BY <1>2, <1>3
<1>6. ASSUME NEW i \in S, NEW j \in S, place[i] < place[j] PROVE <<i, j>> \in R
  <2>1. i # j /\ ~(place[j] < place[i])
    <3>1. place[i] \in Nat /\ place[j] \in Nat
      BY <1>5
    <3> QED
      BY <1>6, <3>1
  <2>2. <<j, i>> \notin R
    BY <1>4, <2>1
  <2> QED
    BY <2>1, <2>2
<1>7. ASSUME NEW i \in S, NEW j \in S, place[i] = place[j] PROVE i = j
  <2>1. ~(place[j] < place[i]) /\ ~(place[i] < place[j])
    <3>1. place[i] \in Nat /\ place[j] \in Nat
      BY <1>5
    <3> QED
      BY <1>7, <3>1
  <2>2. <<j, i>> \notin R /\ <<i, j>> \notin R
    BY <1>4, <2>1
  <2> QED
    BY <2>2
<1>8. ASSUME NEW n \in 1 .. N PROVE \E i \in S : place[i] = n
  <2> DEFINE f == [i \in S |-> place[i]]
  <2>1. f \in Injection(S, 1 .. N)
    <3>1. f \in [S -> 1 .. N]
      BY <1>3
    <3>2. \A i, j \in S : f[i] = f[j] => i = j
      BY <1>7
    <3> QED
      BY <3>1, <3>2 DEF Injection, IsInjective
  <2>2. IsFiniteSet(1 .. N) /\ Cardinality(1 .. N) = N
    BY <1>2, FS_Interval
  <2> HIDE DEF f
  <2>3. f \in Surjection(S, 1 .. N)
    BY <2>1, <2>2, FS_Injection
  <2>4. \E i \in S : f[i] = n
    BY <2>3 DEF Surjection
  <2> QED
    BY <2>4 DEF f
<1> QED
  BY <1>3, <1>4, <1>6, <1>7, <1>8 DEF Numbered

-----------------------------------------------------------------------------
(* Offers *)

\* A greater number leaves every third number on one side.
LEMMA Products ==
    ASSUME NEW a \in Nat, NEW b \in Nat, NEW c \in Nat, a > b, c > 0
    PROVE  a * c > b * c
<1>1. a * c = b * c + (a - b) * c
  OBVIOUS
<1>2. (a - b) * c > 0
  <2>1. a - b \in Nat /\ a - b > 0
    OBVIOUS
  <2> QED
    BY <2>1
<1>3. b * c \in Nat /\ a * c \in Nat /\ (a - b) * c \in Int
  OBVIOUS
<1> QED
  BY <1>1, <1>2, <1>3

\* A positive factor does not turn a comparison.
LEMMA Cancelled ==
    ASSUME NEW a \in Nat, NEW b \in Nat, NEW c \in Nat, a * c > b * c
    PROVE  a > b
<1> SUFFICES ASSUME ~(a > b) PROVE FALSE
  OBVIOUS
<1>1. b * c = a * c + (b - a) * c
  OBVIOUS
<1>2. (b - a) * c >= 0
  <2>1. b - a \in Nat
    OBVIOUS
  <2> QED
    BY <2>1
<1>3. b * c \in Nat /\ a * c \in Nat /\ (b - a) * c \in Int
  OBVIOUS
<1> QED
  BY <1>1, <1>2, <1>3

\* A score is a fraction.
Fraction(x) == x[1] \in Nat /\ x[2] \in Nat \ {0}

\* Scores compare as fractions do: strictly, and so that what is not greater carries over.
LEMMA GreaterIsOrder ==
    ASSUME NEW x, NEW y, NEW z, Fraction(x), Fraction(y), Fraction(z)
    PROVE  /\ ~Greater(x, x)
           /\ Greater(x, y) => ~Greater(y, x)
           /\ Greater(x, y) => Greater(x, z) \/ Greater(z, y)
<1> DEFINE a == x[1]  b == x[2]  c == y[1]  d == y[2]  e == z[1]  f == z[2]
<1>1. /\ a \in Nat /\ c \in Nat /\ e \in Nat
      /\ b \in Nat /\ d \in Nat /\ f \in Nat /\ b > 0 /\ d > 0 /\ f > 0
  BY DEF Fraction
<1>2. /\ Greater(x, y) = (a * d > c * b) /\ Greater(y, x) = (c * b > a * d)
      /\ Greater(x, x) = (a * b > a * b)
      /\ Greater(x, z) = (a * f > e * b) /\ Greater(z, y) = (e * d > c * f)
  BY DEF Greater
<1> HIDE DEF a, b, c, d, e, f
<1>3. a * d \in Nat /\ c * b \in Nat /\ a * b \in Nat /\ a * f \in Nat /\ e * b \in Nat
      /\ e * d \in Nat /\ c * f \in Nat
  BY <1>1
<1>4. ASSUME a * d > c * b, ~(e * d > c * f) PROVE a * f > e * b
  <2>1. (a * d) * f > (c * b) * f
    BY <1>1, <1>3, <1>4, Products
  <2>2. (c * f) * b >= (e * d) * b
    <3>1. CASE c * f > e * d
      <4>1. (c * f) * b > (e * d) * b
        BY <1>1, <1>3, <3>1, Products
      <4>2. (c * f) * b \in Nat /\ (e * d) * b \in Nat
        BY <1>1, <1>3
      <4> QED
        BY <4>1, <4>2
    <3>2. CASE c * f = e * d
      <4>1. (c * f) * b \in Nat
        BY <1>1, <1>3
      <4> QED
        BY <3>2, <4>1
    <3> QED
      BY <1>3, <1>4, <3>1, <3>2
  <2>3. (a * d) * f = (a * f) * d /\ (c * b) * f = (c * f) * b /\ (e * d) * b = (e * b) * d
    BY <1>1
  <2>4. /\ (a * d) * f \in Nat /\ (c * b) * f \in Nat /\ (c * f) * b \in Nat /\ (e * d) * b \in Nat
        /\ (a * f) * d \in Nat /\ (e * b) * d \in Nat
    BY <1>1, <1>3
  <2>5. (a * f) * d > (e * b) * d
    BY <2>1, <2>2, <2>3, <2>4
  <2> QED
    BY <1>1, <1>3, <2>5, Cancelled
<1>5. ~Greater(x, x) /\ (Greater(x, y) => ~Greater(y, x))
  <2> DEFINE ab == a * b  ad == a * d  cb == c * b
  <2>1. ab \in Nat /\ ad \in Nat /\ cb \in Nat
    BY <1>3
  <2>2. /\ Greater(x, y) = (ad > cb) /\ Greater(y, x) = (cb > ad) /\ Greater(x, x) = (ab > ab)
    BY <1>2
  <2> HIDE DEF ab, ad, cb
  <2>3. ~(ab > ab) /\ ~(ad > cb /\ cb > ad)
    BY <2>1
  <2> QED
    BY <2>2, <2>3
<1>6. Greater(x, y) => Greater(x, z) \/ Greater(z, y)
  BY <1>2, <1>4
<1> QED
  BY <1>5, <1>6

\* What a session compares
LEMMA Compared ==
    ASSUME NEW q \in Query, NEW s \in Signatures
    PROVE  /\ Shared(q, s) \in Nat /\ (Shared(q, s) = 0 <=> s.facets \cap q.facets = {})
           /\ Overlap(q, s) \in Nat /\ (Overlap(q, s) = 0 <=> s.words \cap q.words = {})
           /\ Tier(q, s) \in 0 .. 3
           /\ Tier(q, s) = 0 <=> q.sha256 = s.sha256
           /\ Tier(q, s) = 1 <=> q.sha256 # s.sha256 /\ Shared(q, s) > 0
           /\ Tier(q, s) = 3 <=> q.sha256 # s.sha256 /\ Shared(q, s) = 0 /\ Overlap(q, s) = 0
           /\ Tier(q, s) < 3 => Fraction(Score(q, s))
           /\ Tier(q, s) = 1 => Score(q, s) = <<Shared(q, s), 1>>
<1>1. /\ IsFiniteSet(q.facets \cap s.facets) /\ IsFiniteSet(q.words \cap s.words)
      /\ IsFiniteSet(q.words \cup s.words)
  BY FS_Intersection, FS_Union, MemoryAssumption
<1>2. Shared(q, s) \in Nat /\ (Shared(q, s) = 0 <=> s.facets \cap q.facets = {})
  BY <1>1, FS_CardinalityType, FS_EmptySet DEF Shared
<1>3. Overlap(q, s) \in Nat /\ (Overlap(q, s) = 0 <=> s.words \cap q.words = {})
  BY <1>1, FS_CardinalityType, FS_EmptySet DEF Overlap
<1>4. Overlap(q, s) > 0 => Union(q, s) \in Nat \ {0}
  <2>1. Overlap(q, s) <= Union(q, s)
    BY <1>1, FS_Subset DEF Overlap, Union
  <2>2. Union(q, s) \in Nat
    BY <1>1, FS_CardinalityType DEF Union
  <2> QED
    BY <1>3, <2>1, <2>2
<1>5. /\ Tier(q, s) \in 0 .. 3
      /\ Tier(q, s) = 0 <=> q.sha256 = s.sha256
      /\ Tier(q, s) = 1 <=> q.sha256 # s.sha256 /\ Shared(q, s) > 0
      /\ Tier(q, s) = 3 <=> q.sha256 # s.sha256 /\ Shared(q, s) = 0 /\ Overlap(q, s) = 0
      /\ Tier(q, s) = 2 => Overlap(q, s) > 0
  BY <1>2, <1>3 DEF Tier
<1>6. /\ Tier(q, s) = 0 => Score(q, s) = <<1, 1>>
      /\ Tier(q, s) = 1 => Score(q, s) = <<Shared(q, s), 1>>
      /\ Tier(q, s) = 2 => Score(q, s) = <<Overlap(q, s), Union(q, s)>>
  BY <1>5 DEF Score
<1>7. Tier(q, s) < 3 => Fraction(Score(q, s))
  <2>1. CASE Tier(q, s) = 0
    BY <1>6, <2>1 DEF Fraction
  <2>2. CASE Tier(q, s) = 1
    BY <1>2, <1>6, <2>2 DEF Fraction
  <2>3. CASE Tier(q, s) = 2
    BY <1>3, <1>4, <1>5, <1>6, <2>3 DEF Fraction
  <2> QED
    BY <1>5, <2>1, <2>2, <2>3
<1> QED
  BY <1>2, <1>3, <1>5, <1>6, <1>7

\* What matches, in an index over published snapshots
LEMMA ScoredIs ==
    ASSUME MemoryTypeOK, NEW q \in Query, NEW ids \in SUBSET (1 .. Len(patterns))
    PROVE  /\ Scored(q, ids) \subseteq ids /\ IsFiniteSet(Scored(q, ids))
           /\ \A i \in ids : i \in Int /\ patterns[i].signature \in Signatures
           /\ \A i \in Scored(q, ids) : Tier(q, patterns[i].signature) < 3
<1>1. Scored(q, ids) \subseteq ids /\ \A i \in Scored(q, ids) : Tier(q, patterns[i].signature) < 3
  BY DEF Scored, Tips
<1>2. Len(patterns) \in Nat /\ IsFiniteSet(1 .. Len(patterns))
  BY FS_Interval DEF MemoryTypeOK
<1>3. IsFiniteSet(Scored(q, ids))
  BY <1>1, <1>2, FS_Subset
<1>4. \A i \in ids : i \in Int /\ patterns[i] \in Pattern
  BY <1>2 DEF MemoryTypeOK
<1> QED
  BY <1>1, <1>3, <1>4 DEF Pattern

\* The sort key puts what matches in a row.
LEMMA BeforeIsOrder ==
    ASSUME MemoryTypeOK, NEW q \in Query, NEW ids \in SUBSET (1 .. Len(patterns))
    PROVE  LET m == Scored(q, ids)
           IN  /\ \A i \in m : ~Before(q, i, i)
               /\ \A i, j, k \in m : Before(q, i, j) /\ Before(q, j, k) => Before(q, i, k)
               /\ \A i, j \in m : i = j \/ Before(q, i, j) \/ Before(q, j, i)
<1> DEFINE m == Scored(q, ids)
           T(i) == Tier(q, patterns[i].signature)
           S(i) == Score(q, patterns[i].signature)
           G(i, j) == Greater(S(i), S(j))
<1>1. ASSUME NEW i \in m PROVE i \in Int /\ T(i) \in Int /\ Fraction(S(i))
  <2>1. m \subseteq ids /\ \A k \in ids : k \in Int /\ patterns[k].signature \in Signatures
    BY ScoredIs
  <2>2. Tier(q, patterns[i].signature) < 3
    BY ScoredIs
  <2>3. i \in Int /\ patterns[i].signature \in Signatures
    BY <2>1
  <2> QED
    BY <2>2, <2>3, Compared
<1>2. \A i, j, k \in m : ~G(i, i) /\ (G(i, j) => ~G(j, i)) /\ (G(i, j) => G(i, k) \/ G(k, j))
  <2> HIDE DEF m
  <2> QED
    BY <1>1, GreaterIsOrder
<1>3. \A i, j \in m : Before(q, i, j) <=>
          \/ T(i) < T(j)
          \/ T(i) = T(j) /\ G(i, j)
          \/ T(i) = T(j) /\ i < j /\ ~G(j, i)
  BY DEF Before
<1> HIDE DEF m, T, S, G
<1>4. \A i \in m : ~Before(q, i, i)
  BY <1>1, <1>2, <1>3
<1>5. ASSUME NEW i \in m, NEW j \in m, NEW k \in m, Before(q, i, j), Before(q, j, k)
      PROVE  Before(q, i, k)
  <2>1. /\ i \in Int /\ j \in Int /\ k \in Int /\ T(i) \in Int /\ T(j) \in Int /\ T(k) \in Int
    BY <1>1
  <2>2. CASE T(i) < T(j) \/ T(j) < T(k)
    BY <1>3, <1>5, <2>1, <2>2
  <2>3. CASE T(i) = T(j) /\ T(j) = T(k)
    <3>1. (G(i, j) \/ (i < j /\ ~G(j, i))) /\ (G(j, k) \/ (j < k /\ ~G(k, j)))
      BY <1>3, <1>5, <2>1, <2>3
    <3>2. ~G(k, i)
      BY <1>2, <3>1
    <3>3. G(i, k) \/ i < k
      BY <1>2, <2>1, <3>1
    <3> QED
      BY <1>3, <2>3, <3>2, <3>3
  <2> QED
    BY <1>3, <1>5, <2>1, <2>2, <2>3
<1>6. ASSUME NEW i \in m, NEW j \in m, i # j, ~Before(q, i, j) PROVE Before(q, j, i)
  BY <1>1, <1>2, <1>3, <1>6
<1> QED
  BY <1>4, <1>5, <1>6 DEF m

\* What is offered: the first of what matches, in that order.
LEMMA BestIs ==
    ASSUME MemoryTypeOK, NEW q \in Query, NEW ids \in SUBSET (1 .. Len(patterns)), NEW limit \in Nat
    PROVE  LET m == Scored(q, ids)
               best == Best(q, ids, limit)
               offered == {best[n] : n \in DOMAIN best}
           IN  /\ offered \subseteq m
               /\ Len(best) <= limit /\ DOMAIN best = 1 .. Len(best) /\ Len(best) \in Nat
               /\ Cardinality(offered) = Len(best)
               /\ \A i, j \in DOMAIN best : i < j => Before(q, best[i], best[j])
               /\ \A i \in m \ offered : Len(best) = limit /\ \A j \in offered : Before(q, j, i)
<1> DEFINE m == Scored(q, ids)
           N == Cardinality(m)
           R == {p \in m \X m : Before(q, p[1], p[2])}
           place == [i \in m |-> 1 + Cardinality({j \in m : Before(q, j, i)})]
           L == IF N < limit THEN N ELSE limit
           best == Best(q, ids, limit)
           offered == {best[n] : n \in DOMAIN best}
<1>1. IsFiniteSet(m) /\ N \in Nat /\ L \in Nat /\ L <= limit /\ L <= N /\ (L < limit => L = N)
  BY ScoredIs, FS_CardinalityType
<1>2. \A i, j \in m : <<i, j>> \in R <=> Before(q, i, j)
  OBVIOUS
<1>3. /\ \A i \in m : place[i] \in 1 .. N
      /\ \A i, j \in m : Before(q, i, j) <=> place[i] < place[j]
      /\ \A i, j \in m : place[i] = place[j] => i = j
      /\ \A n \in 1 .. N : \E i \in m : place[i] = n
  <2>1. /\ \A i \in m : <<i, i>> \notin R
        /\ \A i, j, k \in m : <<i, j>> \in R /\ <<j, k>> \in R => <<i, k>> \in R
        /\ \A i, j \in m : i = j \/ <<i, j>> \in R \/ <<j, i>> \in R
    <3> HIDE DEF R, m
    <3> QED
      BY <1>2, BeforeIsOrder DEF m
  <2> DEFINE below == [i \in m |-> {j \in m : Before(q, j, i)}]
  <2>2. /\ \A i \in m : below[i] \subseteq m /\ \A j \in m : j \in below[i] <=> <<j, i>> \in R
        /\ \A i \in m : place[i] = 1 + Cardinality(below[i])
    <3> HIDE DEF R, m
    <3> QED
      BY <1>2
  <2> HIDE DEF R, m, place, N, below
  <2>3. Ranked(m, R, below, place)
    BY <2>1, <2>2 DEF Ranked
  <2>4. Numbered(m, R, place)
    <3>1. IsFiniteSet(m)
      BY <1>1
    <3> QED
      BY <2>3, <3>1, Places
  <2> QED
    BY <1>2, <2>4 DEF N, Numbered
<1>4. best = [n \in 1 .. L |-> CHOOSE i \in m : place[i] = n]
  <2>1. best = [n \in 1 .. L |-> CHOOSE i \in m : 1 + Cardinality({j \in m : Before(q, j, i)}) = n]
    BY DEF Best
  <2>2. \A n \in 1 .. L : (CHOOSE i \in m : 1 + Cardinality({j \in m : Before(q, j, i)}) = n)
                             = (CHOOSE i \in m : place[i] = n)
    OBVIOUS
  <2> DEFINE old(n) == CHOOSE i \in m : 1 + Cardinality({j \in m : Before(q, j, i)}) = n
             new(n) == CHOOSE i \in m : place[i] = n
  <2>3. best = [n \in 1 .. L |-> old(n)] /\ \A n \in 1 .. L : old(n) = new(n)
    BY <2>1, <2>2
  <2> HIDE DEF best, m, L, place, old, new
  <2>4. best = [n \in 1 .. L |-> new(n)]
    BY <2>3
  <2> QED
    BY <2>4 DEF new
<1> HIDE DEF m, N, R, place, L, best
<1>5. \A n \in 1 .. L : best[n] \in m /\ place[best[n]] = n
  <2> SUFFICES ASSUME NEW n \in 1 .. L PROVE best[n] \in m /\ place[best[n]] = n
    OBVIOUS
  <2>1. n \in 1 .. N
    BY <1>1
  <2> QED
    BY <1>3, <1>4, <2>1
<1>6. best \in Seq(m) /\ Len(best) = L /\ DOMAIN best = 1 .. L
  <2>1. best \in [1 .. L -> m]
    BY <1>4, <1>5
  <2> QED
    BY <1>1, <2>1
<1>7. Cardinality(offered) = L
  <2> DEFINE f == [n \in 1 .. L |-> best[n]]
  <2>1. f \in Bijection(1 .. L, offered)
    <3>1. f \in [1 .. L -> offered] /\ \A y \in offered : \E n \in 1 .. L : f[n] = y
      BY <1>6
    <3>2. \A i, j \in 1 .. L : f[i] = f[j] => i = j
      <4> SUFFICES ASSUME NEW i \in 1 .. L, NEW j \in 1 .. L, best[i] = best[j] PROVE i = j
        OBVIOUS
      <4>1. place[best[i]] = i /\ place[best[j]] = j
        BY <1>5
      <4> QED
        BY <4>1
    <3> QED
      BY <3>1, <3>2 DEF Bijection, Injection, Surjection, IsInjective
  <2>2. IsFiniteSet(1 .. L) /\ Cardinality(1 .. L) = L
    BY <1>1, FS_Interval
  <2> HIDE DEF f, offered
  <2>3. ExistsBijection(1 .. L, offered)
    BY <2>1 DEF ExistsBijection
  <2>4. Cardinality(1 .. L) = Cardinality(offered)
    BY <2>2, <2>3, FS_Bijection
  <2> QED
    BY <2>2, <2>4
<1>8. \A i, j \in DOMAIN best : i < j => Before(q, best[i], best[j])
  BY <1>3, <1>5, <1>6
<1>9. ASSUME NEW i \in m, i \notin offered
      PROVE  L = limit /\ \A j \in offered : Before(q, j, i)
  <2>1. place[i] \in 1 .. N
    BY <1>3
  <2>2. place[i] \notin 1 .. L
    <3> SUFFICES ASSUME place[i] \in 1 .. L PROVE FALSE
      OBVIOUS
    <3>1. best[place[i]] \in m /\ place[best[place[i]]] = place[i]
      BY <1>5
    <3>2. best[place[i]] = i
      BY <1>3, <3>1
    <3> QED
      BY <1>6, <1>9, <3>2
  <2>3. L < place[i] /\ L = limit
    BY <1>1, <2>1, <2>2
  <2>4. ASSUME NEW j \in offered PROVE Before(q, j, i)
    <3>1. PICK n \in 1 .. L : j = best[n]
      BY <1>6
    <3>2. j \in m /\ place[j] = n
      BY <1>5, <3>1
    <3> QED
      BY <1>1, <1>3, <2>1, <2>3, <3>2
  <2> QED
    BY <2>3, <2>4
<1>10. offered \subseteq m
  BY <1>5, <1>6
<1> QED
  BY <1>1, <1>6, <1>7, <1>8, <1>9, <1>10 DEF m, best

\* The offer is the one the session's records give.
OfferInv ==
    /\ offer.query \in Query /\ offer.limit \in 1 .. 5
    /\ offer.seen \subseteq 1 .. Len(patterns)
    /\ offer.found = Best(offer.query, offer.seen, offer.limit)
    /\ offer.abstained <=> Scored(offer.query, offer.seen) = {}

\* New snapshots do not change what an older index offers.
LEMMA BestStays ==
    ASSUME NEW q, NEW ids, NEW limit, \A i \in ids : patterns'[i] = patterns[i]
    PROVE  Best(q, ids, limit)' = Best(q, ids, limit) /\ Scored(q, ids)' = Scored(q, ids)
<1>1. Superseded(ids)' = Superseded(ids)
  BY DEF Superseded
<1>2. Tips(ids)' = Tips(ids) /\ Tips(ids) \subseteq ids
  BY <1>1 DEF Tips
<1>3. Scored(q, ids)' = Scored(q, ids)
  <2> DEFINE M(i) == patterns[i].status \in Promoted /\ Tier(q, patterns[i].signature) < 3
  <2>1. \A i \in ids : M(i)' = M(i)
    <3> SUFFICES ASSUME NEW i \in ids PROVE M(i)' = M(i)
      OBVIOUS
    <3>1. patterns'[i] = patterns[i]
      OBVIOUS
    <3> QED
      BY <3>1 DEF Tier, Shared, Overlap
  <2>2. Scored(q, ids) = {i \in Tips(ids) : M(i)} /\ Scored(q, ids)' = {i \in Tips(ids)' : M(i)'}
    BY DEF Scored
  <2> HIDE DEF M
  <2> QED
    BY <1>2, <2>1, <2>2
<1>4. \A i, j \in ids : Before(q, i, j)' = Before(q, i, j)
  BY DEF Before
<1>5. Scored(q, ids) \subseteq ids
  BY <1>2 DEF Scored
<1>6. \A i \in Scored(q, ids) :
         {j \in Scored(q, ids) : Before(q, j, i)'} = {j \in Scored(q, ids) : Before(q, j, i)}
  BY <1>4, <1>5
<1>7. \A n : (CHOOSE i \in Scored(q, ids) : 1 + Cardinality({j \in Scored(q, ids) : Before(q, j, i)'}) = n)
             = (CHOOSE i \in Scored(q, ids) : 1 + Cardinality({j \in Scored(q, ids) : Before(q, j, i)}) = n)
  BY <1>6
<1>8. Best(q, ids, limit)' = Best(q, ids, limit)
  <2> DEFINE m == Scored(q, ids)
             L == IF Cardinality(m) < limit THEN Cardinality(m) ELSE limit
             old(n) == CHOOSE i \in m : 1 + Cardinality({j \in m : Before(q, j, i)}) = n
             new(n) == CHOOSE i \in m : 1 + Cardinality({j \in m : Before(q, j, i)'}) = n
  <2>1. Best(q, ids, limit) = [n \in 1 .. L |-> old(n)]
    BY DEF Best
  <2>2. Best(q, ids, limit)' = [n \in 1 .. L |-> new(n)]
    BY <1>3 DEF Best
  <2>3. \A n : old(n) = new(n)
    BY <1>7
  <2> HIDE DEF old, new, L, m
  <2> QED
    BY <2>1, <2>2, <2>3
<1> QED
  BY <1>3, <1>8

\* What was offered stays justified when versions are added: the session saw none of them.
LEMMA OfferStep ==
    ASSUME MemoryInv, OfferInv, [ExperienceNext]_<<memoryVars, heuristicVars>> PROVE OfferInv'
<1>1. ASSUME NEW p, Publish(p) PROVE OfferInv'
  <2>1. /\ Len(patterns') = Len(patterns) + 1 /\ Len(patterns) \in Nat
        /\ \A i \in 1 .. Len(patterns) : patterns'[i] = patterns[i]
    BY <1>1, Appended DEF MemoryInv
  <2>2. UNCHANGED offer
    BY <1>1 DEF Publish
  <2> DEFINE q == offer.query  ids == offer.seen  limit == offer.limit
  <2>3. \A i \in ids : patterns'[i] = patterns[i]
    BY <2>1 DEF OfferInv
  <2>4. Best(q, ids, limit)' = Best(q, ids, limit) /\ Scored(q, ids)' = Scored(q, ids)
    <3>1. \A x, y, z : (\A i \in y : patterns'[i] = patterns[i]) =>
              Best(x, y, z)' = Best(x, y, z) /\ Scored(x, y)' = Scored(x, y)
      BY BestStays
    <3> QED
      BY <2>2, <2>3, <3>1
  <2> QED
    BY <2>1, <2>2, <2>4 DEF OfferInv
<1>2. ASSUME UNCHANGED <<patterns, offer>> PROVE OfferInv'
  BY <1>2 DEF OfferInv, Best, Scored, Before, Tips, Superseded
<1>3. ASSUME NEW q \in Query, NEW limit \in Limit, Retrieve(q, limit) PROVE OfferInv'
  <2>1. /\ offer' = [query |-> q, limit |-> limit, seen |-> index, found |-> Best(q, index, limit),
                     abstained |-> Scored(q, index) = {}]
        /\ UNCHANGED <<patterns, index>>
    BY <1>3 DEF Retrieve
  <2>2. index \subseteq 1 .. Len(patterns) /\ limit \in 1 .. 5
    BY MemoryAssumption DEF MemoryInv, MemoryTypeOK
  <2>3. Best(q, index, limit)' = Best(q, index, limit) /\ Scored(q, index)' = Scored(q, index)
    BY <2>1 DEF Best, Scored, Before, Tips, Superseded
  <2> QED
    BY <2>1, <2>2, <2>3 DEF OfferInv
<1> QED
  BY <1>1, <1>2, <1>3 DEF ExperienceNext, MemoryNext, CaptureCase, Distill, Transition, BuildIndex, memoryVars

\* So it always holds, beside the invariant of the patterns.
LEMMA OfferAlways == ExperienceSpec => [](MemoryInv /\ OfferInv)
<1>1. ExperienceInit => OfferInv
  <2> SUFFICES ASSUME ExperienceInit PROVE OfferInv
    OBVIOUS
  <2>1. PICK q \in Query : offer = [query |-> q, limit |-> 1, seen |-> {}, found |-> <<>>, abstained |-> TRUE]
    BY DEF ExperienceInit, MemoryInit
  <2>2. Scored(q, {}) = {}
    BY DEF Scored, Tips
  <2>3. Best(q, {}, 1) = <<>>
    <3>1. Cardinality({}) = 0 /\ 1 .. 0 = {}
      BY FS_EmptySet
    <3>2. DOMAIN Best(q, {}, 1) = {}
      BY <2>2, <3>1 DEF Best
    <3> DEFINE best == Best(q, {}, 1)
    <3> DEFINE m == Scored(q, {})
               L == IF Cardinality(m) < 1 THEN Cardinality(m) ELSE 1
               old(n) == CHOOSE i \in m : 1 + Cardinality({j \in m : Before(q, j, i)}) = n
    <3>3. best = [n \in 1 .. L |-> old(n)]
      BY DEF Best
    <3> HIDE DEF best, m, L, old
    <3>4. best \in [1 .. 0 -> {}]
      BY <3>1, <3>2, <3>3 DEF best
    <3>5. best \in Seq({}) /\ Len(best) = 0
      BY <3>1, <3>4
    <3> QED
      BY <3>5 DEF best
  <2> QED
    BY <2>1, <2>2, <2>3 DEF OfferInv
<1>2. OfferInv /\ MemoryInv /\ [ExperienceNext]_<<memoryVars, heuristicVars>> => OfferInv'
  BY OfferStep
<1> QED
  BY <1>1, <1>2, MemoryAlways, PTL DEF ExperienceSpec

\* What one is better by puts it before.
LEMMA BetterIsBefore ==
    ASSUME MemoryTypeOK, NEW q \in Query, NEW ids \in SUBSET (1 .. Len(patterns)),
           NEW i \in ids, NEW j \in ids, Better(q, i, j)
    PROVE  Tier(q, patterns[i].signature) < 2 /\ Before(q, i, j)
<1> DEFINE s == patterns[i].signature  t == patterns[j].signature
<1>1. s \in Signatures /\ t \in Signatures
  BY ScoredIs
<1>2. CASE s.sha256 = q.sha256 /\ t.sha256 # q.sha256
  <2>1. Tier(q, s) = 0 /\ Tier(q, t) \in 0 .. 3 /\ Tier(q, t) # 0
    BY <1>1, <1>2, Compared
  <2> QED
    BY <2>1 DEF Before
<1>3. CASE s.sha256 # q.sha256 /\ t.sha256 # q.sha256 /\ Shared(q, s) > Shared(q, t)
  <2>1. Shared(q, s) \in Nat /\ Shared(q, t) \in Nat
    BY <1>1, Compared
  <2>2. Tier(q, s) = 1 /\ Score(q, s) = <<Shared(q, s), 1>>
    BY <1>1, <1>3, <2>1, Compared
  <2>3. CASE Shared(q, t) = 0
    <3>1. Tier(q, t) \in 0 .. 3 /\ Tier(q, t) # 0 /\ Tier(q, t) # 1
      BY <1>1, <1>3, <2>3, Compared
    <3> QED
      BY <2>2, <3>1 DEF Before
  <2>4. CASE Shared(q, t) # 0
    <3>1. Tier(q, t) = 1 /\ Score(q, t) = <<Shared(q, t), 1>>
      BY <1>1, <1>3, <2>1, <2>4, Compared
    <3>2. Greater(Score(q, s), Score(q, t))
      BY <1>3, <2>1, <2>2, <3>1 DEF Greater
    <3> QED
      BY <2>2, <3>1, <3>2 DEF Before
  <2> QED
    BY <2>3, <2>4
<1> QED
  BY <1>2, <1>3 DEF Better

\* What retrieval offers is justified by what its session has seen (retrieve_patterns).
THEOREM OffersAreJustified == ExperienceSpec => []OffersJustified
<1>1. MemoryInv /\ OfferInv => OffersJustified
  <2> SUFFICES ASSUME MemoryInv, OfferInv PROVE OffersJustified
    OBVIOUS
  <2> DEFINE q == offer.query
             m == Scored(q, offer.seen)
             offered == {offer.found[n] : n \in DOMAIN offer.found}
             current == {i \in offer.seen : /\ patterns[i].status \in Promoted
                                            /\ \A j \in offer.seen : patterns[j].supersedes # i}
  <2>1. MemoryTypeOK /\ q \in Query /\ offer.seen \in SUBSET (1 .. Len(patterns))
        /\ offer.limit \in Nat /\ offer.limit > 0 /\ offer.found = Best(q, offer.seen, offer.limit)
    BY DEF MemoryInv, OfferInv
  <2>2. /\ offered \subseteq m
        /\ Len(offer.found) <= offer.limit /\ DOMAIN offer.found = 1 .. Len(offer.found)
        /\ Len(offer.found) \in Nat
        /\ Cardinality(offered) = Len(offer.found)
        /\ \A i, j \in DOMAIN offer.found : i < j => Before(q, offer.found[i], offer.found[j])
        /\ \A i \in m \ offered : Len(offer.found) = offer.limit /\ \A j \in offered : Before(q, j, i)
    <3> DEFINE seen == offer.seen
               limit == offer.limit
    <3>1. q \in Query /\ seen \in SUBSET (1 .. Len(patterns)) /\ limit \in Nat
      BY <2>1
    <3>2. offer.found = Best(q, seen, limit)
      BY <2>1
    <3> HIDE DEF m, q, seen, limit
    <3>3. LET p == Scored(q, seen)
              best == Best(q, seen, limit)
              these == {best[n] : n \in DOMAIN best}
          IN  /\ these \subseteq p
              /\ Len(best) <= limit /\ DOMAIN best = 1 .. Len(best) /\ Len(best) \in Nat
              /\ Cardinality(these) = Len(best)
              /\ \A i, j \in DOMAIN best : i < j => Before(q, best[i], best[j])
              /\ \A i \in p \ these : Len(best) = limit /\ \A j \in these : Before(q, j, i)
      BY <2>1, <3>1, BestIs
    <3> QED
      BY <3>2, <3>3 DEF m, seen, limit
  <2>3. m = {i \in current : Tier(q, patterns[i].signature) < 3}
    BY DEF Scored, Tips, Superseded
  <2>4. \A i \in offer.seen : i \in Int /\ patterns[i].signature \in Signatures
    BY <2>1, ScoredIs
  <2>5. /\ \A i \in m : ~Before(q, i, i)
        /\ \A i, j, k \in m : Before(q, i, j) /\ Before(q, j, k) => Before(q, i, k)
    BY <2>1, BeforeIsOrder
  <2>6. \A i, j \in offer.seen : Better(q, i, j) =>
           Tier(q, patterns[i].signature) < 2 /\ Before(q, i, j)
    BY <2>1, BetterIsBefore
  <2>7. m \subseteq current /\ current \subseteq offer.seen
    BY <2>3
  <2> HIDE DEF m, offered, current, q
  <2>8. ASSUME NEW i \in offered, NEW j \in ChainTo[i] PROVE patterns[j].status \notin Terminal
    <3>1. i \in 1 .. Len(patterns) /\ patterns[i].status \in Promoted
      BY <2>1, <2>2, <2>7 DEF current
    <3>2. CASE j = i
      BY <3>1, <3>2, StatusIs
    <3>3. CASE j # i
      BY <3>1, <3>3, ChainsGoForward DEF ChainsForward
    <3> QED
      BY <3>2, <3>3
  <2>9. ASSUME NEW a \in DOMAIN offer.found, NEW b \in DOMAIN offer.found, a < b
        PROVE  ~Better(q, offer.found[b], offer.found[a])
    <3>1. offer.found[a] \in m /\ offer.found[b] \in m
      BY <2>2 DEF offered
    <3>2. Before(q, offer.found[a], offer.found[b])
      BY <2>2, <2>9
    <3>3. ~Before(q, offer.found[b], offer.found[a])
      BY <2>5, <3>1, <3>2
    <3> QED
      BY <2>6, <2>7, <3>1, <3>3
  <2>10. ASSUME NEW i \in current, i \notin offered
         PROVE  /\ Len(offer.found) < offer.limit =>
                      /\ patterns[i].signature.sha256 # q.sha256
                      /\ patterns[i].signature.facets \cap q.facets = {}
                      /\ patterns[i].signature.words \cap q.words = {}
                /\ \A j \in offered : ~Better(q, i, j)
    <3>1. patterns[i].signature \in Signatures /\ i \in offer.seen
      BY <2>4, <2>7
    <3>2. CASE i \in m
      <4>1. Len(offer.found) = offer.limit /\ \A j \in offered : Before(q, j, i)
        BY <2>2, <2>10, <3>2
      <4>2. ASSUME NEW j \in offered, Better(q, i, j) PROVE FALSE
        <5>1. j \in m /\ Before(q, i, j) /\ Before(q, j, i)
          BY <2>2, <2>6, <2>7, <3>1, <4>1, <4>2
        <5> QED
          BY <2>5, <3>2, <5>1
      <4> QED
        BY <2>1, <2>2, <4>1, <4>2
    <3>3. CASE i \notin m
      <4>1. ~(Tier(q, patterns[i].signature) < 3)
        BY <2>3, <2>10, <3>3
      <4>2. Tier(q, patterns[i].signature) = 3
        BY <2>1, <3>1, <4>1, Compared
      <4>3. /\ patterns[i].signature.sha256 # q.sha256
            /\ patterns[i].signature.facets \cap q.facets = {}
            /\ patterns[i].signature.words \cap q.words = {}
        BY <2>1, <3>1, <4>2, Compared
      <4>4. \A j \in offered : ~Better(q, i, j)
        BY <2>2, <2>6, <2>7, <3>1, <4>2
      <4> QED
        BY <4>3, <4>4
    <3> QED
      BY <3>2, <3>3
  <2>11. offer.abstained <=> offered = {}
    <3>1. offer.abstained <=> m = {}
      BY DEF OfferInv, m, q
    <3>2. offered = {} => m = {}
      <4> SUFFICES ASSUME offered = {}, NEW i \in m PROVE FALSE
        OBVIOUS
      <4>1. Len(offer.found) = offer.limit
        BY <2>2
      <4>2. 1 \in DOMAIN offer.found
        BY <2>1, <2>2, <4>1
      <4> QED
        BY <4>2 DEF offered
    <3> QED
      BY <2>2, <3>1, <3>2
  <2>12. offered \subseteq current
    BY <2>2, <2>7
  <2> QED
    BY <2>2, <2>8, <2>9, <2>10, <2>11, <2>12 DEF OffersJustified, offered, current, q
<1> QED
  BY <1>1, OfferAlways, PTL

-----------------------------------------------------------------------------
(* Clusters *)

\* f is the recursion from base in which move[k] makes step k.
Recurs(f, n, base, move) ==
    \A k \in 0 .. n : f[k] = IF k = 0 THEN base ELSE move[k][f[k - 1]]

\* A recursion over an interval whose steps stay in a set defines a function.
LEMMA Recursion ==
  ASSUME NEW n \in Nat, NEW S, NEW base \in S, NEW move \in [1 .. n -> [S -> S]]
  PROVE  \E f \in [0 .. n -> S] : Recurs(f, n, base, move)
<1> DEFINE Upto(m) == \E f \in [0 .. m -> S] :
              \A k \in 0 .. m : f[k] = IF k = 0 THEN base ELSE move[k][f[k - 1]]
           T == {m \in 0 .. n : Upto(m)}
<1>1. 0 \in T
  <2>1. [k \in 0 .. 0 |-> base] \in [0 .. 0 -> S]
    OBVIOUS
  <2>2. \A k \in 0 .. 0 : [j \in 0 .. 0 |-> base][k] =
              IF k = 0 THEN base ELSE move[k][[j \in 0 .. 0 |-> base][k - 1]]
    OBVIOUS
  <2>3. Upto(0)
    BY <2>1, <2>2
  <2> QED
    BY <2>3
<1>2. ASSUME NEW m \in 1 .. n, m - 1 \in T PROVE m \in T
  <2>1. PICK f \in [0 .. m - 1 -> S] :
           \A k \in 0 .. m - 1 : f[k] = IF k = 0 THEN base ELSE move[k][f[k - 1]]
    BY <1>2
  <2> DEFINE g == [k \in 0 .. m |-> IF k = m THEN move[m][f[m - 1]] ELSE f[k]]
  <2>2. move[m][f[m - 1]] \in S
    OBVIOUS
  <2>3. g \in [0 .. m -> S]
    BY <2>2
  <2>4. \A k \in 0 .. m : g[k] = IF k = 0 THEN base ELSE move[k][g[k - 1]]
    <3> SUFFICES ASSUME NEW k \in 0 .. m
                 PROVE  g[k] = IF k = 0 THEN base ELSE move[k][g[k - 1]]
      OBVIOUS
    <3>1. CASE k = m
      <4>1. g[k] = move[m][f[m - 1]] /\ g[k - 1] = f[m - 1] /\ k # 0
        BY <3>1
      <4> QED
        BY <3>1, <4>1
    <3>2. CASE k # m
      <4>1. k \in 0 .. m - 1 /\ g[k] = f[k]
        BY <3>2
      <4>2. k # 0 => g[k - 1] = f[k - 1]
        BY <4>1
      <4> QED
        BY <2>1, <4>1, <4>2
    <3> QED
      BY <3>1, <3>2
  <2>5. Upto(m)
    BY <2>3, <2>4
  <2>6. m \in 0 .. n
    OBVIOUS
  <2> HIDE DEF Upto
  <2> QED
    BY <2>5, <2>6
<1> HIDE DEF T
<1>3. \A m \in 1 .. n : m - 1 \in T => m \in T
  BY <1>2
<1>4. \A m \in 0 .. n : m \in T
  BY <1>1, <1>3, UpTo
<1>5. n \in T
  BY <1>4
<1> QED
  BY <1>5 DEF T, Recurs


\* What a tier that groups by a key makes of the cases it is given
KeyGroups(cs, key) == {g \in {{d \in cs : key[d] = key[c]} : c \in cs} : Cardinality(g) > 1}

\* The groups are apart, hold all that share a key, and leave only cases with keys of their own.
Grouping(cs, key, groups) ==
    /\ \A g \in groups : /\ g # {} /\ g \subseteq cs /\ Cardinality(g) > 1
                         /\ \A c \in g, d \in cs : d \in g <=> key[c] = key[d]
    /\ \A g, h \in groups : g # h => g \cap h = {}
    /\ \A c \in cs \ UNION groups, d \in cs : key[c] = key[d] => c = d

\* emit groups by any key: apart, of two cases or more, all of those with one key.
LEMMA KeyGroupsAre ==
    ASSUME NEW cs, IsFiniteSet(cs), NEW key
    PROVE  Grouping(cs, key, KeyGroups(cs, key))
<1> DEFINE G == KeyGroups(cs, key)
           Class(c) == {d \in cs : key[d] = key[c]}
<1>1. \A g \in G : Cardinality(g) > 1 /\ \E c \in cs : g = Class(c)
  BY DEF KeyGroups
<1>2. \A c \in cs : Cardinality(Class(c)) > 1 => Class(c) \in G
  BY DEF KeyGroups
<1>3. \A c \in cs : c \in Class(c) /\ Class(c) \subseteq cs
  OBVIOUS
<1>4. \A c \in cs, d \in cs : d \in Class(c) <=> key[d] = key[c]
  OBVIOUS
<1>5. \A c, d \in cs : key[c] = key[d] => Class(c) = Class(d)
  OBVIOUS
<1> HIDE DEF G, Class
<1>6. ASSUME NEW c \in cs, c \notin UNION G, NEW d \in cs, key[c] = key[d], c # d PROVE FALSE
  <2>1. {c, d} \subseteq Class(c) /\ IsFiniteSet(Class(c))
    BY <1>3, <1>4, <1>6, FS_Subset
  <2>2. Cardinality({c, d}) = 2
    <3>1. IsFiniteSet({c}) /\ Cardinality({c}) = 1 /\ d \notin {c} /\ {c, d} = {c} \cup {d}
      BY <1>6, FS_Singleton
    <3> QED
      BY <3>1, FS_AddElement
  <2>3. Cardinality({c, d}) <= Cardinality(Class(c)) /\ Cardinality(Class(c)) \in Nat
    BY <2>1, FS_Subset, FS_CardinalityType
  <2>4. Class(c) \in G
    BY <1>2, <2>2, <2>3
  <2> QED
    BY <1>3, <1>6, <2>4
<1>7. ASSUME NEW g \in G
      PROVE  g # {} /\ g \subseteq cs /\ \A c \in g, d \in cs : d \in g <=> key[c] = key[d]
  BY <1>1, <1>3, <1>4
<1>8. ASSUME NEW g \in G, NEW h \in G, NEW c \in g, c \in h PROVE g = h
  BY <1>1, <1>3, <1>4, <1>5, <1>8
<1> QED
  BY <1>1, <1>6, <1>7, <1>8 DEF Grouping, G

\* A group that no bisection parts into strangers
Connected(g) ==
    \A part \in (SUBSET g) \ {{}, g} : \E c \in part, d \in g \ part : Similar(c, d)

\* Similarity of summaries is symmetric.
LEMMA SimilarBoth == ASSUME NEW c, NEW d, Similar(c, d) PROVE Similar(d, c)
<1> DEFINE v == c.signature.words
           w == d.signature.words
<1>1. v \cap w = w \cap v /\ v \cup w = w \cup v
  OBVIOUS
<1> HIDE DEF v, w
<1>2. Similar(c, d) = (/\ v # {} /\ w # {}
                       /\ Cardinality(v \cap w) * Threshold[2] >= Cardinality(v \cup w) * Threshold[1])
  BY DEF Similar, v, w
<1>3. Similar(d, c) = (/\ w # {} /\ v # {}
                       /\ Cardinality(w \cap v) * Threshold[2] >= Cardinality(w \cup v) * Threshold[1])
  BY DEF Similar, v, w
<1> QED
  BY <1>1, <1>2, <1>3

\* Who is similar to one of a group connects to all of it.
LEMMA ConnectedGrows ==
    ASSUME NEW g, Connected(g), NEW c, NEW d \in g, Similar(c, d)
    PROVE  Connected(g \cup {c})
<1> SUFFICES ASSUME NEW part \in SUBSET (g \cup {c}), part # {}, part # g \cup {c}
             PROVE  \E x \in part, y \in (g \cup {c}) \ part : Similar(x, y)
  BY DEF Connected
<1>1. CASE part \cap g = {}
  <2>1. c \in part /\ d \notin part
    BY <1>1
  <2> QED
    BY <2>1
<1>2. CASE g \subseteq part
  <2>1. d \in part /\ c \notin part
    BY <1>2
  <2>2. Similar(d, c)
    BY SimilarBoth
  <2> QED
    BY <2>1, <2>2
<1>3. CASE part \cap g # {} /\ ~(g \subseteq part)
  <2>1. part \cap g \in (SUBSET g) \ {{}, g}
    BY <1>3
  <2>2. PICK x \in part \cap g, y \in g \ (part \cap g) : Similar(x, y)
    BY <2>1 DEF Connected
  <2> QED
    BY <2>2
<1> QED
  BY <1>1, <1>2, <1>3

\* A group of one case is held together by nothing, and needs nothing.
LEMMA ConnectedAlone == ASSUME NEW c PROVE Connected({c})
BY DEF Connected

\* Groups of cases of R that between them hold the cases of S
Proposed(gs, S, R) ==
    /\ gs \in Seq(SUBSET R)
    /\ \A k \in DOMAIN gs : gs[k] # {} /\ gs[k] \subseteq S /\ Connected(gs[k])
    /\ \A x \in S : \E k \in DOMAIN gs : x \in gs[k]
    /\ \A k, l \in DOMAIN gs : k # l => gs[k] \cap gs[l] = {}

\* Joining keeps them a sequence of groups.
LEMMA JoinType ==
    ASSUME NEW R, NEW gs \in Seq(SUBSET R), NEW c \in R
    PROVE  Join(gs, c) \in Seq(SUBSET R)
<1> DEFINE near == {k \in DOMAIN gs : \E d \in gs[k] : Similar(c, d)}
           first == CHOOSE k \in near : \A l \in near : k <= l
<1>1. CASE near = {}
  <2>1. Join(gs, c) = Append(gs, {c})
    BY <1>1 DEF Join
  <2> QED
    BY <2>1
<1>2. CASE near # {}
  <2>1. Join(gs, c) = [gs EXCEPT ![first] = @ \cup {c}]
    BY <1>2 DEF Join
  <2>2. \A k \in DOMAIN gs : gs[k] \in SUBSET R
    OBVIOUS
  <2> DEFINE new == Join(gs, c)
  <2> HIDE DEF near, first, new
  <2>3. new = [k \in 1 .. Len(gs) |-> IF k = first THEN gs[k] \cup {c} ELSE gs[k]]
    <3>1. DOMAIN gs = 1 .. Len(gs)
      OBVIOUS
    <3>2. \A i : [gs EXCEPT ![i] = @ \cup {c}]
                    = [k \in DOMAIN gs |-> IF k = i THEN gs[k] \cup {c} ELSE gs[k]]
      OBVIOUS
    <3>3. new = [k \in DOMAIN gs |-> IF k = first THEN gs[k] \cup {c} ELSE gs[k]]
      BY <2>1, <3>2 DEF new
    <3> QED
      BY <3>1, <3>3
  <2>4. \A k \in 1 .. Len(gs) : gs[k] \in SUBSET R /\ gs[k] \cup {c} \in SUBSET R
    BY <2>2
  <2>5. new \in [1 .. Len(gs) -> SUBSET R]
    BY <2>3, <2>4
  <2>6. new \in Seq(SUBSET R)
    BY <2>5
  <2> QED
    BY <2>6 DEF new
<1> QED
  BY <1>1, <1>2

\* A case that joins the first group with a similar member, or opens one, leaves the groups
\* apart, connected and none of them empty.
LEMMA JoinKeeps ==
    ASSUME NEW R, NEW S, NEW gs, Proposed(gs, S, R), NEW c \in R, c \notin S
    PROVE  Proposed(Join(gs, c), S \cup {c}, R)
<1> DEFINE near == {k \in DOMAIN gs : \E d \in gs[k] : Similar(c, d)}
           first == CHOOSE k \in near : \A l \in near : k <= l
           new == Join(gs, c)
<1>1. /\ gs \in Seq(SUBSET R) /\ Len(gs) \in Nat /\ DOMAIN gs = 1 .. Len(gs)
      /\ \A k \in DOMAIN gs : gs[k] # {} /\ gs[k] \subseteq S /\ Connected(gs[k])
      /\ \A x \in S : \E k \in DOMAIN gs : x \in gs[k]
      /\ \A k, l \in DOMAIN gs : k # l => gs[k] \cap gs[l] = {}
  BY DEF Proposed
<1>2. new \in Seq(SUBSET R)
  BY <1>1, JoinType
<1>3. CASE near = {}
  <2>1. new = Append(gs, {c})
    BY <1>3 DEF Join
  <2>2. /\ DOMAIN new = 1 .. Len(gs) + 1 /\ new[Len(gs) + 1] = {c}
        /\ \A k \in DOMAIN gs : new[k] = gs[k]
    BY <1>1, <2>1
  <2> HIDE DEF new, near
  <2>3. \A k \in DOMAIN new : k \in DOMAIN gs \/ k = Len(gs) + 1
    BY <1>1, <2>2
  <2>4. \A k \in DOMAIN new : new[k] # {} /\ new[k] \subseteq S \cup {c} /\ Connected(new[k])
    <3> SUFFICES ASSUME NEW k \in DOMAIN new
                 PROVE  new[k] # {} /\ new[k] \subseteq S \cup {c} /\ Connected(new[k])
      OBVIOUS
    <3>1. CASE k \in DOMAIN gs
      <4>1. new[k] = gs[k]
        BY <2>2, <3>1
      <4> QED
        BY <1>1, <3>1, <4>1
    <3>2. CASE k = Len(gs) + 1
      BY <2>2, <3>2, ConnectedAlone
    <3> QED
      BY <2>3, <3>1, <3>2
  <2>5. \A x \in S \cup {c} : \E k \in DOMAIN new : x \in new[k]
    <3> SUFFICES ASSUME NEW x \in S \cup {c} PROVE \E k \in DOMAIN new : x \in new[k]
      OBVIOUS
    <3>1. Len(gs) + 1 \in DOMAIN new /\ DOMAIN gs \subseteq DOMAIN new
      BY <1>1, <2>2
    <3> QED
      BY <1>1, <2>2, <3>1
  <2>6. \A k, l \in DOMAIN new : k # l => new[k] \cap new[l] = {}
    <3>1. \A k \in DOMAIN gs : c \notin gs[k]
      BY <1>1
    <3> QED
      BY <1>1, <2>2, <2>3, <3>1
  <2> QED
    BY <1>2, <2>4, <2>5, <2>6 DEF Proposed, new
<1>4. CASE near # {}
  <2>1. new = [gs EXCEPT ![first] = @ \cup {c}]
    BY <1>4 DEF Join
  <2>2. near \subseteq Nat
    BY <1>1
  <2>3. \E k \in near : \A l \in near : k <= l
    <3> HIDE DEF near
    <3> QED
      BY <1>4, <2>2, LeastOf
  <2>4. first \in near
    <3> HIDE DEF near
    <3> QED
      BY <2>3
  <2>5. first \in DOMAIN gs /\ \E d \in gs[first] : Similar(c, d)
    <3> HIDE DEF first
    <3> QED
      BY <2>4
  <2> HIDE DEF near, first, new
  <2>6. /\ DOMAIN new = DOMAIN gs /\ new[first] = gs[first] \cup {c}
        /\ \A k \in DOMAIN gs : k # first => new[k] = gs[k]
    BY <1>1, <2>1, <2>5
  <2>7. Connected(gs[first] \cup {c})
    BY <1>1, <2>5, ConnectedGrows
  <2>8. \A k \in DOMAIN new : new[k] # {} /\ new[k] \subseteq S \cup {c} /\ Connected(new[k])
    <3> SUFFICES ASSUME NEW k \in DOMAIN new
                 PROVE  new[k] # {} /\ new[k] \subseteq S \cup {c} /\ Connected(new[k])
      OBVIOUS
    <3>1. CASE k = first
      BY <1>1, <2>5, <2>6, <2>7, <3>1
    <3>2. CASE k # first
      BY <1>1, <2>6, <3>2
    <3> QED
      BY <3>1, <3>2
  <2>9. \A x \in S \cup {c} : \E k \in DOMAIN new : x \in new[k]
    <3> SUFFICES ASSUME NEW x \in S \cup {c} PROVE \E k \in DOMAIN new : x \in new[k]
      OBVIOUS
    <3>1. CASE x = c
      BY <2>5, <2>6, <3>1
    <3>2. CASE x \in S
      <4>1. PICK k \in DOMAIN gs : x \in gs[k]
        BY <1>1, <3>2
      <4>2. x \in new[k]
        BY <2>6, <4>1
      <4> QED
        BY <2>6, <4>2
    <3> QED
      BY <3>1, <3>2
  <2>10. \A k, l \in DOMAIN new : k # l => new[k] \cap new[l] = {}
    <3>1. \A k \in DOMAIN gs : c \notin gs[k]
      BY <1>1
    <3> SUFFICES ASSUME NEW k \in DOMAIN gs, NEW l \in DOMAIN gs, k # l PROVE new[k] \cap new[l] = {}
      BY <2>6
    <3>2. gs[k] \cap gs[l] = {} /\ c \notin gs[k] /\ c \notin gs[l]
      BY <1>1, <3>1
    <3>3. CASE k = first
      <4>1. new[k] = gs[k] \cup {c} /\ new[l] = gs[l]
        BY <2>6, <3>3
      <4> QED
        BY <3>2, <4>1
    <3>4. CASE k # first
      <4>1. new[k] = gs[k] /\ (new[l] = gs[l] \/ new[l] = gs[l] \cup {c})
        BY <2>6, <3>4
      <4> QED
        BY <3>2, <4>1
    <3> QED
      BY <3>3, <3>4
  <2> QED
    BY <1>2, <2>8, <2>9, <2>10 DEF Proposed, new
<1> QED
  BY <1>3, <1>4

\* The order of the names counts the cases off.
LEMMA InOrderIs ==
    ASSUME NEW R, IsFiniteSet(R), R \subseteq CaseInput
    PROVE  LET N == Cardinality(R)
               order == InOrder(R)
           IN  /\ N \in Nat
               /\ \A n \in 1 .. N : order[n] \in R
               /\ \A m, n \in 1 .. N : order[m] = order[n] => m = n
               /\ \A c \in R : \E n \in 1 .. N : order[n] = c
<1> DEFINE N == Cardinality(R)
           order == InOrder(R)
           less == {p \in R \X R : p[1].case_id < p[2].case_id}
           below == [c \in R |-> {d \in R : d.case_id < c.case_id}]
           place == [c \in R |-> 1 + Cardinality(below[c])]
<1>1. /\ \A c \in R : c.case_id \in Nat
      /\ \A c, d \in R : c.case_id = d.case_id => c = d
  BY MemoryAssumption
<1>2. \A c, d \in R : <<c, d>> \in less <=> c.case_id < d.case_id
  OBVIOUS
<1>3. Ranked(R, less, below, place)
  <2> HIDE DEF less
  <2>1. \A c \in R : <<c, c>> \notin less
    BY <1>1, <1>2
  <2>2. \A c, d, e \in R : <<c, d>> \in less /\ <<d, e>> \in less => <<c, e>> \in less
    BY <1>1, <1>2
  <2>3. ASSUME NEW c \in R, NEW d \in R PROVE c = d \/ <<c, d>> \in less \/ <<d, c>> \in less
    <3>1. c.case_id \in Nat /\ d.case_id \in Nat /\ (c.case_id = d.case_id => c = d)
      BY <1>1
    <3>2. c.case_id < d.case_id \/ d.case_id < c.case_id \/ c.case_id = d.case_id
      BY <3>1
    <3> QED
      BY <1>2, <3>1, <3>2
  <2>4. \A c \in R : below[c] \subseteq R /\ \A d \in R : d \in below[c] <=> <<d, c>> \in less
    BY <1>2
  <2>5. \A c \in R : place[c] = 1 + Cardinality(below[c])
    <3> HIDE DEF below
    <3> QED
      OBVIOUS
  <2> QED
    BY <2>1, <2>2, <2>3, <2>4, <2>5 DEF Ranked
<1>4. /\ \A c \in R : place[c] \in 1 .. N
      /\ \A c, d \in R : place[c] = place[d] => c = d
      /\ \A n \in 1 .. N : \E c \in R : place[c] = n
  <2> HIDE DEF less, below, place
  <2> QED
    BY <1>3, Places DEF Numbered
<1>5. N \in Nat /\ \A c \in R : Cardinality(below[c]) \in Nat
  <2>1. \A c \in R : below[c] \subseteq R
    OBVIOUS
  <2> HIDE DEF below
  <2> QED
    BY <2>1, FS_Subset, FS_CardinalityType
<1>6. ASSUME NEW n \in 1 .. N PROVE order[n] \in R /\ place[order[n]] = n
  <2>1. order[n] = CHOOSE c \in R : Cardinality({d \in R : d.case_id < c.case_id}) = n - 1
    BY DEF InOrder
  <2>2. PICK c \in R : place[c] = n
    BY <1>4
  <2>3. Cardinality(below[c]) = n - 1
    <3> HIDE DEF below
    <3>1. place[c] = 1 + Cardinality(below[c])
      OBVIOUS
    <3> HIDE DEF place
    <3> QED
      BY <1>5, <2>2, <3>1
  <2>4. Cardinality({d \in R : d.case_id < c.case_id}) = n - 1
    BY <2>3
  <2>5. order[n] \in R /\ Cardinality({d \in R : d.case_id < order[n].case_id}) = n - 1
    <3> HIDE DEF order
    <3> QED
      BY <2>1, <2>4
  <2> HIDE DEF order
  <2>6. below[order[n]] = {d \in R : d.case_id < order[n].case_id}
    BY <2>5
  <2>7. place[order[n]] = 1 + Cardinality(below[order[n]])
    <3> HIDE DEF below
    <3> QED
      BY <2>5
  <2> HIDE DEF below, place
  <2> QED
    BY <2>5, <2>6, <2>7
<1> HIDE DEF order, place, below, less
<1>7. \A m, n \in 1 .. N : order[m] = order[n] => m = n
  BY <1>6
<1>8. \A c \in R : \E n \in 1 .. N : order[n] = c
  <2> SUFFICES ASSUME NEW c \in R PROVE order[place[c]] = c
    BY <1>4
  <2>1. order[place[c]] \in R /\ place[order[place[c]]] = place[c]
    BY <1>4, <1>6
  <2> QED
    BY <1>4, <2>1
<1> QED
  BY <1>5, <1>6, <1>7, <1>8 DEF order

\* The last tier proposes groups of all it is given.
LEMMA ProposalsAre ==
    ASSUME NEW R, IsFiniteSet(R), R \subseteq CaseInput
    PROVE  Proposed(Proposals(R), R, R)
<1> DEFINE N == Cardinality(R)
           order == InOrder(R)
           Q == Seq(SUBSET R)
           move == [n \in 1 .. N |-> [gs \in Q |-> Join(gs, order[n])]]
           Body(g) == [n \in 0 .. N |-> IF n = 0 THEN <<>> ELSE Join(g[n - 1], order[n])]
<1>1. /\ N \in Nat
      /\ \A n \in 1 .. N : order[n] \in R
      /\ \A m, n \in 1 .. N : order[m] = order[n] => m = n
      /\ \A c \in R : \E n \in 1 .. N : order[n] = c
  <2>1. LET M == Cardinality(R)
            these == InOrder(R)
        IN  /\ M \in Nat
            /\ \A n \in 1 .. M : these[n] \in R
            /\ \A m, n \in 1 .. M : these[m] = these[n] => m = n
            /\ \A c \in R : \E n \in 1 .. M : these[n] = c
    BY InOrderIs
  <2> QED
    BY <2>1
<1> HIDE DEF N, order
<1>2. move \in [1 .. N -> [Q -> Q]]
  <2>1. \A n \in 1 .. N, gs \in Q : Join(gs, order[n]) \in Q
    BY <1>1, JoinType
  <2> QED
    BY <2>1
<1>3. <<>> \in Q
  OBVIOUS
<1>4. PICK f \in [0 .. N -> Q] : Recurs(f, N, <<>>, move)
  <2> HIDE DEF move, Q
  <2> QED
    BY <1>1, <1>2, <1>3, Recursion
<1>5. f = Body(f)
  <2>1. \A n \in 0 .. N : f[n] = IF n = 0 THEN <<>> ELSE Join(f[n - 1], order[n])
    <3> SUFFICES ASSUME NEW n \in 0 .. N PROVE f[n] = IF n = 0 THEN <<>> ELSE Join(f[n - 1], order[n])
      OBVIOUS
    <3>1. CASE n = 0
      BY <1>4, <3>1 DEF Recurs
    <3>2. CASE n # 0
      <4>1. n \in 1 .. N /\ n - 1 \in 0 .. N /\ f[n - 1] \in Q
        BY <1>1, <3>2
      <4>2. f[n] = move[n][f[n - 1]]
        BY <1>4, <3>2 DEF Recurs
      <4> QED
        BY <3>2, <4>1, <4>2
    <3> QED
      BY <3>1, <3>2
  <2> HIDE DEF Q
  <2> QED
    BY <2>1
<1> DEFINE groups == CHOOSE g : g = Body(g)
<1>6. groups = Body(groups)
  <2> HIDE DEF Body
  <2>1. \E g : g = Body(g)
    BY <1>5
  <2> QED
    BY <2>1
<1>7. Proposals(R) = groups[N]
  BY DEF Proposals, order, N
<1>8. \A n \in 0 .. N : groups[n] = IF n = 0 THEN <<>> ELSE Join(groups[n - 1], order[n])
  <2> HIDE DEF groups
  <2> QED
    BY <1>6
<1> HIDE DEF groups, Body, move, Q
<1> DEFINE Taken(n) == {order[i] : i \in 1 .. n}
           T == {n \in 0 .. N : Proposed(groups[n], Taken(n), R)}
<1>9. 0 \in T
  <2>1. groups[0] = <<>> /\ 0 \in 0 .. N
    BY <1>1, <1>8
  <2>2. Taken(0) = {}
    OBVIOUS
  <2> HIDE DEF Taken
  <2>3. Proposed(groups[0], {}, R)
    BY <2>1 DEF Proposed
  <2> QED
    BY <2>1, <2>2, <2>3
<1>10. ASSUME NEW n \in 1 .. N, n - 1 \in T PROVE n \in T
  <2>1. n \in 0 .. N /\ n # 0
    BY <1>1
  <2>2. groups[n] = Join(groups[n - 1], order[n])
    BY <1>8, <2>1
  <2>3. order[n] \in R /\ order[n] \notin Taken(n - 1)
    <3>1. \A i \in 1 .. n - 1 : i \in 1 .. N /\ i # n
      BY <1>1
    <3> QED
      BY <1>1, <3>1
  <2>4. Taken(n) = Taken(n - 1) \cup {order[n]}
    <3>1. \A i : i \in 1 .. n <=> i \in 1 .. n - 1 \/ i = n
      BY <1>1
    <3> QED
      BY <3>1
  <2>5. Proposed(groups[n - 1], Taken(n - 1), R)
    BY <1>10
  <2> HIDE DEF Taken
  <2>6. Proposed(groups[n], Taken(n), R)
    BY <2>2, <2>3, <2>4, <2>5, JoinKeeps
  <2> QED
    BY <2>1, <2>6
<1>11. N \in T
  <2> HIDE DEF T
  <2>1. \A n \in 0 .. N : n \in T
    BY <1>1, <1>9, <1>10, UpTo
  <2> QED
    BY <1>1, <2>1
<1>12. Taken(N) = R
  BY <1>1
<1> HIDE DEF Taken
<1> QED
  BY <1>7, <1>11, <1>12

\* What cluster_cases makes of a finite set of cases
LEMMA ClustersJustify ==
    ASSUME NEW cs, IsFiniteSet(cs), cs \subseteq CaseInput PROVE ClustersJustified(cs)
<1> DEFINE exact == Exact(cs)
           left == cs \ UNION exact
           faceted == {c \in left : FacetsOf(c) # {}}
           structural == Structural(left)
           loose == left \ UNION structural
           placeable == {c \in loose : Placed(c)}
           taxonomy == ByTaxonomy(loose)
           rest == loose \ UNION taxonomy
           proposals == Proposals(rest)
           proposed == {proposals[k] : k \in DOMAIN proposals}
           print == [c \in cs |-> Fingerprint(c)]
           facets == [c \in cs |-> FacetsOf(c)]
           way == [c \in cs |-> PathOf(c)]
           found == Clusters(cs)
           Of(tier) == {g \in found : g.tier = tier}
<1>1. Grouping(cs, print, exact)
  <2>1. {{d \in cs : print[d] = print[c]} : c \in cs}
           = {{d \in cs : Fingerprint(d) = Fingerprint(c)} : c \in cs}
    OBVIOUS
  <2>2. exact = KeyGroups(cs, print)
    BY <2>1 DEF Exact, Grouped, KeyGroups
  <2> HIDE DEF exact, print
  <2> QED
    BY <2>2, KeyGroupsAre
<1>2. left \subseteq cs /\ faceted \subseteq left
  OBVIOUS
<1>3. Grouping(faceted, facets, structural)
  <2> HIDE DEF left
  <2>1. {{d \in faceted : facets[d] = facets[c]} : c \in faceted}
           = {{d \in faceted : FacetsOf(d) = FacetsOf(c)} : c \in faceted}
    BY <1>2
  <2>2. structural = KeyGroups(faceted, facets)
    BY <2>1 DEF Structural, Grouped, KeyGroups
  <2> HIDE DEF structural, facets, faceted
  <2>3. IsFiniteSet(faceted)
    BY <1>2, FS_Subset
  <2> QED
    BY <2>2, <2>3, KeyGroupsAre
<1>4. loose \subseteq left /\ placeable \subseteq loose
  OBVIOUS
<1>5. Grouping(placeable, way, taxonomy)
  <2> HIDE DEF loose, left
  <2>1. {{d \in placeable : way[d] = way[c]} : c \in placeable}
           = {{d \in placeable : PathOf(d) = PathOf(c)} : c \in placeable}
    BY <1>2, <1>4
  <2>2. taxonomy = KeyGroups(placeable, way)
    BY <2>1 DEF ByTaxonomy, Grouped, KeyGroups
  <2> HIDE DEF taxonomy, way, placeable
  <2>3. IsFiniteSet(placeable)
    BY <1>2, <1>4, FS_Subset
  <2> QED
    BY <2>2, <2>3, KeyGroupsAre
<1>6. rest \subseteq loose
  OBVIOUS
<1>7. Proposed(proposals, rest, rest)
  <2> HIDE DEF rest
  <2>1. IsFiniteSet(rest) /\ rest \subseteq CaseInput
    BY <1>2, <1>4, <1>6, FS_Subset
  <2> QED
    BY <2>1, ProposalsAre
<1>8. /\ \A g \in proposed : g # {} /\ g \subseteq rest /\ Connected(g)
      /\ \A c \in rest : \E g \in proposed : c \in g
      /\ \A g, h \in proposed : g # h => g \cap h = {}
  <2> HIDE DEF rest, proposals
  <2> QED
    BY <1>7 DEF Proposed
<1> DEFINE Labelled(tier, groups) == {[tier |-> tier, members |-> g] : g \in groups}
<1>9. found = Labelled("exact_fingerprint", exact) \cup Labelled("structural_fields", structural)
              \cup Labelled("taxonomy_path", taxonomy)
              \cup Labelled("semantic_proposal", {g \in proposed : Cardinality(g) > 1})
              \cup Labelled("singleton", {g \in proposed : Cardinality(g) = 1})
  BY DEF Clusters
<1> HIDE DEF exact, left, faceted, structural, loose, placeable, taxonomy, rest, proposals, proposed,
             found, print, facets, way
<1>10. \A g \in found :
         /\ g = [tier |-> g.tier, members |-> g.members]
         /\ \/ g.tier = "exact_fingerprint" /\ g.members \in exact
            \/ g.tier = "structural_fields" /\ g.members \in structural
            \/ g.tier = "taxonomy_path" /\ g.members \in taxonomy
            \/ g.tier = "semantic_proposal" /\ g.members \in proposed /\ Cardinality(g.members) > 1
            \/ g.tier = "singleton" /\ g.members \in proposed /\ Cardinality(g.members) = 1
  BY <1>9
<1>11. /\ \A g \in exact : [tier |-> "exact_fingerprint", members |-> g] \in found
       /\ \A g \in structural : [tier |-> "structural_fields", members |-> g] \in found
       /\ \A g \in taxonomy : [tier |-> "taxonomy_path", members |-> g] \in found
       /\ \A g \in proposed : Cardinality(g) > 1 => [tier |-> "semantic_proposal", members |-> g] \in found
       /\ \A g \in proposed : Cardinality(g) = 1 => [tier |-> "singleton", members |-> g] \in found
  BY <1>9
\* A case is of the tiers that grouped it, or is left to the next one.
<1>12. /\ UNION exact \subseteq cs /\ UNION structural \subseteq left /\ UNION taxonomy \subseteq loose
       /\ UNION proposed = rest
       /\ left = cs \ UNION exact /\ loose = left \ UNION structural /\ rest = loose \ UNION taxonomy
  <2>1. UNION exact \subseteq cs /\ UNION structural \subseteq faceted /\ UNION taxonomy \subseteq placeable
    BY <1>1, <1>3, <1>5 DEF Grouping
  <2>2. UNION proposed = rest
    BY <1>8
  <2> QED
    BY <1>2, <1>4, <2>1, <2>2 DEF left, loose, rest
<1>13. \A g \in proposed : Cardinality(g) > 1 \/ Cardinality(g) = 1
  <2> SUFFICES ASSUME NEW g \in proposed PROVE Cardinality(g) > 1 \/ Cardinality(g) = 1
    OBVIOUS
  <2>1. IsFiniteSet(g) /\ g # {}
    BY <1>2, <1>4, <1>6, <1>8, FS_Subset
  <2>2. Cardinality(g) \in Nat /\ Cardinality(g) # 0
    BY <2>1, FS_CardinalityType, FS_EmptySet
  <2> QED
    BY <2>2
<1>14. UNION {g.members : g \in found} = cs
  <2>1. ASSUME NEW g \in found PROVE g.members \subseteq cs
    BY <1>10, <1>12
  <2>2. ASSUME NEW c \in cs PROVE \E g \in found : c \in g.members
    <3>1. CASE c \in UNION exact
      BY <1>11, <3>1
    <3>2. CASE c \in UNION structural
      BY <1>11, <3>2
    <3>3. CASE c \in UNION taxonomy
      BY <1>11, <3>3
    <3>4. CASE c \in rest
      <4>1. PICK g \in proposed : c \in g
        BY <1>8, <3>4
      <4> QED
        BY <1>11, <1>13, <4>1
    <3> QED
      BY <1>12, <3>1, <3>2, <3>3, <3>4
  <2> QED
    BY <2>1, <2>2
<1>15. ASSUME NEW g \in found, NEW h \in found, NEW c \in g.members, c \in h.members PROVE g = h
  <2>1. g.members = h.members /\ (g.tier = h.tier)
    <3>1. CASE c \in UNION exact
      <4>1. g.tier = "exact_fingerprint" /\ g.members \in exact
            /\ h.tier = "exact_fingerprint" /\ h.members \in exact
        BY <1>10, <1>12, <1>15, <3>1
      <4> QED
        BY <1>1, <1>15, <4>1 DEF Grouping
    <3>2. CASE c \in UNION structural
      <4>1. g.tier = "structural_fields" /\ g.members \in structural
            /\ h.tier = "structural_fields" /\ h.members \in structural
        BY <1>10, <1>12, <1>15, <3>2
      <4> QED
        BY <1>3, <1>15, <4>1 DEF Grouping
    <3>3. CASE c \in UNION taxonomy
      <4>1. g.tier = "taxonomy_path" /\ g.members \in taxonomy
            /\ h.tier = "taxonomy_path" /\ h.members \in taxonomy
        BY <1>10, <1>12, <1>15, <3>3
      <4> QED
        BY <1>5, <1>15, <4>1 DEF Grouping
    <3>4. CASE c \in rest
      <4>1. g.members \in proposed /\ h.members \in proposed
        BY <1>10, <1>12, <1>15, <3>4
      <4>2. g.members = h.members
        BY <1>8, <1>15, <4>1
      <4>3. (g.tier = "semantic_proposal" /\ Cardinality(g.members) > 1)
            \/ (g.tier = "singleton" /\ Cardinality(g.members) = 1)
        BY <1>10, <1>12, <1>15, <3>4
      <4>4. (h.tier = "semantic_proposal" /\ Cardinality(g.members) > 1)
            \/ (h.tier = "singleton" /\ Cardinality(g.members) = 1)
        BY <1>10, <1>12, <1>15, <3>4, <4>2
      <4> QED
        BY <4>2, <4>3, <4>4
    <3>5. c \in cs
      BY <1>14, <1>15
    <3> QED
      BY <1>12, <3>1, <3>2, <3>3, <3>4, <3>5
  <2> QED
    BY <1>10, <2>1
<1>16. ASSUME NEW g \in found, NEW c \in g.members, NEW d \in cs, Fingerprint(c) = Fingerprint(d)
       PROVE  d \in g.members
  <2>1. c \in cs /\ print[c] = print[d]
    BY <1>14, <1>16 DEF print
  <2>2. CASE g.members \in exact
    BY <1>1, <2>1, <2>2 DEF Grouping
  <2>3. CASE c \notin UNION exact
    BY <1>1, <1>16, <2>1, <2>3 DEF Grouping
  <2>4. g.members \in exact \/ c \notin UNION exact
    BY <1>10, <1>12
  <2> QED
    BY <2>2, <2>3, <2>4
<1>17. ASSUME NEW g \in found, g.tier = "structural_fields", NEW c \in g.members, NEW d \in g.members
       PROVE  FacetsOf(c) = FacetsOf(d) /\ FacetsOf(c) # {}
  <2>1. g.members \in structural
    BY <1>10, <1>17
  <2>2. c \in faceted /\ d \in faceted /\ facets[c] = facets[d]
    BY <1>3, <2>1 DEF Grouping
  <2> QED
    BY <1>2, <2>2 DEF faceted, facets
<1>21. ASSUME NEW g \in found, g.tier = "exact_fingerprint", NEW c \in g.members, NEW d \in g.members
       PROVE  Fingerprint(c) = Fingerprint(d)
  <2>1. g.members \in exact
    BY <1>10, <1>21
  <2>2. c \in cs /\ d \in cs /\ print[c] = print[d]
    BY <1>1, <2>1 DEF Grouping
  <2> QED
    BY <2>2 DEF print
<1>22. ASSUME NEW g \in found, g.tier = "taxonomy_path", NEW c \in g.members, NEW d \in g.members
       PROVE  PathOf(c) = PathOf(d) /\ Placed(c)
  <2>1. g.members \in taxonomy
    BY <1>10, <1>22
  <2>2. c \in placeable /\ d \in placeable /\ way[c] = way[d]
    BY <1>5, <2>1 DEF Grouping
  <2>3. c \in cs /\ d \in cs
    BY <1>2, <1>4, <2>2
  <2> QED
    BY <2>2, <2>3 DEF placeable, way
<1> DEFINE low == UNION {g.members : g \in {h \in found : h.tier \in {"semantic_proposal", "singleton"}}}
<1>18. low \subseteq rest
  <2>1. \A g \in found : g.tier \in {"semantic_proposal", "singleton"} => g.members \in proposed
    BY <1>10
  <2> QED
    BY <1>12, <2>1
<1>19. ASSUME NEW c \in rest, NEW d \in rest, c # d
       PROVE  /\ FacetsOf(c) # {} => FacetsOf(c) # FacetsOf(d)
              /\ Placed(c) => PathOf(c) # PathOf(d)
  <2>1. /\ c \in cs /\ c \in left /\ c \notin UNION structural /\ c \in loose /\ c \notin UNION taxonomy
        /\ d \in cs /\ d \in left /\ d \in loose
    BY <1>2, <1>4, <1>12, <1>19
  <2>2. ASSUME FacetsOf(c) # {}, FacetsOf(c) = FacetsOf(d) PROVE FALSE
    <3>1. c \in faceted /\ d \in faceted /\ facets[c] = facets[d]
      BY <2>1, <2>2 DEF faceted, facets
    <3> QED
      BY <1>3, <1>19, <2>1, <3>1 DEF Grouping
  <2>3. ASSUME Placed(c), PathOf(c) = PathOf(d) PROVE FALSE
    <3>1. c \in placeable /\ d \in placeable /\ way[c] = way[d]
      BY <2>1, <2>3 DEF placeable, way, Placed
    <3> QED
      BY <1>5, <1>19, <2>1, <3>1 DEF Grouping
  <2> QED
    BY <2>2, <2>3
<1>20. \A g \in found : g.tier = "semantic_proposal" => Connected(g.members)
  BY <1>8, <1>10
<1> QED
  BY <1>14, <1>15, <1>16, <1>17, <1>18, <1>19, <1>20, <1>21, <1>22
     DEF ClustersJustified, Connected, found

\* The clusters of whatever has been captured are justified (cluster_cases).
THEOREM ClustersAreJustified == ExperienceSpec => []CapturedClusters
<1>1. MemoryInv => CapturedClusters
  BY ClustersJustify DEF MemoryInv, MemoryTypeOK, CapturedClusters
<1> QED
  BY <1>1, MemoryAlways, PTL

-----------------------------------------------------------------------------
(* Heuristics *)

\* heuristic/v1, as far as the lifecycle and the linter read it
Heuristic == [status : Statuses, supersedes : Nat, rule : Rule]

Registered == heuristics \in Seq(Heuristic)

\* The names of a registry are finitely many, and so are its tips, which are names.
LEMMA RegisteredIs ==
    ASSUME Registered
    PROVE  /\ Len(heuristics) \in Nat /\ IsFiniteSet(Names) /\ Cardinality(Names) = Len(heuristics)
           /\ \A i \in Names : heuristics[i] \in Heuristic /\ Text(i) \in Rule
           /\ LintTips \subseteq Names /\ Names \subseteq Nat
           /\ \A i \in Names : Cited(i) \subseteq LintTips
<1>1. Len(heuristics) \in Nat
  BY DEF Registered
<1>2. IsFiniteSet(Names) /\ Cardinality(Names) = Len(heuristics)
  <2>1. Names = 1 .. Len(heuristics) /\ 0 <= Len(heuristics)
    BY <1>1 DEF Names
  <2>2. IsFiniteSet(1 .. Len(heuristics)) /\ Cardinality(1 .. Len(heuristics)) = Len(heuristics)
    <3>1. \A n \in Nat : IsFiniteSet(1 .. n) /\ Cardinality(1 .. n) = n
      BY FS_Interval
    <3> QED
      BY <1>1, <3>1
  <2> QED
    BY <2>1, <2>2
<1>3. \A i \in Names : heuristics[i] \in Heuristic /\ Text(i) \in Rule
  <2>1. \A i \in Names : heuristics[i] \in Heuristic
    BY DEF Registered, Names
  <2> QED
    BY <2>1 DEF Text, Heuristic
<1>4. LintTips \subseteq Names /\ \A i \in Names : Cited(i) \subseteq LintTips
  BY DEF LintTips, Cited
<1>5. Names \subseteq Nat
  BY <1>1 DEF Names
<1> QED
  BY <1>1, <1>2, <1>3, <1>4, <1>5

\* How the pairs that yield are collected: steps first, then what two of them join to
Collected(reach) ==
    /\ reach \in [0 .. Len(heuristics) -> SUBSET (LintTips \X LintTips)]
    /\ \A a, b \in LintTips : <<a, b>> \in reach[0] <=> b \in Cited(a)
    /\ \A k \in 1 .. Len(heuristics) : \A a, b \in LintTips :
          <<a, b>> \in reach[k] <=>
             \/ <<a, b>> \in reach[k - 1]
             \/ \E c \in LintTips : <<a, c>> \in reach[k - 1] /\ <<c, b>> \in reach[k - 1]

\* The recursion of YieldsTo, by its steps
LEMMA YieldsToIs ==
    ASSUME Registered
    PROVE  \E reach : YieldsTo = reach[Len(heuristics)] /\ Collected(reach)
<1> DEFINE L == Len(heuristics)
           pairs == LintTips \X LintTips
           Q == SUBSET pairs
           base == {p \in pairs : p[2] \in Cited(p[1])}
           More(r) == r \cup {p \in pairs : \E k \in LintTips : {<<p[1], k>>, <<k, p[2]>>} \subseteq r}
           move == [n \in 1 .. L |-> [r \in Q |-> More(r)]]
           Body(g) == [n \in 0 .. L |-> IF n = 0 THEN base ELSE More(g[n - 1])]
           reach == CHOOSE g : g = Body(g)
<1>1. L \in Nat
  BY RegisteredIs
<1>2. base \in Q /\ \A r \in Q : More(r) \in Q
  OBVIOUS
<1>3. \A r \in Q : \A a, b \in LintTips :
         <<a, b>> \in More(r) <=> <<a, b>> \in r \/ \E c \in LintTips : <<a, c>> \in r /\ <<c, b>> \in r
  OBVIOUS
<1>4. \A a, b \in LintTips : <<a, b>> \in base <=> b \in Cited(a)
  OBVIOUS
<1> HIDE DEF More, base, Q
<1>5. move \in [1 .. L -> [Q -> Q]]
  BY <1>2
<1>6. PICK f \in [0 .. L -> Q] : Recurs(f, L, base, move)
  <2> HIDE DEF move, L
  <2> QED
    BY <1>1, <1>2, <1>5, Recursion
<1>7. f = Body(f)
  <2>1. \A n \in 0 .. L : f[n] = IF n = 0 THEN base ELSE More(f[n - 1])
    <3> SUFFICES ASSUME NEW n \in 0 .. L PROVE f[n] = IF n = 0 THEN base ELSE More(f[n - 1])
      OBVIOUS
    <3>1. CASE n = 0
      BY <1>6, <3>1 DEF Recurs
    <3>2. CASE n # 0
      <4>1. n \in 1 .. L /\ n - 1 \in 0 .. L /\ f[n - 1] \in Q
        BY <1>1, <3>2
      <4>2. f[n] = move[n][f[n - 1]]
        BY <1>6, <3>2 DEF Recurs
      <4> QED
        BY <3>2, <4>1, <4>2
    <3> QED
      BY <3>1, <3>2
  <2> QED
    BY <2>1
<1>8. reach = Body(reach)
  <2> HIDE DEF Body
  <2>1. \E g : g = Body(g)
    BY <1>7
  <2> QED
    BY <2>1
<1>9. YieldsTo = reach[L]
  BY DEF YieldsTo, base, More
<1>10. \A n \in 0 .. L : reach[n] = IF n = 0 THEN base ELSE More(reach[n - 1])
  <2> HIDE DEF reach
  <2> QED
    BY <1>8
<1>11. DOMAIN reach = 0 .. L /\ reach = [n \in 0 .. L |-> reach[n]]
  <2> HIDE DEF reach
  <2> QED
    BY <1>8
<1> HIDE DEF reach, Body, move
<1> DEFINE T == {n \in 0 .. L : reach[n] \in Q}
<1>12. \A n \in 0 .. L : n \in T
  <2>1. 0 \in T
    BY <1>1, <1>2, <1>10
  <2>2. ASSUME NEW n \in 1 .. L, n - 1 \in T PROVE n \in T
    <3>1. n \in 0 .. L /\ n # 0
      BY <1>1
    <3> QED
      BY <1>2, <1>10, <2>2, <3>1
  <2> HIDE DEF T
  <2> QED
    BY <1>1, <2>1, <2>2, UpTo
<1>13. reach \in [0 .. L -> Q]
  BY <1>11, <1>12
<1>14. Collected(reach)
  <2>1. \A a, b \in LintTips : <<a, b>> \in reach[0] <=> b \in Cited(a)
    <3>1. reach[0] = base
      <4>1. 0 \in 0 .. L
        BY <1>1
      <4> QED
        BY <1>10, <4>1
    <3> QED
      BY <1>4, <3>1
  <2>2. ASSUME NEW k \in 1 .. L, NEW a \in LintTips, NEW b \in LintTips
        PROVE  <<a, b>> \in reach[k] <=>
                  \/ <<a, b>> \in reach[k - 1]
                  \/ \E c \in LintTips : <<a, c>> \in reach[k - 1] /\ <<c, b>> \in reach[k - 1]
    <3>1. k \in 0 .. L /\ k # 0 /\ k - 1 \in 0 .. L
      BY <1>1
    <3>2. reach[k] = More(reach[k - 1]) /\ reach[k - 1] \in Q
      BY <1>10, <1>13, <3>1
    <3> QED
      BY <1>3, <3>2
  <2> QED
    BY <1>13, <2>1, <2>2 DEF Collected, Q
<1> QED
  BY <1>9, <1>14

\* Who cites only members of a set that is closed yields only to members.
LEMMA Confined ==
    ASSUME Registered, NEW D, \A d \in D : d \in LintTips /\ Cited(d) \subseteq D,
           NEW n \in LintTips, Cited(n) \subseteq D, NEW m \in LintTips, <<n, m>> \in YieldsTo
    PROVE  m \in D
<1> DEFINE L == Len(heuristics)
           A == {a \in LintTips : Cited(a) \subseteq D}
<1>1. L \in Nat
  BY RegisteredIs
<1>2. PICK reach : YieldsTo = reach[L] /\ Collected(reach)
  BY YieldsToIs
<1> DEFINE T == {k \in 0 .. L : \A a \in A, b \in LintTips : <<a, b>> \in reach[k] => b \in D}
<1>3. D \subseteq A /\ A \subseteq LintTips /\ n \in A /\ \A a \in A : Cited(a) \subseteq D
  OBVIOUS
<1> HIDE DEF A
<1>4. 0 \in T
  BY <1>1, <1>2, <1>3 DEF Collected
<1>5. ASSUME NEW k \in 1 .. L, k - 1 \in T PROVE k \in T
  <2>1. k \in 0 .. L
    BY <1>1
  <2>2. ASSUME NEW a \in A, NEW b \in LintTips, <<a, b>> \in reach[k] PROVE b \in D
    <3>1. CASE <<a, b>> \in reach[k - 1]
      BY <1>5, <3>1
    <3>2. CASE \E c \in LintTips : <<a, c>> \in reach[k - 1] /\ <<c, b>> \in reach[k - 1]
      <4>1. PICK c \in LintTips : <<a, c>> \in reach[k - 1] /\ <<c, b>> \in reach[k - 1]
        BY <3>2
      <4>2. c \in D
        BY <1>5, <4>1
      <4> QED
        BY <1>3, <1>5, <4>1, <4>2
    <3> QED
      BY <1>2, <1>3, <2>2, <3>1, <3>2 DEF Collected
  <2> QED
    BY <2>1, <2>2
<1>6. L \in T
  <2> HIDE DEF T
  <2>1. \A k \in 0 .. L : k \in T
    BY <1>1, <1>4, <1>5, UpTo
  <2> QED
    BY <1>1, <2>1
<1> QED
  BY <1>2, <1>3, <1>6

\* The first of a walk over citations yields to the last.
LEMMA WalkYields ==
    ASSUME Registered, NEW s \in 1 .. Len(heuristics), NEW p \in [0 .. s -> LintTips],
           \A i \in 0 .. s - 1 : p[i + 1] \in Cited(p[i])
    PROVE  <<p[0], p[s]>> \in YieldsTo
<1> DEFINE L == Len(heuristics)
<1>1. L \in Nat /\ s \in Nat /\ s >= 1 /\ s <= L
  BY RegisteredIs
<1>2. PICK reach : YieldsTo = reach[L] /\ Collected(reach)
  BY YieldsToIs
<1>3. \A k \in 1 .. L : \A a, b \in LintTips :
         /\ <<a, b>> \in reach[k - 1] => <<a, b>> \in reach[k]
         /\ \A c \in LintTips : <<a, c>> \in reach[k - 1] /\ <<c, b>> \in reach[k - 1] => <<a, b>> \in reach[k]
  BY <1>2 DEF Collected
<1>4. \A i \in 0 .. s : p[i] \in LintTips
  OBVIOUS
<1> DEFINE Got(k) == /\ \A a, b \in LintTips : b \in Cited(a) => <<a, b>> \in reach[k]
                     /\ <<p[0], p[IF k < s THEN k + 1 ELSE s]>> \in reach[k]
           T == {k \in 0 .. L : Got(k)}
<1>5. 0 \in T
  <2>1. p[1] \in Cited(p[0]) /\ 0 < s
    <3>1. 0 \in 0 .. s - 1 /\ 0 + 1 = 1
      BY <1>1
    <3> QED
      BY <1>1, <3>1
  <2>2. \A a, b \in LintTips : b \in Cited(a) => <<a, b>> \in reach[0]
    BY <1>2 DEF Collected
  <2> QED
    BY <1>1, <1>4, <2>1, <2>2
<1>6. ASSUME NEW k \in 1 .. L, k - 1 \in T PROVE k \in T
  <2>1. k \in 0 .. L
    BY <1>1
  <2>2. \A a, b \in LintTips : b \in Cited(a) => <<a, b>> \in reach[k]
    BY <1>3, <1>6
  <2>3. CASE k < s
    <3>1. <<p[0], p[k]>> \in reach[k - 1]
      BY <1>6, <2>3
    <3>2. p[k + 1] \in Cited(p[k]) /\ p[k + 1] \in LintTips /\ p[k] \in LintTips /\ p[0] \in LintTips
      BY <1>1, <1>4, <2>3
    <3>3. <<p[k], p[k + 1]>> \in reach[k - 1]
      BY <1>6, <3>2
    <3>4. <<p[0], p[k + 1]>> \in reach[k]
      BY <1>3, <3>1, <3>2, <3>3
    <3> QED
      BY <2>1, <2>2, <2>3, <3>4
  <2>4. CASE k >= s
    <3>1. <<p[0], p[s]>> \in reach[k - 1]
      <4>1. (IF k - 1 < s THEN k - 1 + 1 ELSE s) = s
        BY <1>1, <2>4
      <4> QED
        BY <1>6, <4>1
    <3>2. <<p[0], p[s]>> \in reach[k]
      BY <1>1, <1>3, <1>4, <3>1
    <3> QED
      BY <1>1, <2>1, <2>2, <2>4, <3>2
  <2> QED
    BY <1>1, <2>3, <2>4
<1>7. L \in T
  <2> HIDE DEF T
  <2>1. \A k \in 0 .. L : k \in T
    BY <1>1, <1>5, <1>6, UpTo
  <2> QED
    BY <1>1, <2>1
<1>8. (IF L < s THEN L + 1 ELSE s) = s
  BY <1>1
<1>9. <<p[0], p[s]>> \in reach[L]
  BY <1>7, <1>8
<1> QED
  BY <1>2, <1>9

\* Each of a stack cites the one above it, and none is on it twice.
Stacked(s) ==
    /\ s \in Seq(LintTips)
    /\ \A j, k \in DOMAIN s : s[j] = s[k] => j = k
    /\ \A k \in 1 .. Len(s) - 1 : s[k + 1] \in Cited(s[k])

\* Such a stack is no longer than the registry.
LEMMA StackFits ==
    ASSUME Registered, NEW s, Stacked(s)
    PROVE  /\ Len(s) \in Nat /\ Len(s) <= Len(heuristics)
           /\ \A n \in Names : (\A k \in DOMAIN s : s[k] # n) => Len(s) < Len(heuristics)
<1>1. Len(s) \in Nat /\ DOMAIN s = 1 .. Len(s) /\ \A k \in 1 .. Len(s) : s[k] \in Names
  BY RegisteredIs DEF Stacked
<1> DEFINE f == [k \in 1 .. Len(s) |-> s[k]]
<1>2. f \in Injection(1 .. Len(s), Names)
  BY <1>1 DEF Stacked, Injection, IsInjective
<1>3. IsFiniteSet(1 .. Len(s)) /\ Cardinality(1 .. Len(s)) = Len(s)
  BY <1>1, FS_Interval
<1>4. IsFiniteSet(Names) /\ Cardinality(Names) = Len(heuristics) /\ Len(heuristics) \in Nat
  BY RegisteredIs
<1>5. /\ Cardinality(1 .. Len(s)) <= Cardinality(Names)
      /\ Cardinality(1 .. Len(s)) = Cardinality(Names) <=> f \in Surjection(1 .. Len(s), Names)
  <2> HIDE DEF f
  <2> QED
    BY <1>2, <1>4, FS_Injection
<1>6. ASSUME NEW n \in Names, \A k \in DOMAIN s : s[k] # n, Len(s) = Len(heuristics) PROVE FALSE
  <2>1. f \in Surjection(1 .. Len(s), Names)
    <3> HIDE DEF f
    <3> QED
      BY <1>3, <1>4, <1>5, <1>6
  <2>2. \E k \in 1 .. Len(s) : f[k] = n
    <3> HIDE DEF f
    <3> QED
      BY <2>1 DEF Surjection
  <2> QED
    BY <1>1, <1>6, <2>2
<1>7. Len(s) <= Len(heuristics)
  BY <1>3, <1>4, <1>5
<1> QED
  BY <1>1, <1>4, <1>6, <1>7

\* An open rule that the top of the stack cites closes a real cycle.
LEMMA CycleIsReal ==
    ASSUME Registered, NEW s, Stacked(s), NEW f \in DOMAIN s, s[f] \in Cited(s[Len(s)]),
           NEW a \in f .. Len(s), NEW b \in f .. Len(s)
    PROVE  <<s[a], s[b]>> \in YieldsTo
<1> DEFINE N == Len(s)
<1>1. N \in Nat /\ N <= Len(heuristics) /\ Len(heuristics) \in Nat /\ DOMAIN s = 1 .. N
      /\ \A k \in 1 .. N : s[k] \in LintTips
  <2>1. N \in Nat /\ N <= Len(heuristics) /\ Len(heuristics) \in Nat
    BY StackFits, RegisteredIs
  <2>2. s \in Seq(LintTips)
    BY DEF Stacked
  <2>3. DOMAIN s = 1 .. N /\ \A k \in 1 .. N : s[k] \in LintTips
    BY <2>2
  <2> QED
    BY <2>1, <2>3
<1>2. f \in Int /\ a \in Int /\ b \in Int /\ 1 <= f /\ f <= a /\ a <= N /\ f <= b /\ b <= N
  BY <1>1
<1>3. \A k \in 1 .. N - 1 : s[k + 1] \in Cited(s[k])
  BY DEF Stacked
<1> HIDE DEF N
<1>4. CASE a < b
  <2> DEFINE p == [i \in 0 .. b - a |-> s[a + i]]
  <2>1. b - a \in 1 .. Len(heuristics)
    BY <1>1, <1>2, <1>4
  <2>2. p \in [0 .. b - a -> LintTips]
    BY <1>1, <1>2, <1>4
  <2>3. ASSUME NEW i \in 0 .. (b - a) - 1 PROVE p[i + 1] \in Cited(p[i])
    <3>1. a + i \in 1 .. N - 1 /\ (a + i) + 1 = a + (i + 1) /\ i \in 0 .. b - a /\ i + 1 \in 0 .. b - a
      BY <1>1, <1>2, <1>4
    <3>2. p[i] = s[a + i] /\ p[i + 1] = s[a + (i + 1)]
      BY <3>1
    <3> QED
      BY <1>3, <3>1, <3>2
  <2>4. p[0] = s[a] /\ p[b - a] = s[b]
    BY <1>2, <1>4
  <2> HIDE DEF p
  <2>5. <<p[0], p[b - a]>> \in YieldsTo
    BY <2>1, <2>2, <2>3, WalkYields
  <2> QED
    BY <2>4, <2>5
<1>5. CASE b <= a
  <2> DEFINE u == N - a
             t == u + 1 + (b - f)
             p == [i \in 0 .. t |-> IF i <= u THEN s[a + i] ELSE s[f + (i - u - 1)]]
  <2>1. u \in Nat /\ t \in 1 .. Len(heuristics) /\ u < t
    BY <1>1, <1>2, <1>5
  <2>2. p \in [0 .. t -> LintTips]
    <3> SUFFICES ASSUME NEW i \in 0 .. t PROVE p[i] \in LintTips
      OBVIOUS
    <3>1. CASE i <= u
      <4>1. a + i \in 1 .. N
        BY <1>1, <1>2, <3>1
      <4> QED
        BY <1>1, <3>1, <4>1
    <3>2. CASE ~(i <= u)
      <4>1. f + (i - u - 1) \in 1 .. N
        BY <1>1, <1>2, <1>5, <3>2
      <4> QED
        BY <1>1, <3>2, <4>1
    <3> QED
      BY <3>1, <3>2
  <2>3. ASSUME NEW i \in 0 .. t - 1 PROVE p[i + 1] \in Cited(p[i])
    <3>1. i \in 0 .. t /\ i + 1 \in 0 .. t
      BY <2>1
    <3>2. CASE i < u
      <4>1. a + i \in 1 .. N - 1 /\ (a + i) + 1 = a + (i + 1) /\ i <= u /\ i + 1 <= u
        BY <1>1, <1>2, <3>2
      <4>2. p[i] = s[a + i] /\ p[i + 1] = s[a + (i + 1)]
        BY <3>1, <4>1
      <4> QED
        BY <1>3, <4>1, <4>2
    <3>3. CASE i = u
      <4>1. a + i = N /\ f + ((i + 1) - u - 1) = f /\ i <= u /\ ~(i + 1 <= u)
        BY <1>1, <1>2, <3>3
      <4>2. p[i] = s[N] /\ p[i + 1] = s[f]
        BY <3>1, <4>1
      <4> QED
        BY <4>2 DEF N
    <3>4. CASE i > u
      <4>1. /\ f + (i - u - 1) \in 1 .. N - 1 /\ (f + (i - u - 1)) + 1 = f + ((i + 1) - u - 1)
            /\ ~(i <= u) /\ ~(i + 1 <= u)
        BY <1>1, <1>2, <1>5, <3>4
      <4>2. p[i] = s[f + (i - u - 1)] /\ p[i + 1] = s[f + ((i + 1) - u - 1)]
        BY <3>1, <4>1
      <4> QED
        BY <1>3, <4>1, <4>2
    <3> QED
      BY <2>1, <3>2, <3>3, <3>4
  <2>4. p[0] = s[a] /\ p[t] = s[b]
    <3>1. a + 0 = a /\ f + (t - u - 1) = b /\ 0 <= u /\ ~(t <= u) /\ 0 \in 0 .. t /\ t \in 0 .. t
      BY <1>1, <1>2, <1>5, <2>1
    <3> QED
      BY <3>1
  <2> HIDE DEF p, t, u
  <2>5. <<p[0], p[t]>> \in YieldsTo
    BY <2>1, <2>2, <2>3, WalkYields
  <2> QED
    BY <2>4, <2>5
<1> QED
  BY <1>2, <1>4, <1>5

\* The rules that the search has finished with
Finished(w) == {i \in Names : w.state[i] = Done}

\* What holds all through the search: the open rules are those on the stack, the cycles
\* found are real, and while there is none what is done yields to nothing but what is done,
\* and never to itself.
Searching(w) ==
    /\ w \in Search /\ Stacked(w.stack)
    /\ \A i \in Names : w.state[i] = Open <=> \E k \in DOMAIN w.stack : w.stack[k] = i
    /\ \A ids \in w.found : ids # {} /\ \A i, j \in ids : <<i, j>> \in YieldsTo
    /\ Finished(w) \subseteq LintTips
    /\ w.found = {} =>
          \A d \in Finished(w) : Cited(d) \subseteq Finished(w) /\ <<d, d>> \notin YieldsTo

\* Back at the same stack, with no less found and done
Later(w, u) == u.stack = w.stack /\ w.found \subseteq u.found /\ Finished(w) \subseteq Finished(u)

\* The top of the stack, if there is one, cites n, which is not marked; there is room.
Visitable(n, w, room) ==
    /\ Searching(w) /\ n \in LintTips /\ w.state[n] = Unseen
    /\ w.stack # <<>> => n \in Cited(w.stack[Len(w.stack)])
    /\ room >= Len(heuristics) - Len(w.stack)

VisitedAs(n, w, u) == Searching(u) /\ Later(w, u) /\ n \in Finished(u)

VisitTable == [Names -> [Search -> Search]]

\* The parts of a search
LEMMA SearchIs ==
    \A w \in Search : /\ w.state \in [Names -> {Unseen, Open, Done}] /\ w.stack \in Seq(Names)
                      /\ w.found \in SUBSET SUBSET Names
                      /\ Len(w.stack) \in Nat /\ DOMAIN w.stack = 1 .. Len(w.stack)
BY DEF Search

\* What entering a rule does to a search
LEMMA EnterIs ==
    ASSUME NEW n \in Names, NEW w \in Search
    PROVE  /\ Enter(n, w) \in Search
           /\ Enter(n, w).stack = Append(w.stack, n) /\ Enter(n, w).found = w.found
           /\ \A i \in Names : Enter(n, w).state[i] = IF i = n THEN Open ELSE w.state[i]
<1> DEFINE marks == [w.state EXCEPT ![n] = Open]
           u == [state |-> marks, stack |-> Append(w.stack, n), found |-> w.found]
<1>1. w = [state |-> w.state, stack |-> w.stack, found |-> w.found]
  BY DEF Search
<1>2. Enter(n, w) = u
  <2> DEFINE a == w.state
             b == w.stack
             c == w.found
             top == Append(w.stack, n)
             v == [state |-> [a EXCEPT ![n] = Open], stack |-> b, found |-> c]
  <2>1. Enter(n, w) = [w EXCEPT !.state[n] = Open, !.stack = top]
    BY DEF Enter
  <2> HIDE DEF a, b, c, top
  <2>2. w = [state |-> a, stack |-> b, found |-> c]
    BY <1>1 DEF a, b, c
  <2>3. [w EXCEPT !.state[n] = Open] = v
    BY <2>2
  <2>4. [w EXCEPT !.state[n] = Open, !.stack = top] = [[w EXCEPT !.state[n] = Open] EXCEPT !.stack = top]
    BY <2>2
  <2>5. [v EXCEPT !.stack = top] = [state |-> [a EXCEPT ![n] = Open], stack |-> top, found |-> c]
    OBVIOUS
  <2>6. Enter(n, w) = [state |-> [a EXCEPT ![n] = Open], stack |-> top, found |-> c]
    BY <2>1, <2>3, <2>4, <2>5
  <2> QED
    BY <2>6 DEF a, b, c, top
<1>3. /\ w.state \in [Names -> {Unseen, Open, Done}] /\ w.stack \in Seq(Names)
      /\ w.found \in SUBSET SUBSET Names
  BY SearchIs
<1>4. marks \in [Names -> {Unseen, Open, Done}]
  BY <1>3
<1>5. \A i \in Names : marks[i] = IF i = n THEN Open ELSE w.state[i]
  BY <1>3
<1>6. Append(w.stack, n) \in Seq(Names)
  BY <1>3
<1> HIDE DEF marks
<1>7. u \in Search
  BY <1>3, <1>4, <1>6 DEF Search
<1> QED
  BY <1>2, <1>5, <1>7

\* What leaving a rule does to a search
LEMMA LeaveIs ==
    ASSUME NEW n \in Names, NEW w \in Search
    PROVE  /\ Leave(n, w) \in Search
           /\ Leave(n, w).stack = Front(w.stack) /\ Leave(n, w).found = w.found
           /\ \A i \in Names : Leave(n, w).state[i] = IF i = n THEN Done ELSE w.state[i]
<1> DEFINE marks == [w.state EXCEPT ![n] = Done]
           u == [state |-> marks, stack |-> Front(w.stack), found |-> w.found]
<1>1. w = [state |-> w.state, stack |-> w.stack, found |-> w.found]
  BY DEF Search
<1>2. Leave(n, w) = u
  <2> DEFINE a == w.state
             b == w.stack
             c == w.found
             top == Front(w.stack)
             v == [state |-> [a EXCEPT ![n] = Done], stack |-> b, found |-> c]
  <2>1. Leave(n, w) = [w EXCEPT !.state[n] = Done, !.stack = top]
    BY DEF Leave
  <2> HIDE DEF a, b, c, top
  <2>2. w = [state |-> a, stack |-> b, found |-> c]
    BY <1>1 DEF a, b, c
  <2>3. [w EXCEPT !.state[n] = Done] = v
    BY <2>2
  <2>4. [w EXCEPT !.state[n] = Done, !.stack = top] = [[w EXCEPT !.state[n] = Done] EXCEPT !.stack = top]
    BY <2>2
  <2>5. [v EXCEPT !.stack = top] = [state |-> [a EXCEPT ![n] = Done], stack |-> top, found |-> c]
    OBVIOUS
  <2>6. Leave(n, w) = [state |-> [a EXCEPT ![n] = Done], stack |-> top, found |-> c]
    BY <2>1, <2>3, <2>4, <2>5
  <2> QED
    BY <2>6 DEF a, b, c, top
<1>3. /\ w.state \in [Names -> {Unseen, Open, Done}] /\ w.stack \in Seq(Names)
      /\ w.found \in SUBSET SUBSET Names
  BY SearchIs
<1>4. marks \in [Names -> {Unseen, Open, Done}]
  BY <1>3
<1>5. \A i \in Names : marks[i] = IF i = n THEN Done ELSE w.state[i]
  BY <1>3
<1>6. Front(w.stack) \in Seq(Names)
  <2>1. Len(w.stack) \in Nat /\ \A k \in 1 .. Len(w.stack) - 1 : w.stack[k] \in Names
    BY <1>3
  <2> QED
    BY <1>3, <2>1 DEF Front
<1> HIDE DEF marks
<1>7. u \in Search
  BY <1>3, <1>4, <1>6 DEF Search
<1> QED
  BY <1>2, <1>5, <1>7

\* What visit does at a name, one case each
LEMMA FollowIs ==
    ASSUME Registered, NEW n \in Names, NEW w \in Search, NEW m \in Names, NEW deeper \in VisitTable
    PROVE  /\ Follow(n, w, m, deeper) \in Search
           /\ m \notin Cited(n) \/ w.state[m] = Done => Follow(n, w, m, deeper) = w
           /\ m \in Cited(n) /\ w.state[m] = Unseen => Follow(n, w, m, deeper) = deeper[m][w]
           /\ m \in Cited(n) /\ w.state[m] = Open =>
                 LET u == Follow(n, w, m, deeper)
                 IN  /\ u.state = w.state /\ u.stack = w.stack
                     /\ u.found = w.found \cup {CycleClosed(w, m)}
<1> DEFINE v == [w EXCEPT !.found = @ \cup {CycleClosed(w, m)}]
<1>1. w.state[m] \in {Unseen, Open, Done} /\ w.found \in SUBSET SUBSET Names
      /\ \A k \in DOMAIN w.stack : w.stack[k] \in Names
  BY SearchIs
<1>2. Unseen # Open /\ Unseen # Done /\ Open # Done
  BY DEF Unseen, Open, Done
<1>3. CycleClosed(w, m) \in SUBSET Names
  BY <1>1 DEF CycleClosed
<1>4. v = [state |-> w.state, stack |-> w.stack, found |-> w.found \cup {CycleClosed(w, m)}]
  <2>1. w = [state |-> w.state, stack |-> w.stack, found |-> w.found]
    BY DEF Search
  <2> HIDE DEF v
  <2> QED
    BY <2>1 DEF v
<1>5. v \in Search
  BY <1>1, <1>3, <1>4, SearchIs DEF Search
<1>6. deeper[m][w] \in Search
  BY DEF VisitTable
<1>7. /\ m \notin Cited(n) \/ w.state[m] = Done => Follow(n, w, m, deeper) = w
      /\ m \in Cited(n) /\ w.state[m] = Unseen => Follow(n, w, m, deeper) = deeper[m][w]
      /\ m \in Cited(n) /\ w.state[m] = Open => Follow(n, w, m, deeper) = v
  <2>1. CASE m \notin Cited(n)
    BY <2>1 DEF Follow
  <2>2. CASE m \in Cited(n) /\ w.state[m] = Open
    BY <1>2, <2>2 DEF Follow
  <2>3. CASE m \in Cited(n) /\ w.state[m] = Unseen
    BY <1>2, <2>3 DEF Follow
  <2>4. CASE m \in Cited(n) /\ w.state[m] = Done
    BY <1>2, <2>4 DEF Follow
  <2> HIDE DEF v
  <2> QED
    BY <1>1, <1>2, <2>1, <2>2, <2>3, <2>4
<1> HIDE DEF v
<1>8. Follow(n, w, m, deeper) \in Search
  BY <1>1, <1>5, <1>6, <1>7
<1>9. v.state = w.state /\ v.stack = w.stack /\ v.found = w.found \cup {CycleClosed(w, m)}
  BY <1>4
<1> QED
  BY <1>7, <1>8, <1>9

\* An open rule is pushed on the stack.
LEMMA EnterKeeps ==
    ASSUME Registered, NEW n, NEW w, NEW room \in Nat, Visitable(n, w, room)
    PROVE  /\ n \in Names /\ w \in Search /\ room >= 1
           /\ Searching(Enter(n, w)) /\ Finished(Enter(n, w)) = Finished(w)
           /\ Enter(n, w).stack = Append(w.stack, n) /\ Enter(n, w).found = w.found
           /\ room - 1 >= Len(heuristics) - Len(Enter(n, w).stack)
<1> DEFINE u == Enter(n, w)
<1>1. n \in LintTips /\ n \in Names /\ w \in Search /\ Searching(w) /\ w.state[n] = Unseen
      /\ Len(heuristics) \in Nat /\ room >= Len(heuristics) - Len(w.stack) /\ Stacked(w.stack)
      /\ (w.stack # <<>> => n \in Cited(w.stack[Len(w.stack)]))
  BY RegisteredIs DEF Visitable, Searching
<1>2. /\ u \in Search /\ u.stack = Append(w.stack, n) /\ u.found = w.found
      /\ \A i \in Names : u.state[i] = IF i = n THEN Open ELSE w.state[i]
  BY <1>1, EnterIs
<1>3. w.stack \in Seq(LintTips) /\ Len(w.stack) \in Nat /\ DOMAIN w.stack = 1 .. Len(w.stack)
  BY <1>1, SearchIs DEF Stacked
<1>4. /\ DOMAIN u.stack = 1 .. Len(w.stack) + 1 /\ Len(u.stack) = Len(w.stack) + 1
      /\ u.stack[Len(w.stack) + 1] = n /\ \A k \in 1 .. Len(w.stack) : u.stack[k] = w.stack[k]
      /\ u.stack \in Seq(LintTips)
  BY <1>1, <1>2, <1>3
<1> HIDE DEF u
<1>5. \A k \in DOMAIN w.stack : w.stack[k] # n
  BY <1>1 DEF Searching, Open, Unseen
<1>6. Len(w.stack) < Len(heuristics)
  BY <1>1, <1>5, StackFits
<1>7. Finished(u) = Finished(w)
  BY <1>1, <1>2 DEF Finished, Done, Open, Unseen
<1>8. Stacked(u.stack)
  <2>1. \A j, k \in DOMAIN u.stack : u.stack[j] = u.stack[k] => j = k
    <3> SUFFICES ASSUME NEW j \in DOMAIN u.stack, NEW k \in DOMAIN u.stack, u.stack[j] = u.stack[k]
                 PROVE  j = k
      OBVIOUS
    <3>1. (j \in 1 .. Len(w.stack) \/ j = Len(w.stack) + 1)
          /\ (k \in 1 .. Len(w.stack) \/ k = Len(w.stack) + 1)
      BY <1>3, <1>4
    <3>2. \A a, b \in DOMAIN w.stack : w.stack[a] = w.stack[b] => a = b
      BY <1>1 DEF Stacked
    <3> QED
      BY <1>3, <1>4, <1>5, <3>1, <3>2
  <2>2. \A k \in 1 .. Len(u.stack) - 1 : u.stack[k + 1] \in Cited(u.stack[k])
    <3> SUFFICES ASSUME NEW k \in 1 .. Len(u.stack) - 1 PROVE u.stack[k + 1] \in Cited(u.stack[k])
      OBVIOUS
    <3>1. CASE k = Len(w.stack)
      <4>1. w.stack # <<>>
        BY <1>3, <3>1
      <4> QED
        BY <1>1, <1>3, <1>4, <3>1, <4>1
    <3>2. CASE k # Len(w.stack)
      <4>1. k \in 1 .. Len(w.stack) - 1 /\ k \in 1 .. Len(w.stack) /\ k + 1 \in 1 .. Len(w.stack)
        BY <1>3, <1>4, <3>2
      <4>2. w.stack[k + 1] \in Cited(w.stack[k])
        BY <1>1, <4>1 DEF Stacked
      <4> QED
        BY <1>4, <4>1, <4>2
    <3> QED
      BY <3>1, <3>2
  <2> QED
    BY <1>4, <2>1, <2>2 DEF Stacked
<1>9. \A i \in Names : u.state[i] = Open <=> \E k \in DOMAIN u.stack : u.stack[k] = i
  <2> SUFFICES ASSUME NEW i \in Names
               PROVE  u.state[i] = Open <=> \E k \in DOMAIN u.stack : u.stack[k] = i
    OBVIOUS
  <2>1. CASE i = n
    <3>1. Len(w.stack) + 1 \in DOMAIN u.stack
      BY <1>3, <1>4
    <3> QED
      BY <1>2, <1>4, <2>1, <3>1
  <2>2. CASE i # n
    <3>1. u.state[i] = Open <=> \E k \in DOMAIN w.stack : w.stack[k] = i
      BY <1>1, <1>2, <2>2 DEF Searching
    <3>2. (\E k \in DOMAIN w.stack : w.stack[k] = i) <=> \E k \in DOMAIN u.stack : u.stack[k] = i
      <4>1. \A k \in DOMAIN u.stack : k \in DOMAIN w.stack \/ u.stack[k] = n
        BY <1>3, <1>4
      <4>2. DOMAIN w.stack \subseteq DOMAIN u.stack
        BY <1>3, <1>4
      <4> QED
        BY <1>3, <1>4, <2>2, <4>1, <4>2
    <3> QED
      BY <3>1, <3>2
  <2> QED
    BY <2>1, <2>2
<1>10. Searching(u)
  BY <1>1, <1>2, <1>7, <1>8, <1>9 DEF Searching
<1>11. room >= 1 /\ room - 1 >= Len(heuristics) - Len(u.stack)
  BY <1>1, <1>3, <1>4, <1>6
<1> QED
  BY <1>1, <1>2, <1>7, <1>10, <1>11 DEF u

\* Deeper visits do their work while there is room.
VisitsWell(deeper, room) ==
    \A n, w : Visitable(n, w, room) => VisitedAs(n, w, deeper[n][w])

\* Later is transitive.
LEMMA LaterChains ==
    ASSUME NEW u, NEW v, NEW w, Later(u, v), Later(v, w) PROVE Later(u, w)
BY DEF Later

\* One name of the top of the stack: it is done after it, or a cycle is found.
LEMMA FollowKeeps ==
    ASSUME Registered, NEW deeper \in VisitTable, NEW room, VisitsWell(deeper, room),
           NEW w, Searching(w), w.stack # <<>>, room >= Len(heuristics) - Len(w.stack),
           NEW n, n = w.stack[Len(w.stack)], NEW m \in Names
    PROVE  LET u == Follow(n, w, m, deeper)
           IN  /\ Searching(u) /\ Later(w, u)
               /\ m \in Cited(n) => m \in Finished(u) \/ u.found # {}
<1> DEFINE u == Follow(n, w, m, deeper)
           s == w.stack
           top == Len(w.stack)
           ids == CycleClosed(w, m)
<1>1. w \in Search /\ Stacked(s) /\ s \in Seq(LintTips) /\ top \in 1 .. Len(s) /\ DOMAIN s = 1 .. top
      /\ top \in Nat
  BY DEF Searching, Stacked
<1>2. n \in LintTips /\ n \in Names /\ Cited(n) \subseteq LintTips
  BY <1>1, RegisteredIs
<1>3. /\ u \in Search
      /\ m \notin Cited(n) \/ w.state[m] = Done => u = w
      /\ m \in Cited(n) /\ w.state[m] = Unseen => u = deeper[m][w]
      /\ m \in Cited(n) /\ w.state[m] = Open =>
            u.state = w.state /\ u.stack = w.stack /\ u.found = w.found \cup {ids}
  BY <1>1, <1>2, FollowIs
<1> HIDE DEF u
<1>4. CASE m \notin Cited(n) \/ w.state[m] = Done
  BY <1>3, <1>4 DEF Later, Finished, u
<1>5. CASE m \in Cited(n) /\ w.state[m] = Unseen
  <2>1. Visitable(m, w, room)
    BY <1>2, <1>5 DEF Visitable
  <2>2. VisitedAs(m, w, u)
    BY <1>3, <1>5, <2>1 DEF VisitsWell
  <2> QED
    BY <2>2 DEF VisitedAs, u
<1>6. CASE m \in Cited(n) /\ w.state[m] = Open
  <2>1. u.state = w.state /\ u.stack = s /\ u.found = w.found \cup {ids}
    BY <1>3, <1>6
  <2>2. PICK f \in DOMAIN s : s[f] = m
    BY <1>6 DEF Searching
  <2>3. f \in 1 .. top /\ \A k \in 1 .. top : k \in f .. top <=> f <= k
    BY <1>1, <2>2
  <2>4. ids = {s[k] : k \in f .. top}
    <3>1. \A l \in DOMAIN s : (\E first \in 1 .. l : s[first] = m) <=> f <= l
      <4> SUFFICES ASSUME NEW l \in DOMAIN s
                   PROVE  (\E first \in 1 .. l : s[first] = m) <=> f <= l
        OBVIOUS
      <4>1. \A j \in DOMAIN s : s[j] = m => j = f
        BY <1>1, <2>2 DEF Stacked
      <4>2. \A first \in 1 .. l : first \in DOMAIN s
        BY <1>1
      <4>3. l \in Nat /\ f \in Nat /\ 1 <= f
        BY <1>1, <2>3
      <4> QED
        BY <2>2, <4>1, <4>2, <4>3
    <3>2. {l \in DOMAIN s : \E first \in 1 .. l : s[first] = m} = f .. top
      <4>1. \A l : l \in f .. top <=> l \in DOMAIN s /\ f <= l
        BY <1>1, <2>3
      <4> QED
        BY <3>1, <4>1
    <3>3. ids = {s[k] : k \in {l \in DOMAIN s : \E first \in 1 .. l : s[first] = m}}
      BY DEF CycleClosed
    <3> QED
      BY <3>2, <3>3
  <2>5. ids # {}
    <3>1. f \in f .. top
      BY <2>3, <1>1
    <3> QED
      BY <2>4, <3>1
  <2>6. \A i, j \in ids : <<i, j>> \in YieldsTo
    <3>1. \A a, b \in f .. top : <<s[a], s[b]>> \in YieldsTo
      <4>1. s[f] \in Cited(s[Len(s)])
        BY <1>6, <2>2
      <4> QED
        BY <1>1, <2>2, <4>1, CycleIsReal
    <3> QED
      BY <2>4, <3>1
  <2> HIDE DEF ids
  <2>7. Finished(u) = Finished(w)
    BY <2>1 DEF Finished
  <2>8. Searching(u)
    BY <1>3, <2>1, <2>5, <2>6, <2>7 DEF Searching
  <2>9. Later(w, u) /\ u.found # {}
    BY <2>1, <2>7 DEF Later
  <2> QED
    BY <2>8, <2>9 DEF u
<1>7. w.state[m] \in {Unseen, Open, Done}
  BY <1>1, SearchIs
<1> QED
  BY <1>4, <1>5, <1>6, <1>7

\* What is gone through, name by name
LEMMA FollowAllIs ==
    ASSUME Registered, NEW n \in Names, NEW w \in Search, NEW deeper \in VisitTable
    PROVE  \E after \in [0 .. Len(heuristics) -> Search] :
              /\ FollowAll(n, w, deeper) = after[Len(heuristics)] /\ after[0] = w
              /\ \A m \in 1 .. Len(heuristics) : after[m] = Follow(n, after[m - 1], m, deeper)
<1> DEFINE L == Len(heuristics)
           move == [m \in 1 .. L |-> [u \in Search |-> Follow(n, u, m, deeper)]]
           Body(g) == [m \in 0 .. L |-> IF m = 0 THEN w ELSE Follow(n, g[m - 1], m, deeper)]
           after == CHOOSE g : g = Body(g)
<1>1. L \in Nat /\ Names = 1 .. L
  BY RegisteredIs DEF Names
<1>2. move \in [1 .. L -> [Search -> Search]]
  <2>1. \A m \in 1 .. L, u \in Search : Follow(n, u, m, deeper) \in Search
    BY <1>1, FollowIs
  <2> QED
    BY <2>1
<1>3. PICK f \in [0 .. L -> Search] : Recurs(f, L, w, move)
  <2> HIDE DEF move, L
  <2> QED
    BY <1>1, <1>2, Recursion
<1>4. f = Body(f)
  <2>1. \A m \in 0 .. L : f[m] = IF m = 0 THEN w ELSE Follow(n, f[m - 1], m, deeper)
    <3> SUFFICES ASSUME NEW m \in 0 .. L PROVE f[m] = IF m = 0 THEN w ELSE Follow(n, f[m - 1], m, deeper)
      OBVIOUS
    <3>1. CASE m = 0
      BY <1>3, <3>1 DEF Recurs
    <3>2. CASE m # 0
      <4>1. m \in 1 .. L /\ m - 1 \in 0 .. L /\ f[m - 1] \in Search
        BY <1>1, <3>2
      <4>2. f[m] = move[m][f[m - 1]]
        BY <1>3, <3>2 DEF Recurs
      <4> QED
        BY <3>2, <4>1, <4>2
    <3> QED
      BY <3>1, <3>2
  <2> QED
    BY <2>1
<1>5. after = Body(after)
  <2> HIDE DEF Body
  <2>1. \E g : g = Body(g)
    BY <1>4
  <2> QED
    BY <2>1
<1>6. FollowAll(n, w, deeper) = after[L]
  BY DEF FollowAll
<1>7. after = [m \in 0 .. L |-> after[m]]
      /\ \A m \in 0 .. L : after[m] = IF m = 0 THEN w ELSE Follow(n, after[m - 1], m, deeper)
  <2> HIDE DEF after
  <2> QED
    BY <1>5
<1> HIDE DEF after, Body, move
<1> DEFINE T == {m \in 0 .. L : after[m] \in Search}
<1>8. \A m \in 0 .. L : m \in T
  <2>1. 0 \in T
    <3>1. 0 \in 0 .. L
      BY <1>1
    <3>2. after[0] = w
      BY <1>7, <3>1
    <3> QED
      BY <3>1, <3>2
  <2>2. ASSUME NEW m \in 1 .. L, m - 1 \in T PROVE m \in T
    <3>1. m \in 0 .. L /\ m # 0
      BY <1>1
    <3>2. after[m] = Follow(n, after[m - 1], m, deeper)
      BY <1>7, <3>1
    <3>3. after[m] \in Search
      BY <1>1, <2>2, <3>2, FollowIs
    <3> QED
      BY <3>1, <3>3
  <2> HIDE DEF T
  <2> QED
    BY <1>1, <2>1, <2>2, UpTo
<1>9. after \in [0 .. L -> Search]
  BY <1>7, <1>8
<1>10. after[0] = w /\ \A m \in 1 .. L : after[m] = Follow(n, after[m - 1], m, deeper)
  <2>1. 0 \in 0 .. L /\ \A m \in 1 .. L : m \in 0 .. L /\ m # 0
    BY <1>1
  <2> QED
    BY <1>7, <2>1
<1> QED
  BY <1>6, <1>9, <1>10

\* After all names, all that the top of the stack cites are done, or a cycle is found.
LEMMA FollowAllKeeps ==
    ASSUME Registered, NEW deeper \in VisitTable, NEW room, VisitsWell(deeper, room),
           NEW w, Searching(w), w.stack # <<>>, room >= Len(heuristics) - Len(w.stack),
           NEW n, n = w.stack[Len(w.stack)]
    PROVE  LET u == FollowAll(n, w, deeper)
           IN  /\ Searching(u) /\ Later(w, u)
               /\ Cited(n) \subseteq Finished(u) \/ u.found # {}
<1> DEFINE L == Len(heuristics)
<1>1. L \in Nat /\ Names = 1 .. L
  BY RegisteredIs DEF Names
<1>2. w \in Search /\ n \in LintTips /\ n \in Names /\ Cited(n) \subseteq Names
  BY RegisteredIs DEF Searching, Stacked
<1>3. PICK after \in [0 .. L -> Search] :
         /\ FollowAll(n, w, deeper) = after[L] /\ after[0] = w
         /\ \A m \in 1 .. L : after[m] = Follow(n, after[m - 1], m, deeper)
  BY <1>2, FollowAllIs
<1> DEFINE Went(m) == /\ Searching(after[m]) /\ Later(w, after[m])
                      /\ \A i \in 1 .. m : i \in Cited(n) => i \in Finished(after[m]) \/ after[m].found # {}
           T == {m \in 0 .. L : Went(m)}
<1>4. 0 \in T
  BY <1>1, <1>3 DEF Later
<1>5. ASSUME NEW m \in 1 .. L, m - 1 \in T PROVE m \in T
  <2> DEFINE v == after[m - 1]
             u == after[m]
  <2>1. m \in 0 .. L /\ m \in Names /\ m - 1 \in 0 .. L
    BY <1>1
  <2>2. /\ Searching(v) /\ Later(w, v)
        /\ \A i \in 1 .. m - 1 : i \in Cited(n) => i \in Finished(v) \/ v.found # {}
    BY <1>5
  <2>3. u = Follow(n, v, m, deeper)
    BY <1>3
  <2> HIDE DEF u, v
  <2>4. v.stack = w.stack
    BY <2>2 DEF Later
  <2>5. Searching(u) /\ Later(v, u) /\ (m \in Cited(n) => m \in Finished(u) \/ u.found # {})
    BY <2>1, <2>2, <2>3, <2>4, FollowKeeps
  <2>6. Later(w, u)
    BY <2>2, <2>5, LaterChains
  <2>7. ASSUME NEW i \in 1 .. m, i \in Cited(n) PROVE i \in Finished(u) \/ u.found # {}
    <3>1. i = m \/ i \in 1 .. m - 1
      BY <1>1
    <3> QED
      BY <2>2, <2>5, <2>7, <3>1 DEF Later
  <2> QED
    BY <2>1, <2>5, <2>6, <2>7 DEF u
<1>6. L \in T
  <2> HIDE DEF T
  <2>1. \A m \in 0 .. L : m \in T
    BY <1>1, <1>4, <1>5, UpTo
  <2> QED
    BY <1>1, <2>1
<1> DEFINE u == after[L]
<1>7. /\ Searching(u) /\ Later(w, u)
      /\ \A i \in 1 .. L : i \in Cited(n) => i \in Finished(u) \/ u.found # {}
  BY <1>6
<1> HIDE DEF u
<1>8. Cited(n) \subseteq Finished(u) \/ u.found # {}
  BY <1>1, <1>2, <1>7
<1> QED
  BY <1>3, <1>7, <1>8 DEF u

\* A rule whose names are all done is done itself.
LEMMA LeaveKeeps ==
    ASSUME Registered, NEW w, Searching(w), w.stack # <<>>, NEW n, n = w.stack[Len(w.stack)],
           Cited(n) \subseteq Finished(w) \/ w.found # {}
    PROVE  LET u == Leave(n, w)
           IN  /\ Searching(u) /\ u.stack = Front(w.stack) /\ u.found = w.found
               /\ n \in Finished(u) /\ Finished(w) \subseteq Finished(u)
<1> DEFINE u == Leave(n, w)
           s == w.stack
           top == Len(w.stack)
<1>1. w \in Search /\ Stacked(s) /\ s \in Seq(LintTips) /\ top \in Nat /\ top >= 1 /\ DOMAIN s = 1 .. top
  BY DEF Searching, Stacked
<1>2. n \in LintTips /\ n \in Names /\ LintTips \subseteq Names
  BY <1>1, RegisteredIs
<1>3. /\ u \in Search /\ u.stack = Front(s) /\ u.found = w.found
      /\ \A i \in Names : u.state[i] = IF i = n THEN Done ELSE w.state[i]
  BY <1>1, <1>2, LeaveIs
<1>4. /\ DOMAIN u.stack = 1 .. top - 1 /\ Len(u.stack) = top - 1
      /\ \A k \in 1 .. top - 1 : u.stack[k] = s[k]
      /\ u.stack \in Seq(LintTips)
  <2>1. \A k \in 1 .. top - 1 : s[k] \in LintTips
    BY <1>1
  <2>2. top - 1 \in Nat
    BY <1>1
  <2>3. u.stack = SubSeq(s, 1, top - 1)
    BY <1>3 DEF Front
  <2>4. SubSeq(s, 1, top - 1) = [k \in 1 .. top - 1 |-> s[k]]
    BY <1>1, <2>2
  <2> QED
    BY <2>1, <2>2, <2>3, <2>4
<1> HIDE DEF u, top
<1>5. Finished(u) = Finished(w) \cup {n} /\ n \notin Finished(w)
  <2>1. w.state[n] = Open
    BY <1>1, <1>2 DEF Searching, top
  <2> QED
    BY <1>2, <1>3, <2>1 DEF Finished, Open, Done
<1>6. Stacked(u.stack)
  <2>1. \A j, k \in DOMAIN u.stack : u.stack[j] = u.stack[k] => j = k
    <3>1. \A j \in DOMAIN u.stack : j \in DOMAIN s /\ u.stack[j] = s[j]
      BY <1>1, <1>4
    <3> QED
      BY <1>1, <3>1 DEF Stacked
  <2>2. \A k \in 1 .. Len(u.stack) - 1 : u.stack[k + 1] \in Cited(u.stack[k])
    <3> SUFFICES ASSUME NEW k \in 1 .. Len(u.stack) - 1 PROVE u.stack[k + 1] \in Cited(u.stack[k])
      OBVIOUS
    <3>1. k \in 1 .. top - 1 /\ k + 1 \in 1 .. top - 1
      BY <1>1, <1>4
    <3>2. s[k + 1] \in Cited(s[k])
      BY <1>1, <3>1 DEF Stacked, top
    <3> QED
      BY <1>4, <3>1, <3>2
  <2> QED
    BY <1>4, <2>1, <2>2 DEF Stacked
<1>7. \A i \in Names : u.state[i] = Open <=> \E k \in DOMAIN u.stack : u.stack[k] = i
  <2> SUFFICES ASSUME NEW i \in Names
               PROVE  u.state[i] = Open <=> \E k \in DOMAIN u.stack : u.stack[k] = i
    OBVIOUS
  <2>0. top \in DOMAIN s /\ s[top] = n /\ \A k \in DOMAIN s : k \in 1 .. top - 1 \/ k = top
    BY <1>1 DEF top
  <2>1. CASE i = n
    <3>1. u.state[i] = Done
      BY <1>3, <2>1
    <3>2. ASSUME NEW k \in DOMAIN u.stack, u.stack[k] = n PROVE FALSE
      <4>1. k \in DOMAIN s /\ k # top /\ s[k] = n
        BY <1>1, <1>4, <3>2
      <4> QED
        BY <1>1, <2>0, <4>1 DEF Stacked
    <3> QED
      BY <2>1, <3>1, <3>2 DEF Open, Done
  <2>2. CASE i # n
    <3>1. u.state[i] = Open <=> \E k \in DOMAIN s : s[k] = i
      BY <1>3, <2>2 DEF Searching
    <3>2. (\E k \in DOMAIN s : s[k] = i) <=> \E k \in DOMAIN u.stack : u.stack[k] = i
      <4>1. DOMAIN u.stack \subseteq DOMAIN s
        BY <1>1, <1>4
      <4> QED
        BY <1>4, <2>0, <2>2, <4>1
    <3> QED
      BY <3>1, <3>2
  <2> QED
    BY <2>1, <2>2
<1>8. u.found = {} =>
         \A d \in Finished(u) : Cited(d) \subseteq Finished(u) /\ <<d, d>> \notin YieldsTo
  <2> SUFFICES ASSUME u.found = {}, NEW d \in Finished(u)
               PROVE  Cited(d) \subseteq Finished(u) /\ <<d, d>> \notin YieldsTo
    OBVIOUS
  <2>1. /\ \A e \in Finished(w) : Cited(e) \subseteq Finished(w) /\ <<e, e>> \notin YieldsTo
        /\ Finished(w) \subseteq LintTips /\ Cited(n) \subseteq Finished(w)
    BY <1>3 DEF Searching
  <2>2. CASE d = n
    <3>1. ASSUME <<n, n>> \in YieldsTo PROVE n \in Finished(w)
      BY <1>2, <2>1, <3>1, Confined
    <3> QED
      BY <1>5, <2>1, <2>2, <3>1
  <2>3. CASE d # n
    BY <1>5, <2>1, <2>3
  <2> QED
    BY <2>2, <2>3
<1>9. Searching(u)
  BY <1>2, <1>3, <1>5, <1>6, <1>7, <1>8 DEF Searching
<1> QED
  BY <1>3, <1>5, <1>9 DEF u

\* The table of visits
LEMMA DescendIs ==
    ASSUME Registered
    PROVE  \E visit \in [0 .. Len(heuristics) -> VisitTable] :
              /\ Descend = visit[Len(heuristics)]
              /\ \A room \in 1 .. Len(heuristics), n \in Names, w \in Search :
                    visit[room][n][w] = Leave(n, FollowAll(n, Enter(n, w), visit[room - 1]))
<1> DEFINE L == Len(heuristics)
           At(deeper, n, w) == Leave(n, FollowAll(n, Enter(n, w), deeper))
           base == [n \in Names |-> [w \in Search |-> w]]
           Table(deeper) == [n \in Names |-> [w \in Search |-> At(deeper, n, w)]]
           move == [room \in 1 .. L |-> [deeper \in VisitTable |-> Table(deeper)]]
           Body(g) == [depth \in 0 .. L |->
                         [n \in Names |-> [w \in Search |->
                             IF depth = 0 THEN w
                             ELSE Leave(n, FollowAll(n, Enter(n, w), g[depth - 1]))]]]
           visit == CHOOSE g : g = Body(g)
<1>1. L \in Nat
  BY RegisteredIs
<1>2. ASSUME NEW deeper \in VisitTable, NEW n \in Names, NEW w \in Search
      PROVE  At(deeper, n, w) \in Search
  <2>1. Enter(n, w) \in Search
    BY EnterIs
  <2>2. PICK after \in [0 .. L -> Search] : FollowAll(n, Enter(n, w), deeper) = after[L]
    BY <2>1, FollowAllIs
  <2>3. FollowAll(n, Enter(n, w), deeper) \in Search
    BY <1>1, <2>2
  <2> QED
    BY <2>3, LeaveIs
<1> HIDE DEF At
<1>3. base \in VisitTable /\ \A deeper \in VisitTable : Table(deeper) \in VisitTable
  BY <1>2 DEF VisitTable
<1> HIDE DEF Table, base
<1>4. move \in [1 .. L -> [VisitTable -> VisitTable]]
  BY <1>3
<1>5. PICK f \in [0 .. L -> VisitTable] : Recurs(f, L, base, move)
  <2> HIDE DEF move, L
  <2> QED
    BY <1>1, <1>3, <1>4, Recursion
<1>6. \A g, depth : [n \in Names |-> [w \in Search |->
                        IF depth = 0 THEN w
                        ELSE Leave(n, FollowAll(n, Enter(n, w), g[depth - 1]))]]
                     = IF depth = 0 THEN base ELSE Table(g[depth - 1])
  <2> SUFFICES ASSUME NEW g, NEW depth
               PROVE  [n \in Names |-> [w \in Search |->
                        IF depth = 0 THEN w
                        ELSE Leave(n, FollowAll(n, Enter(n, w), g[depth - 1]))]]
                     = IF depth = 0 THEN base ELSE Table(g[depth - 1])
    OBVIOUS
  <2>1. CASE depth = 0
    BY <2>1 DEF base
  <2>2. CASE depth # 0
    BY <2>2 DEF Table, At
  <2> QED
    BY <2>1, <2>2
<1>7. \A g : Body(g) = [depth \in 0 .. L |-> IF depth = 0 THEN base ELSE Table(g[depth - 1])]
  BY <1>6
<1> HIDE DEF Body
<1>8. f = Body(f)
  <2>1. \A depth \in 0 .. L : f[depth] = IF depth = 0 THEN base ELSE Table(f[depth - 1])
    <3> SUFFICES ASSUME NEW depth \in 0 .. L
                 PROVE  f[depth] = IF depth = 0 THEN base ELSE Table(f[depth - 1])
      OBVIOUS
    <3>1. CASE depth = 0
      BY <1>5, <3>1 DEF Recurs
    <3>2. CASE depth # 0
      <4>1. depth \in 1 .. L /\ depth - 1 \in 0 .. L /\ f[depth - 1] \in VisitTable
        BY <1>1, <3>2
      <4>2. f[depth] = move[depth][f[depth - 1]]
        BY <1>5, <3>2 DEF Recurs
      <4> QED
        BY <3>2, <4>1, <4>2
    <3> QED
      BY <3>1, <3>2
  <2> QED
    BY <1>7, <2>1
<1>9. visit = Body(visit)
  <2>1. \E g : g = Body(g)
    BY <1>8
  <2> QED
    BY <2>1
<1>10. Descend = visit[L]
  BY DEF Descend, Body
<1>11. visit = [depth \in 0 .. L |-> visit[depth]]
       /\ \A depth \in 0 .. L : visit[depth] = IF depth = 0 THEN base ELSE Table(visit[depth - 1])
  <2> HIDE DEF visit
  <2>1. visit = [depth \in 0 .. L |-> IF depth = 0 THEN base ELSE Table(visit[depth - 1])]
    BY <1>7, <1>9
  <2> QED
    BY <2>1
<1> HIDE DEF visit, move
<1> DEFINE T == {depth \in 0 .. L : visit[depth] \in VisitTable}
<1>12. \A depth \in 0 .. L : depth \in T
  <2>1. 0 \in T
    BY <1>1, <1>3, <1>11
  <2>2. ASSUME NEW depth \in 1 .. L, depth - 1 \in T PROVE depth \in T
    <3>1. depth \in 0 .. L /\ depth # 0
      BY <1>1
    <3>2. visit[depth] = Table(visit[depth - 1])
      BY <1>11, <3>1
    <3> QED
      BY <1>3, <2>2, <3>1, <3>2
  <2> HIDE DEF T
  <2> QED
    BY <1>1, <2>1, <2>2, UpTo
<1>13. visit \in [0 .. L -> VisitTable]
  BY <1>11, <1>12
<1>14. ASSUME NEW room \in 1 .. L, NEW n \in Names, NEW w \in Search
       PROVE  visit[room][n][w] = Leave(n, FollowAll(n, Enter(n, w), visit[room - 1]))
  <2>1. room \in 0 .. L /\ room # 0
    BY <1>1
  <2>2. visit[room] = Table(visit[room - 1])
    BY <1>11, <2>1
  <2>3. visit[room][n][w] = At(visit[room - 1], n, w)
    BY <2>2 DEF Table
  <2> QED
    BY <2>3 DEF At
<1> QED
  BY <1>10, <1>13, <1>14

\* A visit that has room comes back with its rule done.
LEMMA DescendKeeps ==
    ASSUME Registered
    PROVE  VisitsWell(Descend, Len(heuristics)) /\ Descend \in VisitTable
<1> DEFINE L == Len(heuristics)
<1>1. L \in Nat
  BY RegisteredIs
<1>2. PICK visit \in [0 .. L -> VisitTable] :
         /\ Descend = visit[L]
         /\ \A room \in 1 .. L, n \in Names, w \in Search :
               visit[room][n][w] = Leave(n, FollowAll(n, Enter(n, w), visit[room - 1]))
  BY DescendIs
<1> DEFINE T == {room \in 0 .. L : VisitsWell(visit[room], room)}
<1>3. 0 \in T
  <2>1. \A n, w : ~Visitable(n, w, 0)
    <3> SUFFICES ASSUME NEW n, NEW w, Visitable(n, w, 0) PROVE FALSE
      OBVIOUS
    <3>1. 0 >= 1
      BY EnterKeeps
    <3> QED
      BY <3>1
  <2> QED
    BY <1>1, <2>1 DEF VisitsWell
<1>4. ASSUME NEW room \in 1 .. L, room - 1 \in T PROVE room \in T
  <2>1. room \in 0 .. L /\ room \in Nat /\ room - 1 \in 0 .. L
    BY <1>1
  <2> DEFINE deeper == visit[room - 1]
  <2>2. deeper \in VisitTable /\ VisitsWell(deeper, room - 1)
    BY <1>4, <2>1
  <2>3. ASSUME NEW n, NEW w, Visitable(n, w, room) PROVE VisitedAs(n, w, visit[room][n][w])
    <3> DEFINE u == Enter(n, w)
               v == FollowAll(n, u, deeper)
    <3>1. /\ n \in Names /\ w \in Search /\ Searching(u) /\ Finished(u) = Finished(w)
          /\ u.stack = Append(w.stack, n) /\ u.found = w.found
          /\ room - 1 >= L - Len(u.stack)
      BY <2>1, <2>3, EnterKeeps
    <3>2. visit[room][n][w] = Leave(n, v)
      BY <1>2, <3>1
    <3>3. w.stack \in Seq(Names) /\ u.stack # <<>> /\ u.stack[Len(u.stack)] = n
          /\ Front(u.stack) = w.stack
      <4>1. w.stack \in Seq(Names)
        BY <3>1, SearchIs
      <4>2. Len(u.stack) = Len(w.stack) + 1 /\ Len(w.stack) \in Nat
        BY <3>1, <4>1
      <4>3. SubSeq(Append(w.stack, n), 1, Len(w.stack)) = w.stack
        BY <3>1, <4>1
      <4>4. Front(u.stack) = SubSeq(u.stack, 1, Len(w.stack))
        BY <4>2 DEF Front
      <4>5. u.stack[Len(u.stack)] = n
        BY <3>1, <4>1, <4>2
      <4>6. u.stack = Append(w.stack, n)
        BY <3>1
      <4> HIDE DEF u
      <4>7. Front(u.stack) = w.stack
        BY <4>3, <4>4, <4>6
      <4>8. u.stack # <<>>
        BY <4>2
      <4> QED
        BY <4>1, <4>5, <4>7, <4>8
    <3> HIDE DEF u, deeper
    <3>4. Searching(v) /\ Later(u, v) /\ (Cited(n) \subseteq Finished(v) \/ v.found # {})
      BY <2>2, <3>1, <3>3, FollowAllKeeps
    <3> HIDE DEF v
    <3>5. v.stack = u.stack /\ u.found \subseteq v.found /\ Finished(u) \subseteq Finished(v)
      BY <3>4 DEF Later
    <3>6. LET x == Leave(n, v)
          IN  /\ Searching(x) /\ x.stack = Front(v.stack) /\ x.found = v.found
              /\ n \in Finished(x) /\ Finished(v) \subseteq Finished(x)
      BY <3>3, <3>4, <3>5, LeaveKeeps
    <3> QED
      BY <3>1, <3>2, <3>3, <3>5, <3>6 DEF VisitedAs, Later
  <2> QED
    BY <2>1, <2>3 DEF VisitsWell
<1>5. L \in T
  <2> HIDE DEF T
  <2>1. \A room \in 0 .. L : room \in T
    BY <1>1, <1>3, <1>4, UpTo
  <2> QED
    BY <1>1, <2>1
<1> QED
  BY <1>1, <1>2, <1>5

\* The search as a whole: it ends with every current rule done.
LEMMA SearchedIs ==
    ASSUME Registered
    PROVE  Searching(Searched) /\ LintTips \subseteq Finished(Searched)
<1> DEFINE L == Len(heuristics)
           base == [state |-> [i \in Names |-> Unseen], stack |-> <<>>, found |-> {}]
           Step(n, w) == IF n \in LintTips /\ w.state[n] # Done THEN Descend[n][w] ELSE w
           move == [n \in 1 .. L |-> [w \in Search |-> Step(n, w)]]
           Body(g) == [n \in 0 .. L |->
                         IF n = 0 THEN base
                         ELSE IF n \in LintTips /\ g[n - 1].state[n] # Done THEN Descend[n][g[n - 1]]
                         ELSE g[n - 1]]
           ended == CHOOSE g : g = Body(g)
<1>1. L \in Nat /\ Names = 1 .. L /\ LintTips \subseteq Names
  BY RegisteredIs DEF Names
<1>2. VisitsWell(Descend, L) /\ Descend \in VisitTable
  BY DescendKeeps
<1>3. base \in Search
  BY DEF Search
<1>4. \A n \in Names, w \in Search : Step(n, w) \in Search
  BY <1>2 DEF VisitTable
<1>5. \A g : Body(g) = [n \in 0 .. L |-> IF n = 0 THEN base ELSE Step(n, g[n - 1])]
  OBVIOUS
<1>6. Searched = ended[L]
  BY DEF Searched
<1> HIDE DEF Step, Body, base
<1>7. move \in [1 .. L -> [Search -> Search]]
  BY <1>1, <1>4
<1>8. PICK f \in [0 .. L -> Search] : Recurs(f, L, base, move)
  <2> HIDE DEF move, L
  <2> QED
    BY <1>1, <1>3, <1>7, Recursion
<1>9. f = Body(f)
  <2>1. \A n \in 0 .. L : f[n] = IF n = 0 THEN base ELSE Step(n, f[n - 1])
    <3> SUFFICES ASSUME NEW n \in 0 .. L PROVE f[n] = IF n = 0 THEN base ELSE Step(n, f[n - 1])
      OBVIOUS
    <3>1. CASE n = 0
      BY <1>8, <3>1 DEF Recurs
    <3>2. CASE n # 0
      <4>1. n \in 1 .. L /\ n - 1 \in 0 .. L /\ f[n - 1] \in Search
        BY <1>1, <3>2
      <4>2. f[n] = move[n][f[n - 1]]
        BY <1>8, <3>2 DEF Recurs
      <4> QED
        BY <3>2, <4>1, <4>2
    <3> QED
      BY <3>1, <3>2
  <2> QED
    BY <1>5, <2>1
<1>10. ended = Body(ended)
  <2>1. \E g : g = Body(g)
    BY <1>9
  <2> QED
    BY <2>1
<1>11. \A n \in 0 .. L : ended[n] = IF n = 0 THEN base ELSE Step(n, ended[n - 1])
  <2> HIDE DEF ended
  <2>1. ended = [n \in 0 .. L |-> IF n = 0 THEN base ELSE Step(n, ended[n - 1])]
    BY <1>5, <1>10
  <2> QED
    BY <2>1
<1> HIDE DEF ended, move
<1> DEFINE Went(n) == /\ Searching(ended[n]) /\ ended[n].stack = <<>>
                      /\ \A i \in 1 .. n : i \in LintTips => i \in Finished(ended[n])
           T == {n \in 0 .. L : Went(n)}
<1>12. 0 \in T
  <2>1. ended[0] = base
    BY <1>1, <1>11
  <2>2. base.stack = <<>> /\ base.found = {} /\ \A i \in Names : base.state[i] = Unseen
    BY DEF base
  <2>3. Finished(base) = {}
    BY <2>2 DEF Finished, Done, Unseen
  <2>4. Stacked(base.stack)
    BY <2>2 DEF Stacked
  <2>5. Searching(base)
    BY <1>3, <2>2, <2>3, <2>4 DEF Searching, Open, Unseen
  <2> QED
    BY <1>1, <2>1, <2>2, <2>5
<1>13. ASSUME NEW n \in 1 .. L, n - 1 \in T PROVE n \in T
  <2> DEFINE w == ended[n - 1]
             u == ended[n]
  <2>1. n \in 0 .. L /\ n # 0 /\ n \in Names
    BY <1>1
  <2>2. u = Step(n, w)
    BY <1>11, <2>1
  <2>3. /\ Searching(w) /\ w.stack = <<>>
        /\ \A i \in 1 .. n - 1 : i \in LintTips => i \in Finished(w)
    BY <1>13
  <2> HIDE DEF u, w
  <2>4. CASE n \in LintTips /\ w.state[n] # Done
    <3>1. w.state[n] = Unseen
      <4>1. w.state[n] \in {Unseen, Open, Done}
        BY <2>1, <2>3, SearchIs DEF Searching
      <4>2. w.state[n] # Open
        <5>1. DOMAIN w.stack = {}
          BY <2>3
        <5> QED
          BY <2>1, <2>3, <5>1 DEF Searching
      <4> QED
        BY <2>4, <4>1, <4>2
    <3>2. Visitable(n, w, L)
      <4>1. L >= L - Len(w.stack)
        BY <1>1, <2>3
      <4> QED
        BY <2>3, <2>4, <3>1, <4>1 DEF Visitable
    <3>3. u = Descend[n][w]
      BY <2>2, <2>4 DEF Step
    <3>4. Searching(u) /\ Later(w, u) /\ n \in Finished(u)
      BY <1>2, <3>2, <3>3 DEF VisitsWell, VisitedAs
    <3>5. \A i \in 1 .. n : i \in LintTips => i \in Finished(u)
      <4>1. \A i \in 1 .. n : i = n \/ i \in 1 .. n - 1
        BY <1>1
      <4> QED
        BY <2>3, <3>4, <4>1 DEF Later
    <3> QED
      BY <2>1, <2>3, <3>4, <3>5 DEF u, Later
  <2>5. CASE ~(n \in LintTips /\ w.state[n] # Done)
    <3>1. u = w
      BY <2>2, <2>5 DEF Step
    <3>2. \A i \in 1 .. n : i \in LintTips => i \in Finished(u)
      <4>1. \A i \in 1 .. n : i = n \/ i \in 1 .. n - 1
        BY <1>1
      <4>2. n \in LintTips => n \in Finished(w)
        BY <2>1, <2>5 DEF Finished
      <4> QED
        BY <2>3, <3>1, <4>1, <4>2
    <3> QED
      BY <2>1, <2>3, <3>1, <3>2 DEF u
  <2> QED
    BY <2>4, <2>5
<1>14. L \in T
  <2> HIDE DEF T
  <2>1. \A n \in 0 .. L : n \in T
    BY <1>1, <1>12, <1>13, UpTo
  <2> QED
    BY <1>1, <2>1
<1> QED
  BY <1>1, <1>6, <1>14

\* The search finds a cycle if there is one, and nothing else.
LEMMA CyclesAreThose ==
    ASSUME Registered
    PROVE  /\ Cycles = {} <=> \A i \in LintTips : <<i, i>> \notin YieldsTo
           /\ \A f \in Cycles : f.severity = "reject" /\ \A i, j \in f.ids : <<i, j>> \in YieldsTo
<1> DEFINE w == Searched
<1>1. Searching(w) /\ LintTips \subseteq Finished(w)
  BY SearchedIs
<1>2. /\ w.found \in SUBSET SUBSET Names
      /\ \A ids \in w.found : ids # {} /\ \A i, j \in ids : <<i, j>> \in YieldsTo
      /\ w.found = {} => \A d \in Finished(w) : <<d, d>> \notin YieldsTo
  BY <1>1, SearchIs DEF Searching
<1>3. Cycles = {Finding("precedence_cycle", "reject", ids) : ids \in w.found}
  BY DEF Cycles
<1> HIDE DEF w
<1>4. Cycles = {} <=> w.found = {}
  BY <1>3
<1>5. YieldsTo \subseteq LintTips \X LintTips
  <2>1. PICK reach : YieldsTo = reach[Len(heuristics)] /\ Collected(reach)
    BY YieldsToIs
  <2>2. Len(heuristics) \in 0 .. Len(heuristics)
    BY RegisteredIs
  <2> QED
    BY <2>1, <2>2 DEF Collected
<1>6. w.found # {} => \E i \in LintTips : <<i, i>> \in YieldsTo
  <2> SUFFICES ASSUME NEW ids \in w.found PROVE \E i \in LintTips : <<i, i>> \in YieldsTo
    OBVIOUS
  <2>1. PICK i \in ids : <<i, i>> \in YieldsTo
    BY <1>2
  <2> QED
    BY <1>5, <2>1
<1>7. \A f \in Cycles : f.severity = "reject" /\ \A i, j \in f.ids : <<i, j>> \in YieldsTo
  BY <1>2, <1>3 DEF Finding
<1> QED
  BY <1>1, <1>2, <1>4, <1>6, <1>7

\* The text of a tip is one a caller may give.
LEMMA TextIs ==
    ASSUME Registered, NEW i \in LintTips
    PROVE  i \in Names /\ Text(i).negated \in BOOLEAN /\ Text(i).vacuous \in BOOLEAN
BY RegisteredIs, HeuristicAssumption

\* The findings that refuse: each of its kind says what is wrong.
LEMMA RefusedFor ==
    ASSUME Registered
    PROVE  Clean <=> /\ Duplicates = {} /\ Conflicts = {} /\ Cycles = {}
                     /\ \A i \in LintTips : Text(i).mode = "blocking" =>
                           Text(i).scope \notin UniversalScope /\ ~Text(i).vacuous
<1>1. \A f \in Duplicates \cup Conflicts : f.severity = "reject"
  <2>1. \A kind, ids : Finding(kind, "reject", ids).severity = "reject"
    BY DEF Finding
  <2>2. \A f \in Duplicates : \E ids : f = Finding("duplicate", "reject", ids)
    BY DEF Duplicates
  <2>3. \A f \in Conflicts : \E ids : f = Finding("conflict", "reject", ids)
    BY DEF Conflicts
  <2> QED
    BY <2>1, <2>2, <2>3
<1>2. \A f \in Cycles : f.severity = "reject"
  BY CyclesAreThose
<1>3. (\A f \in Scopes : f.severity # "reject") <=>
         \A i \in LintTips : Text(i).scope \in UniversalScope => Text(i).mode # "blocking"
  <2>1. ASSUME NEW f \in Scopes, f.severity = "reject"
        PROVE  \E i \in LintTips : Text(i).scope \in UniversalScope /\ Text(i).mode = "blocking"
    BY <2>1 DEF Scopes, Finding, Severity
  <2>2. ASSUME NEW i \in LintTips, Text(i).scope \in UniversalScope, Text(i).mode = "blocking"
        PROVE  \E f \in Scopes : f.severity = "reject"
    <3>1. Finding("always_triggered", Severity(i), {i}) \in Scopes
      BY <2>2 DEF Scopes
    <3>2. Finding("always_triggered", Severity(i), {i}).severity = "reject"
      BY <2>2 DEF Finding, Severity
    <3> QED
      BY <3>1, <3>2
  <2> QED
    BY <2>1, <2>2
<1>4. (\A f \in Rollbacks : f.severity # "reject") <=>
         \A i \in LintTips : Text(i).vacuous => Text(i).mode # "blocking"
  <2>1. ASSUME NEW f \in Rollbacks, f.severity = "reject"
        PROVE  \E i \in LintTips : Text(i).vacuous /\ Text(i).mode = "blocking"
    BY <2>1 DEF Rollbacks, Finding, Severity
  <2>2. ASSUME NEW i \in LintTips, Text(i).vacuous, Text(i).mode = "blocking"
        PROVE  \E f \in Rollbacks : f.severity = "reject"
    <3>1. Finding("vacuous_rollback", Severity(i), {i}) \in Rollbacks
      BY <2>2 DEF Rollbacks
    <3>2. Finding("vacuous_rollback", Severity(i), {i}).severity = "reject"
      BY <2>2 DEF Finding, Severity
    <3> QED
      BY <3>1, <3>2
  <2> QED
    BY <2>1, <2>2
<1>5. Clean <=> /\ Duplicates = {} /\ Conflicts = {} /\ Cycles = {}
                /\ \A f \in Scopes : f.severity # "reject"
                /\ \A f \in Rollbacks : f.severity # "reject"
  BY <1>1, <1>2 DEF Clean, Findings
<1> QED
  BY <1>3, <1>4, <1>5

\* No finding of these two kinds: no two current rules of one scope have one statement or
\* say opposite things in the same words.
LEMMA AgreeingRules ==
    ASSUME Registered
    PROVE  Duplicates = {} /\ Conflicts = {} <=>
              \A i, j \in LintTips : i # j /\ Text(i).scope = Text(j).scope =>
                 /\ Text(i).statement # Text(j).statement
                 /\ Text(i).core = Text(j).core /\ Text(i).core # {} =>
                       Text(i).negated = Text(j).negated
<1> DEFINE twins(i) == {j \in LintTips : /\ Text(j).statement = Text(i).statement
                                         /\ Text(j).scope = Text(i).scope}
           Opposed(i, j) == /\ Text(i).core = Text(j).core /\ Text(i).core # {}
                            /\ Text(i).scope = Text(j).scope
                            /\ ~Text(i).negated /\ Text(j).negated
<1>1. Duplicates = {Finding("duplicate", "reject", twins(i)) :
                       i \in {t \in LintTips : Cardinality(twins(t)) > 1}}
  BY DEF Duplicates
<1>2. \A i : twins(i) \subseteq LintTips /\ IsFiniteSet(twins(i))
  BY RegisteredIs, FS_Subset
<1>3. \A i \in LintTips : i \in twins(i)
  OBVIOUS
<1>4. \A i, j \in LintTips :
         j \in twins(i) <=> /\ Text(j).statement = Text(i).statement
                            /\ Text(j).scope = Text(i).scope
  OBVIOUS
<1> HIDE DEF twins
<1>5. ASSUME NEW i \in LintTips, Cardinality(twins(i)) > 1 PROVE \E j \in twins(i) : j # i
  <2> SUFFICES ASSUME twins(i) = {i} PROVE FALSE
    BY <1>3
  <2>1. Cardinality({i}) = 1
    BY FS_Singleton
  <2> QED
    BY <1>5, <2>1
<1>6. ASSUME NEW i \in LintTips, NEW j \in twins(i), j # i PROVE Cardinality(twins(i)) > 1
  <2>1. {i, j} \subseteq twins(i)
    BY <1>3
  <2>2. Cardinality({i, j}) = 2
    <3>1. IsFiniteSet({i}) /\ Cardinality({i}) = 1 /\ j \notin {i} /\ {i, j} = {i} \cup {j}
      BY <1>6, FS_Singleton
    <3> QED
      BY <3>1, FS_AddElement
  <2>3. Cardinality({i, j}) <= Cardinality(twins(i)) /\ Cardinality(twins(i)) \in Nat
    BY <1>2, <2>1, FS_Subset, FS_CardinalityType
  <2> QED
    BY <2>2, <2>3
<1>7. Duplicates = {} <=> \A i \in LintTips : ~(Cardinality(twins(i)) > 1)
  BY <1>1
<1>8. Conflicts = {} <=> \A i, j \in LintTips : ~Opposed(i, j)
  <2> DEFINE E == {q \in LintTips \X LintTips : Opposed(q[1], q[2])}
  <2>1. Conflicts = {Finding("conflict", "reject", {p[1], p[2]}) : p \in E}
    BY DEF Conflicts
  <2>2. \A i, j \in LintTips : <<i, j>> \in E <=> Opposed(i, j)
    <3> HIDE DEF Opposed
    <3> QED
      OBVIOUS
  <2>3. \A q \in E : \E i, j \in LintTips : q = <<i, j>>
    OBVIOUS
  <2> HIDE DEF E, Opposed
  <2>4. Conflicts = {} <=> E = {}
    BY <2>1
  <2>5. ASSUME NEW i \in LintTips, NEW j \in LintTips, Opposed(i, j) PROVE E # {}
    BY <2>2, <2>5
  <2>6. ASSUME NEW q \in E PROVE \E i, j \in LintTips : Opposed(i, j)
    <3>1. PICK i \in LintTips, j \in LintTips : q = <<i, j>>
      BY <2>3
    <3>2. Opposed(i, j)
      BY <2>2, <3>1
    <3> QED
      BY <3>2
  <2> QED
    BY <2>4, <2>5, <2>6
<1>9. ASSUME NEW i \in LintTips, NEW j \in LintTips,
             Text(i).core = Text(j).core, Text(i).core # {}, Text(i).scope = Text(j).scope,
             ~Opposed(i, j), ~Opposed(j, i)
      PROVE  Text(i).negated = Text(j).negated
  <2>1. Text(i).negated \in BOOLEAN /\ Text(j).negated \in BOOLEAN
    BY TextIs
  <2>2. ~(~Text(i).negated /\ Text(j).negated) /\ ~(~Text(j).negated /\ Text(i).negated)
    BY <1>9
  <2> QED
    BY <2>1, <2>2
<1>10. ASSUME NEW i \in LintTips, NEW j \in LintTips, Opposed(i, j)
       PROVE  /\ i # j /\ Text(i).scope = Text(j).scope /\ Text(i).core = Text(j).core
              /\ Text(i).core # {} /\ Text(i).negated # Text(j).negated
  BY <1>10
<1> HIDE DEF Opposed
<1>11. ASSUME Duplicates = {}, Conflicts = {},
              NEW i \in LintTips, NEW j \in LintTips, i # j, Text(i).scope = Text(j).scope
       PROVE  /\ Text(i).statement # Text(j).statement
              /\ Text(i).core = Text(j).core /\ Text(i).core # {} =>
                    Text(i).negated = Text(j).negated
  <2>1. Text(i).statement # Text(j).statement
    <3> SUFFICES ASSUME Text(i).statement = Text(j).statement PROVE FALSE
      OBVIOUS
    <3>1. j \in twins(i)
      BY <1>4, <1>11
    <3> QED
      BY <1>6, <1>7, <1>11, <3>1
  <2>2. ASSUME Text(i).core = Text(j).core, Text(i).core # {}
        PROVE  Text(i).negated = Text(j).negated
    <3>1. ~Opposed(i, j) /\ ~Opposed(j, i)
      BY <1>8, <1>11
    <3> QED
      BY <1>9, <1>11, <2>2, <3>1
  <2> QED
    BY <2>1, <2>2
<1>12. ASSUME \A i, j \in LintTips : i # j /\ Text(i).scope = Text(j).scope =>
                 /\ Text(i).statement # Text(j).statement
                 /\ Text(i).core = Text(j).core /\ Text(i).core # {} =>
                       Text(i).negated = Text(j).negated
       PROVE  Duplicates = {} /\ Conflicts = {}
  <2>1. \A i \in LintTips : ~(Cardinality(twins(i)) > 1)
    <3> SUFFICES ASSUME NEW i \in LintTips, Cardinality(twins(i)) > 1 PROVE FALSE
      OBVIOUS
    <3>1. PICK j \in twins(i) : j # i
      BY <1>5
    <3> QED
      BY <1>2, <1>4, <1>12, <3>1
  <2>2. \A i, j \in LintTips : ~Opposed(i, j)
    BY <1>10, <1>12
  <2> QED
    BY <1>7, <1>8, <2>1, <2>2
<1> QED
  BY <1>11, <1>12

\* The linter accepts a registry if and only if it is consistent, and the cycles it names
\* are real.
LEMMA CleanAgrees == ASSUME Registered PROVE CleanIsConsistent
<1>1. Clean <=> /\ \A i \in LintTips : <<i, i>> \notin YieldsTo
                /\ \A i, j \in LintTips : i # j /\ Text(i).scope = Text(j).scope =>
                      /\ Text(i).statement # Text(j).statement
                      /\ Text(i).core = Text(j).core /\ Text(i).core # {} =>
                            Text(i).negated = Text(j).negated
                /\ \A i \in LintTips : Text(i).mode = "blocking" =>
                      Text(i).scope \notin UniversalScope /\ ~Text(i).vacuous
  BY RefusedFor, AgreeingRules, CyclesAreThose
<1>2. \A f \in Cycles : \A i, j \in f.ids : <<i, j>> \in YieldsTo
  BY CyclesAreThose
<1> QED
  BY <1>1, <1>2 DEF CleanIsConsistent

\* The heuristics' part of the records
HeuristicInv == Registered /\ trial \subseteq Names /\ CeilingHolds

\* The statuses that can be reached, and those below which they stay
LEMMA StatusesAre ==
    /\ Statuses = {"lesson_hypothesis", "candidate", "shadow", "rejected"}
    /\ Statuses \cap Unreachable = {}
BY DEF Statuses, Unreachable, StatusOrder

\* A published snapshot that moves forward keeps the invariant.
LEMMA HeuristicPublished ==
    ASSUME HeuristicInv, NEW h \in Heuristic, PublishHeuristic(h),
           h.supersedes # 0 => h.supersedes \in Names
                               /\ MayAdvance(heuristics[h.supersedes].status, h.status)
    PROVE  HeuristicInv'
<1> DEFINE L == Len(heuristics)
<1>1. L \in Nat /\ \A i \in Names : heuristics[i] \in Heuristic
  BY RegisteredIs DEF HeuristicInv
<1>2. heuristics' = Append(heuristics, h) /\ trial' = trial
  BY DEF PublishHeuristic
<1>3. /\ heuristics' \in Seq(Heuristic) /\ Len(heuristics') = L + 1 /\ heuristics'[L + 1] = h
      /\ \A i \in 1 .. L : heuristics'[i] = heuristics[i]
  BY <1>1, <1>2 DEF HeuristicInv, Registered
<1>4. Names = 1 .. L /\ Names' = 1 .. L + 1
  BY <1>3 DEF Names
<1>5. Registered' /\ trial' \subseteq Names'
  <2>1. Registered'
    BY <1>3 DEF Registered
  <2> QED
    BY <1>1, <1>2, <1>4, <2>1 DEF HeuristicInv
<1>6. \A i \in trial' : heuristics'[i].status = "shadow"
  BY <1>2, <1>3, <1>4 DEF HeuristicInv, CeilingHolds
<1>7. ASSUME NEW i \in Names'
      PROVE  LET g == heuristics'[i]
             IN  /\ g.status \in Statuses
                 /\ g.supersedes # 0 =>
                       /\ g.supersedes < i /\ heuristics'[g.supersedes].status # "rejected"
                       /\ g.status = "rejected"
                             \/ StatusOrder[g.status] > StatusOrder[heuristics'[g.supersedes].status]
  <2>1. CASE i = L + 1
    <3>1. h.status \in Statuses
      BY DEF Heuristic
    <3>2. ASSUME h.supersedes # 0
          PROVE  /\ h.supersedes < i /\ heuristics'[h.supersedes].status # "rejected"
                 /\ h.status = "rejected"
                       \/ StatusOrder[h.status] > StatusOrder[heuristics'[h.supersedes].status]
      <4>1. h.supersedes \in 1 .. L /\ MayAdvance(heuristics[h.supersedes].status, h.status)
        BY <1>4, <3>2
      <4>2. heuristics'[h.supersedes] = heuristics[h.supersedes] /\ h.supersedes < L + 1
        BY <1>1, <1>3, <4>1
      <4> QED
        BY <2>1, <4>1, <4>2 DEF MayAdvance
    <3> QED
      BY <1>3, <2>1, <3>1, <3>2
  <2>2. CASE i \in 1 .. L
    <3> DEFINE g == heuristics[i]
    <3>1. /\ g.status \in Statuses
          /\ g.supersedes # 0 =>
                /\ g.supersedes < i /\ heuristics[g.supersedes].status # "rejected"
                /\ g.status = "rejected"
                      \/ StatusOrder[g.status] > StatusOrder[heuristics[g.supersedes].status]
      BY <1>4, <2>2 DEF HeuristicInv, CeilingHolds
    <3>2. g.supersedes \in Nat
      BY <1>1, <1>4, <2>2 DEF Heuristic
    <3>3. g.supersedes # 0 => g.supersedes \in 1 .. L
      BY <1>1, <2>2, <3>1, <3>2
    <3>4. heuristics'[i] = g
      BY <1>3, <2>2
    <3> HIDE DEF g
    <3> QED
      BY <1>3, <3>1, <3>3, <3>4
  <2> QED
    BY <1>1, <1>4, <2>1, <2>2
<1>8. CeilingHolds'
  BY <1>6, <1>7 DEF CeilingHolds
<1> QED
  BY <1>5, <1>8 DEF HeuristicInv

\* Every step of the heuristics keeps the invariant.
LEMMA HeuristicStep ==
    ASSUME HeuristicInv, [ExperienceNext]_<<memoryVars, heuristicVars>> PROVE HeuristicInv'
<1>1. ASSUME NEW rule \in Rule, Propose(rule) PROVE HeuristicInv'
  <2> DEFINE h == [status |-> "lesson_hypothesis", supersedes |-> 0, rule |-> rule]
  <2>1. h \in Heuristic /\ h.supersedes = 0
    BY StatusesAre DEF Heuristic
  <2>2. PublishHeuristic(h)
    BY <1>1 DEF Propose
  <2> HIDE DEF h
  <2> QED
    BY <2>1, <2>2, HeuristicPublished
<1>2. ASSUME NEW i \in Names, NEW status \in Statuses \cup Unreachable, Advance(i, status)
      PROVE  HeuristicInv'
  <2>1. PICK rule \in Rule : PublishHeuristic([status |-> status, supersedes |-> i, rule |-> rule])
    BY <1>2 DEF Advance
  <2> DEFINE h == [status |-> status, supersedes |-> i, rule |-> rule]
  <2>2. MayAdvance(heuristics[i].status, status)
    BY <1>2 DEF Advance
  <2>3. status \in Statuses /\ i \in Nat
    BY <2>2, RegisteredIs DEF MayAdvance, HeuristicInv
  <2>4. h \in Heuristic /\ h.supersedes = i /\ h.status = status
    BY <2>3 DEF Heuristic
  <2>5. PublishHeuristic(h)
    BY <2>1
  <2> HIDE DEF h
  <2> QED
    BY <2>2, <2>4, <2>5, HeuristicPublished
<1>3. ASSUME NEW ids \in SUBSET Names, Shadow(ids) PROVE HeuristicInv'
  <2>1. trial' = ids /\ heuristics' = heuristics /\ \A i \in ids : heuristics[i].status = "shadow"
    BY <1>3 DEF Shadow
  <2>2. Names' = Names /\ Registered'
    BY <2>1 DEF Names, HeuristicInv, Registered
  <2>3. CeilingHolds'
    BY <2>1, <2>2 DEF HeuristicInv, CeilingHolds
  <2> QED
    BY <2>1, <2>2, <2>3 DEF HeuristicInv
<1>4. ASSUME UNCHANGED heuristicVars PROVE HeuristicInv'
  <2>1. heuristics' = heuristics /\ trial' = trial
    BY <1>4 DEF heuristicVars
  <2> QED
    BY <2>1 DEF HeuristicInv, Registered, Names, CeilingHolds
<1> QED
  BY <1>1, <1>2, <1>3, <1>4 DEF ExperienceNext, HeuristicNext

\* It holds of an empty registry.
LEMMA HeuristicStart == ExperienceInit => HeuristicInv
<1> SUFFICES ASSUME ExperienceInit PROVE HeuristicInv
  OBVIOUS
<1>1. heuristics = <<>> /\ trial = {}
  BY DEF ExperienceInit, HeuristicInit
<1>2. Names = {}
  BY <1>1 DEF Names
<1> QED
  BY <1>1, <1>2 DEF HeuristicInv, Registered, CeilingHolds

\* Heuristics never outgrow the shadow, and a clean lint means they agree
\* (transition_heuristic, lint_heuristics).
THEOREM HeuristicsAreSound == ExperienceSpec => []HeuristicsSound
<1>1. HeuristicInv => HeuristicsSound
  BY CleanAgrees DEF HeuristicInv, HeuristicsSound
<1>2. HeuristicInv /\ [ExperienceNext]_<<memoryVars, heuristicVars>> => HeuristicInv'
  BY HeuristicStep
<1> QED
  BY <1>1, <1>2, HeuristicStart, PTL DEF ExperienceSpec

=============================================================================
