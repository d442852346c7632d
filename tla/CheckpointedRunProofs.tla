----------------------- MODULE CheckpointedRunProofs -----------------------
(***************************************************************************)
(* For every set of problems, requests and losses, over any number of      *)
(* calls: resumption is exact, the budget is cumulative, and what a call   *)
(* returns is what happened.                                               *)
(***************************************************************************)
EXTENDS CheckpointedRun, TLAPS

Checkpoints == [run : 1 .. MaxRuns, step : 0 .. MaxStep, loss : Nat, early : EarlyState, best : Ref]

\* A checkpoint that says what the uninterrupted run says of its step.
SaysTrue(p, k) ==
    /\ k \in Checkpoints
    /\ k.early = Uninterrupted[p][k.step]
    /\ RestoredBest(k).step = k.early.best_step
    /\ RestoredBest(k).loss = k.early.best_metric
    /\ RestoredBest(k) # NoRef

Types ==
    /\ problem \in Problem
    /\ kept \subseteq Checkpoints
    /\ runs \in 0 .. MaxRuns
    /\ call \in Request
    /\ origin \subseteq kept /\ \A j, k \in origin : j = k
    /\ status \in {"idle", "training", "failed", "early_stopped"}
    /\ step \in 0 .. MaxStep
    /\ early \in EarlyState
    /\ best \in Ref
    /\ candidates \in Seq(Checkpoints)
    /\ result.exhausted \in Dimension \cup {"none", "max_samples"}
    /\ status # "idle" => runs > 0

Exact ==
    /\ early = Uninterrupted[problem][step]
    /\ candidates # <<>> => /\ best.step = early.best_step /\ best.loss = early.best_metric
                           /\ best # NoRef
    /\ status # "idle" => candidates # <<>>
    /\ \A k \in kept : SaysTrue(problem, k)
    /\ \A i \in 1 .. Len(candidates) : SaysTrue(problem, candidates[i])

Within ==
    /\ status # "idle" => /\ call.budget.rowsFit => Caps(call.budget) # {}
                          /\ Prior <= call.requested
    /\ Prior <= step
    /\ BudgetKept

Inv == Types /\ Exact /\ Within

-----------------------------------------------------------------------------
(* The plan of the budget *)

LEMMA Problems == Problem \subseteq [loss : Losses, enabled : BOOLEAN, patience : Nat,
                                      min_delta : Nat, warmup : Nat]
BY ConstantsAssumption

LEMMA Requests ==
    ASSUME NEW c \in Request
    PROVE  /\ c.requested \in 1 .. MaxStep /\ c.inject \in 0 .. MaxStep
           /\ c.budget \in Budget
           /\ MaxStep \in Nat
BY ConstantsAssumption

\* A cap is a number of steps.
LEMMA CapsAreNumbers ==
    ASSUME NEW b \in Budget, NEW d \in Caps(b)
    PROVE  b[d] \in Nat /\ d \in Dimension
BY DEF Budget, Caps, Dimension, NoCap

LEMMA RoomIsNatural ==
    ASSUME NEW b \in Budget, NEW d \in Caps(b), NEW prior \in Nat
    PROVE  Room(b, d, prior) \in Nat /\ (Room(b, d, prior) > 0 => Room(b, d, prior) = b[d] - prior)
BY CapsAreNumbers DEF Room

\* There is a smallest cap, and it leaves no more room than any other.
LEMMA TightestIsLeast ==
    ASSUME NEW b \in Budget, NEW prior \in Nat, Caps(b) # {}
    PROVE  /\ Tightest(b, prior) \in Caps(b)
           /\ \A e \in Caps(b) : Room(b, Tightest(b, prior), prior) <= Room(b, e, prior)
<1> DEFINE
      Before(d, e) == \/ Room(b, d, prior) < Room(b, e, prior)
                      \/ Room(b, d, prior) = Room(b, e, prior) /\ Priority[d] < Priority[e]
      Least(d) == \A e \in Caps(b) \ {d} : Before(d, e)
<1>1. \A d \in Caps(b) : Room(b, d, prior) \in Nat /\ d \in Dimension
  BY RoomIsNatural, CapsAreNumbers
<1>2. \A d, e \in Caps(b) : d # e => Before(d, e) \/ Before(e, d)
  BY <1>1 DEF Priority, Dimension
<1>3. \A d, e, f \in Caps(b) : Before(d, e) /\ Before(e, f) => Before(d, f)
  BY <1>1 DEF Priority, Dimension
<1> HIDE DEF Before
<1>4. \E d \in Caps(b) : Least(d)
  <2>1. Caps(b) \subseteq {"max_steps", "max_epochs", "max_flops"}
    BY DEF Caps, Dimension
  <2> QED
    BY <1>2, <1>3, <2>1
<1>5. Tightest(b, prior) = CHOOSE d \in Caps(b) : Least(d)
  BY DEF Tightest, Before
<1>6. Tightest(b, prior) \in Caps(b) /\ Least(Tightest(b, prior))
  <2> HIDE DEF Least
  <2> QED BY <1>4, <1>5
<1> QED
  BY <1>1, <1>6 DEF Before

\* A call is allowed what it asks for and what every cap leaves.
LEMMA AllowedWithin ==
    ASSUME NEW c \in Request, NEW prior \in Nat, prior <= c.requested,
           c.budget.rowsFit => Caps(c.budget) # {}
    PROVE  /\ Allowed(c, prior) \in Nat
           /\ prior + Allowed(c, prior) <= c.requested
           /\ Allowed(c, prior) > 0 =>
                 /\ c.budget.rowsFit
                 /\ \A d \in Caps(c.budget) : prior + Allowed(c, prior) <= c.budget[d]
           /\ Exhausted(c, prior) \in Dimension \cup {"none", "max_samples"}
<1> DEFINE b == c.budget
           T == Tightest(b, prior)
<1>1. c.requested \in Nat /\ b \in Budget
  BY Requests
<1>2. CASE ~b.rowsFit
  BY <1>1, <1>2 DEF Allowed, Exhausted
<1>3. CASE b.rowsFit
  <2>1. T \in Caps(b) /\ \A e \in Caps(b) : Room(b, T, prior) <= Room(b, e, prior)
    BY <1>1, <1>3, TightestIsLeast
  <2>2. \A e \in Caps(b) : /\ Room(b, e, prior) \in Nat /\ b[e] \in Nat
                           /\ Room(b, e, prior) > 0 => Room(b, e, prior) = b[e] - prior
    BY <1>1, RoomIsNatural, CapsAreNumbers
  <2>3. T \in Dimension
    BY <1>1, <2>1, CapsAreNumbers
  <2>4. Allowed(c, prior) = IF Room(b, T, prior) < c.requested - prior
                            THEN Room(b, T, prior) ELSE c.requested - prior
    BY <1>3 DEF Allowed
  <2>5. Exhausted(c, prior) \in {"none", T}
    BY <1>3 DEF Exhausted
  <2> HIDE DEF b, T
  <2>6. \A d \in Caps(b) : Allowed(c, prior) > 0 => prior + Allowed(c, prior) <= b[d]
    BY <1>1, <2>1, <2>2, <2>4
  <2>7. Allowed(c, prior) \in Nat /\ prior + Allowed(c, prior) <= c.requested
    BY <1>1, <2>1, <2>2, <2>4
  <2> QED
    BY <1>3, <2>3, <2>5, <2>6, <2>7 DEF b
<1> QED
  BY <1>2, <1>3

-----------------------------------------------------------------------------
(* Early stopping *)

LEMMA FreshIsTyped ==
    ASSUME NEW p \in Problem
    PROVE  /\ Fresh(p) \in EarlyState /\ Fresh(p) = Uninterrupted[p][0]
           /\ p.loss[0] \in Nat
BY Problems, ConstantsAssumption, UninterruptedAssumption DEF Fresh, EarlyState, Losses, NonFinite

LEMMA UpdatedIsTyped ==
    ASSUME NEW p \in Problem, NEW e \in EarlyState, NEW n \in Nat, p.loss[n] \in Nat
    PROVE  /\ Updated(p, e, n) \in EarlyState
           /\ IF Improves(p, e, p.loss[n])
              THEN Updated(p, e, n).best_step = n /\ Updated(p, e, n).best_metric = p.loss[n]
              ELSE /\ Updated(p, e, n).best_step = e.best_step
                   /\ Updated(p, e, n).best_metric = e.best_metric
BY DEF Updated, EarlyState

\* One more step of training is one more step of the uninterrupted run.
LEMMA UpdatedIsNext ==
    ASSUME NEW p \in Problem, NEW n \in 0 .. MaxStep, n + 1 <= MaxStep, p.loss[n + 1] # NonFinite
    PROVE  /\ p.loss[n + 1] \in Nat
           /\ Updated(p, Uninterrupted[p][n], n + 1) = Uninterrupted[p][n + 1]
<1>1. MaxStep \in Nat /\ p.loss \in Losses
  BY Problems, ConstantsAssumption
<1>2. n + 1 \in 0 .. MaxStep /\ n + 1 \in 1 .. MaxStep /\ (n + 1) - 1 = n
  BY <1>1
<1>3. p.loss[n + 1] \in Nat
  BY <1>1, <1>2 DEF Losses
<1>4. Uninterrupted[p][n + 1] = Updated(p, Uninterrupted[p][(n + 1) - 1], n + 1)
  BY <1>2, UninterruptedAssumption
<1> QED
  BY <1>2, <1>3, <1>4

\* What a checkpoint refers to is typed.
LEMMA RefOfCheckpoint ==
    ASSUME NEW k \in Checkpoints
    PROVE  RefOf(k) \in Ref /\ RestoredBest(k) \in Ref
BY ConstantsAssumption DEF Checkpoints, RefOf, Ref, RestoredBest

-----------------------------------------------------------------------------
(* The invariant *)

LEMMA InitInv == Init => Inv
<1> SUFFICES ASSUME Init PROVE Inv
  OBVIOUS
<1>1. call \in Request
  BY ConstantsAssumption DEF Init
<1>2. Fresh(problem) \in EarlyState /\ Fresh(problem) = Uninterrupted[problem][0]
  BY FreshIsTyped DEF Init
<1>3. Types
  BY <1>1, <1>2, ConstantsAssumption DEF Init, Types, NoRef, Ref, NoResult
<1>4. Exact
  BY <1>2 DEF Init, Exact
<1>5. Within
  BY DEF Init, Within, Prior, BudgetKept
<1> QED
  BY <1>3, <1>4, <1>5 DEF Inv

\* A call that begins stands where its checkpoint does.
LEMMA BeginInv ==
    ASSUME Inv, NEW c \in Request, Begin(c)
    PROVE  Inv'
<1> DEFINE first == candidates'[1]
           new == Checkpoint(runs + 1, 0, Fresh(problem), NoRef)
<1>1. /\ runs \in Nat /\ runs + 1 \in 1 .. MaxRuns /\ problem \in Problem
      /\ MaxStep \in Nat /\ MaxRuns \in Nat /\ c.requested \in Nat
  BY ConstantsAssumption, Requests DEF Inv, Types, Begin
<1>2. candidates' = <<first>> /\ best' = RestoredBest(first) /\ step' = first.step
  BY DEF Begin
<1>3. /\ SaysTrue(problem, first) /\ early' = first.early
      /\ origin' \subseteq kept /\ \A j, k \in origin' : j = k
      /\ Prior' = first.step /\ Prior' <= c.requested
      /\ c.budget.rowsFit => Caps(c.budget) # {}
  <2>1. CASE Accepted(c, {}) /\ origin' = {} /\ early' = Fresh(problem)
    <3>1. first = new /\ Prior' = 0
      BY <2>1 DEF Begin, Prior
    <3>2. Fresh(problem) \in EarlyState /\ Fresh(problem) = Uninterrupted[problem][0]
          /\ problem.loss[0] \in Nat
      BY <1>1, FreshIsTyped
    <3>3. SaysTrue(problem, new) /\ new.step = 0 /\ new.early = Fresh(problem)
      BY <1>1, <3>2 DEF SaysTrue, Checkpoints, Checkpoint, RestoredBest, RefOf, Fresh, Ref, NoRef
    <3> QED
      BY <1>1, <2>1, <3>1, <3>3 DEF Accepted
  <2>2. CASE \E k \in kept : Accepted(c, {k}) /\ origin' = {k} /\ early' = Restore(k)
    <3>0. PICK k \in kept : Accepted(c, {k}) /\ origin' = {k} /\ early' = Restore(k)
      BY <2>2
    <3>1. first = k /\ Prior' = k.step
      BY <3>0 DEF Begin, Prior
    <3> QED
      BY <3>0, <3>1 DEF Accepted, Inv, Exact, Restore
  <2>3. \/ Accepted(c, {}) /\ origin' = {} /\ early' = Fresh(problem)
        \/ \E k \in kept : Accepted(c, {k}) /\ origin' = {k} /\ early' = Restore(k)
    BY DEF Begin
  <2> QED
    BY <2>1, <2>2, <2>3
<1> HIDE DEF first
<1>4. RestoredBest(first) \in Ref /\ first \in Checkpoints
  BY <1>3, RefOfCheckpoint DEF SaysTrue
<1>5. Types'
  <2>1. candidates' \in Seq(Checkpoints)
    BY <1>2, <1>4
  <2>2. first.early \in EarlyState /\ first.step \in 0 .. MaxStep
    BY <1>4 DEF Checkpoints
  <2> QED
    BY <1>1, <1>2, <1>3, <1>4, <2>1, <2>2 DEF Begin, Inv, Types, NoResult
<1>6. Exact'
  <2>1. \A i \in 1 .. Len(candidates') : candidates'[i] = first
    BY <1>2
  <2>2. \A k \in kept : SaysTrue(problem, k)
    BY DEF Inv, Exact
  <2>3. problem' = problem /\ kept' = kept
    BY DEF Begin
  <2>4. (\A k \in kept : SaysTrue(problem, k))'
    BY <2>2, <2>3
  <2>5. (\A i \in 1 .. Len(candidates) : SaysTrue(problem, candidates[i]))'
    BY <1>3, <2>1, <2>3
  <2>6. /\ early' = Uninterrupted[problem'][step']
        /\ best'.step = early'.best_step /\ best'.loss = early'.best_metric
        /\ best' # NoRef /\ candidates' # <<>>
    BY <1>2, <1>3, <2>3 DEF SaysTrue
  <2> QED
    BY <2>4, <2>5, <2>6 DEF Exact
<1>7. Within'
  <2>1. first.step \in Nat
    BY <1>1, <1>4 DEF Checkpoints
  <2> QED
    BY <1>2, <1>3, <2>1 DEF Begin, Within, BudgetKept
<1> QED
  BY <1>5, <1>6, <1>7 DEF Inv

LEMMA PriorIsStep == Inv => Prior \in Nat
<1> SUFFICES ASSUME Inv PROVE Prior \in Nat
  OBVIOUS
<1>1. \A k \in origin : k.step \in Nat
  BY ConstantsAssumption DEF Inv, Types, Checkpoints
<1>2. CASE origin = {}
  BY <1>2 DEF Prior
<1>3. CASE origin # {}
  <2>1. (CHOOSE k \in origin : TRUE) \in origin
    BY <1>3
  <2> QED
    BY <1>1, <1>3, <2>1 DEF Prior
<1> QED
  BY <1>2, <1>3

\* While there are more steps, the next one is within the request and every cap.
LEMMA NextStepFits ==
    ASSUME Inv, MoreSteps
    PROVE  /\ step \in Nat /\ step + 1 <= call.requested /\ call.requested \in Nat
           /\ step + 1 <= MaxStep
           /\ call.budget.rowsFit
           /\ \A d \in Caps(call.budget) : step + 1 <= call.budget[d]
<1> DEFINE more == Allowed(call, Prior)
<1>1. /\ step \in Nat /\ MaxStep \in Nat /\ call \in Request
      /\ call.requested \in 1 .. MaxStep /\ call.budget \in Budget
  BY ConstantsAssumption, Requests DEF Inv, Types
<1>2. /\ Prior \in Nat /\ Prior <= call.requested /\ Prior <= step
      /\ call.budget.rowsFit => Caps(call.budget) # {}
  BY PriorIsStep DEF Inv, Within, MoreSteps
<1>3. /\ more \in Nat /\ Prior + more <= call.requested
      /\ more > 0 => /\ call.budget.rowsFit
                     /\ \A d \in Caps(call.budget) : Prior + more <= call.budget[d]
  BY <1>1, <1>2, AllowedWithin
<1>4. step < Prior + more
  BY DEF MoreSteps
<1>5. \A d \in Caps(call.budget) : call.budget[d] \in Nat
  BY <1>1, CapsAreNumbers
<1> HIDE DEF more
<1> QED
  BY <1>1, <1>2, <1>3, <1>4, <1>5

Improved == Improves(problem, early, problem.loss[step + 1])

\* The checkpoint of the next step.
NextCheckpoint ==
    Checkpoint(runs, step + 1, Updated(problem, early, step + 1),
               IF Improved THEN NoRef ELSE best)

\* What one step of training does, and that its checkpoint says what is true.
LEMMA TrainFacts ==
    ASSUME Inv, Train
    PROVE  /\ step \in Nat /\ step + 1 \in 0 .. MaxStep
           /\ step + 1 <= call.requested /\ call.budget.rowsFit
           /\ \A d \in Caps(call.budget) : step + 1 <= call.budget[d]
           /\ candidates \in Seq(Checkpoints) /\ candidates # <<>>
           /\ step' = step + 1 /\ early' = Updated(problem, early, step + 1)
           /\ early' = Uninterrupted[problem][step + 1]
           /\ candidates' = Append(candidates, NextCheckpoint)
           /\ best' = IF Improved THEN RefOf(NextCheckpoint) ELSE best
           /\ problem' = problem /\ kept' = kept /\ origin' = origin /\ call' = call
           /\ runs' = runs /\ result' = result /\ status' \in {"early_stopped", "training"}
           /\ problem.loss[step + 1] \in Nat /\ early' \in EarlyState
           /\ best' \in Ref /\ best' # NoRef
           /\ best'.step = early'.best_step /\ best'.loss = early'.best_metric
           /\ early'.best_metric = IF Improved THEN problem.loss[step + 1] ELSE early.best_metric
           /\ SaysTrue(problem, NextCheckpoint) /\ NextCheckpoint \in Checkpoints
           /\ NextCheckpoint.step = step + 1 /\ NextCheckpoint.early = early'
           /\ NextCheckpoint.best = IF Improved THEN NoRef ELSE best
           /\ RestoredBest(NextCheckpoint) = best'
<1> DEFINE n == step + 1
           improved == Improved
           new == NextCheckpoint
<1>1. /\ problem \in Problem /\ early \in EarlyState /\ best \in Ref
      /\ runs \in 1 .. MaxRuns /\ MaxRuns \in Nat /\ MaxStep \in Nat
      /\ candidates \in Seq(Checkpoints) /\ candidates # <<>>
      /\ step \in 0 .. MaxStep /\ Prior \in Nat
  BY ConstantsAssumption, PriorIsStep DEF Inv, Types, Exact, Train, MoreSteps
<1>2. /\ n \in 0 .. MaxStep /\ n \in Nat /\ problem.loss[n] # NonFinite
      /\ n <= call.requested /\ call.budget.rowsFit
      /\ \A d \in Caps(call.budget) : n <= call.budget[d]
  BY <1>1, NextStepFits DEF Train
<1>3. /\ step' = n /\ early' = Updated(problem, early, n)
      /\ candidates' = Append(candidates, new)
      /\ best' = IF improved THEN RefOf(new) ELSE best
      /\ problem' = problem /\ kept' = kept /\ origin' = origin /\ call' = call /\ runs' = runs
      /\ result' = result /\ status' \in {"early_stopped", "training"}
  BY DEF Train, NextCheckpoint, Improved
<1>4. /\ problem.loss[n] \in Nat
      /\ early' = Uninterrupted[problem][n]
      /\ early' \in EarlyState
      /\ IF improved THEN early'.best_step = n /\ early'.best_metric = problem.loss[n]
         ELSE early'.best_step = early.best_step /\ early'.best_metric = early.best_metric
  <2>1. early = Uninterrupted[problem][step]
    BY DEF Inv, Exact
  <2>2. problem.loss[n] \in Nat /\ Updated(problem, early, n) = Uninterrupted[problem][n]
    BY <1>1, <1>2, <2>1, UpdatedIsNext
  <2> QED
    BY <1>1, <1>2, <1>3, <2>2, UpdatedIsTyped DEF Improved
<1>5. best.step = early.best_step /\ best.loss = early.best_metric /\ best # NoRef
  BY <1>1 DEF Inv, Exact
<1>6. /\ new \in Checkpoints /\ RefOf(new) = [run |-> runs, step |-> n, loss |-> problem.loss[n]]
      /\ new.early = early' /\ new.step = n
      /\ new.best = IF improved THEN NoRef ELSE best
  BY <1>1, <1>2, <1>3, <1>4 DEF NextCheckpoint, Checkpoint, Checkpoints, RefOf, NoRef, Ref
<1>7. /\ best' \in Ref /\ best'.step = early'.best_step /\ best'.loss = early'.best_metric
      /\ best' # NoRef
  BY <1>1, <1>3, <1>4, <1>5, <1>6, RefOfCheckpoint DEF NoRef
<1>8. RestoredBest(new) = best'
  <2>1. CASE improved
    BY <1>3, <1>6, <2>1 DEF RestoredBest
  <2>2. CASE ~improved
    BY <1>3, <1>5, <1>6, <2>2 DEF RestoredBest
  <2> QED
    BY <2>1, <2>2
<1>9. SaysTrue(problem, new)
  BY <1>4, <1>6, <1>7, <1>8 DEF SaysTrue
<1> HIDE DEF new, improved
<1> QED
  BY <1>1, <1>2, <1>3, <1>4, <1>6, <1>7, <1>8, <1>9 DEF new, improved

LEMMA TrainInv ==
    ASSUME Inv, Train
    PROVE  Inv'
<1> DEFINE new == NextCheckpoint
<1>1. Types'
  <2>1. candidates' \in Seq(Checkpoints)
    BY TrainFacts
  <2> QED
    BY <2>1, TrainFacts DEF Inv, Types, Train, MoreSteps
<1>2. Exact'
  <2>1. \A i \in 1 .. Len(candidates') : SaysTrue(problem, candidates'[i])
    <3>1. \A i \in 1 .. Len(candidates) : SaysTrue(problem, candidates[i])
      BY DEF Inv, Exact
    <3>2. /\ candidates \in Seq(Checkpoints) /\ new \in Checkpoints
          /\ candidates' = Append(candidates, new) /\ SaysTrue(problem, new)
      BY TrainFacts
    <3> HIDE DEF new
    <3> QED
      BY <3>1, <3>2
  <2>2. (\A i \in 1 .. Len(candidates) : SaysTrue(problem, candidates[i]))'
    BY <2>1, TrainFacts
  <2>3. (\A k \in kept : SaysTrue(problem, k))'
    BY TrainFacts DEF Inv, Exact
  <2>4. candidates' # <<>>
    BY TrainFacts
  <2> QED
    BY <2>2, <2>3, <2>4, TrainFacts DEF Exact
<1>3. Within'
  <2>1. Prior' = Prior
    BY TrainFacts DEF Prior
  <2> QED
    BY <2>1, TrainFacts, PriorIsStep DEF Inv, Within, BudgetKept, Train, MoreSteps
<1> QED
  BY <1>1, <1>2, <1>3 DEF Inv

LEMMA FailInv ==
    ASSUME Inv, Fail
    PROVE  Inv'
BY DEF Inv, Types, Exact, Within, BudgetKept, Prior, Fail, MoreSteps

LEMMA FinishInv ==
    ASSUME Inv, Finish
    PROVE  Inv'
<1> DEFINE refs == Retained(candidates, call, best)
           paid == Payloads(candidates, refs)
<1>1. /\ kept' = kept \cup paid /\ status' = "idle"
      /\ UNCHANGED <<problem, runs, call, origin, step, early, best, candidates>>
  BY DEF Finish
<1>2. \A k \in paid : \E i \in 1 .. Len(candidates) : k = candidates[i]
  BY DEF Payloads
<1>3. result'.exhausted \in Dimension \cup {"none", "max_samples"}
  <2>1. /\ call \in Request /\ Prior \in Nat /\ Prior <= call.requested
        /\ call.budget.rowsFit => Caps(call.budget) # {}
    BY PriorIsStep DEF Inv, Types, Within, Finish
  <2>2. Exhausted(call, Prior) \in Dimension \cup {"none", "max_samples"}
    BY <2>1, AllowedWithin
  <2> QED
    BY <2>2 DEF Finish
<1> HIDE DEF paid, refs
<1>4. Types'
  <2>1. paid \subseteq Checkpoints
    BY <1>2 DEF Inv, Types
  <2> QED
    BY <1>1, <1>3, <2>1 DEF Inv, Types
<1>5. Exact'
  <2>1. \A k \in paid : SaysTrue(problem, k)
    BY <1>2 DEF Inv, Exact
  <2>2. (\A k \in kept : SaysTrue(problem, k))'
    BY <1>1, <2>1 DEF Inv, Exact
  <2> QED
    BY <1>1, <2>2 DEF Inv, Exact
<1>6. Within'
  BY <1>1 DEF Inv, Within, BudgetKept, Prior
<1> QED
  BY <1>4, <1>5, <1>6 DEF Inv

LEMMA NextInv == Inv /\ [Next]_vars => Inv'
<1> SUFFICES ASSUME Inv, [Next]_vars PROVE Inv'
  OBVIOUS
<1>1. CASE UNCHANGED vars
  BY <1>1 DEF vars, Inv, Types, Exact, Within, BudgetKept, Prior
<1> QED
  BY <1>1, BeginInv, TrainInv, FailInv, FinishInv DEF Next

-----------------------------------------------------------------------------
(* What a call returns *)

\* A checkpoint refers to an earlier best, and none of its steps did better by more
\* than min_delta.
Past(p, k) ==
    /\ k.best = NoRef \/ k.best.step < k.step
    /\ \A n \in 0 .. k.step : p.loss[n] >= k.early.best_metric - p.min_delta

\* The checkpoints of a call are one step apart and end where the call stands.
InARow ==
    status # "idle" =>
        /\ step = Prior + Len(candidates) - 1
        /\ step <= Prior + Allowed(call, Prior)
        /\ \A i \in 1 .. Len(candidates) : candidates[i].step = Prior + i - 1

\* The best checkpoint is the one the last checkpoint names, and a checkpoint of this
\* call unless it is older than the call.
BestKnown ==
    status # "idle" =>
        /\ RestoredBest(candidates[Len(candidates)]) = best
        /\ best.step <= step
        /\ best.step >= Prior => \E i \in 1 .. Len(candidates) : RefOf(candidates[i]) = best
        /\ \A i \in 1 .. Len(candidates) :
               RefOf(candidates[i]) = best =>
                   RestoredBest(candidates[i]) = best \/ candidates[i] \in kept

\* With early stopping, whatever a payload refers to is a payload too.
BestHeld ==
    problem.enabled =>
        /\ status # "idle" => call.retention \in {"best_and_last", "all"}
        /\ \A k \in kept : \E q \in kept : RefOf(q) = RestoredBest(k)
        /\ status # "idle" =>
               \A i \in 1 .. Len(candidates) :
                   \/ \E q \in kept : RefOf(q) = RestoredBest(candidates[i])
                   \/ \E j \in 1 .. Len(candidates) : RefOf(candidates[j]) = RestoredBest(candidates[i])

\* No step that led to a state did better than its best metric by more than min_delta.
NoneBetter ==
    /\ \A k \in kept : Past(problem, k)
    /\ status # "idle" => \A i \in 1 .. Len(candidates) : Past(problem, candidates[i])
    /\ \A n \in 0 .. step : problem.loss[n] >= early.best_metric - problem.min_delta

\* The loop goes on until patience runs out or a step fails.
GoesOn ==
    status # "idle" =>
        /\ result = NoResult
        /\ \A n \in Prior + 1 .. step - 1 : ~ShouldStop(problem, Uninterrupted[problem][n])
        /\ status \in {"training", "failed"} /\ step # Prior => ~ShouldStop(problem, early)
        /\ status = "early_stopped" => ShouldStop(problem, early)
        /\ status = "failed" => call.inject = step + 1 \/ problem.loss[step + 1] = NonFinite

InvR == Inv /\ InARow /\ BestKnown /\ BestHeld /\ NoneBetter /\ GoesOn /\ ResultTruthful

\* The verdict of the plan explains every number of steps it allows.
LEMMA PlanExplained ==
    ASSUME NEW c \in Request, NEW prior \in Nat, prior <= c.requested,
           c.budget.rowsFit => Caps(c.budget) # {}
    PROVE  /\ Allowed(c, prior) # c.requested - prior =>
                 \/ Exhausted(c, prior) = "max_samples" /\ ~c.budget.rowsFit
                 \/ /\ Exhausted(c, prior) \in Caps(c.budget)
                    /\ c.budget[Exhausted(c, prior)] <= prior + Allowed(c, prior)
           /\ Allowed(c, prior) = c.requested - prior =>
                 Exhausted(c, prior) = "none" \/ prior = c.requested
<1> DEFINE b == c.budget
           T == Tightest(b, prior)
<1>1. c.requested \in Nat /\ b \in Budget
  BY Requests
<1>2. CASE ~b.rowsFit
  BY <1>1, <1>2 DEF Allowed, Exhausted
<1>3. CASE b.rowsFit
  <2>1. T \in Caps(b)
    BY <1>1, <1>3, TightestIsLeast
  <2>2. b[T] \in Nat
    BY <1>1, <2>1, CapsAreNumbers
  <2>3. Allowed(c, prior) = IF Room(b, T, prior) < c.requested - prior
                            THEN Room(b, T, prior) ELSE c.requested - prior
    BY <1>3 DEF Allowed
  <2>4. Exhausted(c, prior) = IF Allowed(c, prior) = c.requested - prior THEN "none" ELSE T
    BY <1>3 DEF Exhausted
  <2>5. Room(b, T, prior) = IF b[T] > prior THEN b[T] - prior ELSE 0
    BY DEF Room
  <2> HIDE DEF T
  <2> QED
    BY <1>1, <2>1, <2>2, <2>3, <2>4, <2>5
<1> QED
  BY <1>2, <1>3

\* A reference that was retained and is the best checkpoint is the one selected.
LEMMA BestIsSelected ==
    ASSUME NEW refs, NEW b, \E i \in 1 .. Len(refs) : refs[i] = b, refs # <<>>
    PROVE  Selected(refs, b) = b
BY DEF Selected

\* What each retention keeps of the checkpoints of a call.
LEMMA RetainedRefs ==
    ASSUME NEW cs \in Seq(Checkpoints), cs # <<>>, NEW c \in Request, NEW b
    PROVE  LET refs == Retained(cs, c, b)
               last == RefOf(cs[Len(cs)])
           IN  /\ c.retention # "none" => \E i \in 1 .. Len(refs) : refs[i] = last
               /\ c.retention = "all" =>
                      /\ Len(refs) = Len(cs) /\ refs # <<>>
                      /\ \A i \in 1 .. Len(cs) : refs[i] = RefOf(cs[i])
               /\ c.retention = "best_and_last" =>
                      /\ refs # <<>>
                      /\ \E i \in 1 .. Len(refs) : refs[i] = b
                      /\ \A i \in 1 .. Len(refs) : refs[i] = b \/ refs[i] = last
<1> DEFINE all == [i \in 1 .. Len(cs) |-> RefOf(cs[i])]
           refs == Retained(cs, c, b)
           last == RefOf(cs[Len(cs)])
           m == c.max_retained
<1>1. /\ Len(cs) \in Nat /\ Len(cs) > 0
      /\ all \in Seq(Ref) /\ Len(all) = Len(cs) /\ all[Len(cs)] = last
  BY RefOfCheckpoint
<1>2. c.retention \in Retention /\ m \in Nat /\ (c.retention = "last_n" => m > 0)
  BY ConstantsAssumption
<1>3. CASE c.retention = "all"
  BY <1>1, <1>3 DEF Retained
<1>4. CASE c.retention = "last"
  <2>1. refs = <<last>>
    BY <1>1, <1>4 DEF Retained
  <2> QED
    BY <1>4, <2>1
<1>5. CASE c.retention = "last_n"
  <2>1. refs = IF m < Len(all) THEN SubSeq(all, Len(all) - m + 1, Len(all)) ELSE all
    BY <1>5 DEF Retained
  <2> HIDE DEF all, refs, last, m
  <2>2. CASE m < Len(all)
    <3>1. Len(refs) = m /\ refs[m] = all[Len(all)]
      BY <1>1, <1>2, <1>5, <2>1, <2>2
    <3> QED
      BY <1>1, <1>2, <1>5, <3>1 DEF refs, last
  <2>3. CASE ~(m < Len(all))
    BY <1>1, <1>5, <2>1, <2>3 DEF refs, last
  <2> QED
    BY <2>2, <2>3
<1>6. CASE c.retention = "best_and_last"
  <2>1. refs = IF b = last THEN <<b>> ELSE <<b, last>>
    BY <1>1, <1>6 DEF Retained
  <2> QED
    BY <1>6, <2>1
<1> QED
  BY <1>2, <1>3, <1>4, <1>5, <1>6 DEF Retention

-----------------------------------------------------------------------------
(* The first checkpoint of a call *)

\* A call begins with a checkpoint of step 0, or with a payload its caller holds.
LEMMA BeginFacts ==
    ASSUME InvR, NEW c \in Request, Begin(c)
    PROVE  /\ candidates' = <<candidates'[1]>> /\ Len(candidates') = 1
           /\ best' = RestoredBest(candidates'[1])
           /\ step' = candidates'[1].step /\ Prior' = step' /\ step' \in Nat
           /\ problem' = problem /\ kept' = kept /\ call' = c
           /\ status' = "training" /\ result' = NoResult
           /\ problem.enabled => c.retention \in {"best_and_last", "all"}
           /\ early' = candidates'[1].early
           /\ Past(problem, candidates'[1])
           /\ candidates'[1] \in Checkpoints
           /\ \/ candidates'[1] \in kept
              \/ RestoredBest(candidates'[1]) = RefOf(candidates'[1])
<1> DEFINE first == candidates'[1]
           new == Checkpoint(runs + 1, 0, Fresh(problem), NoRef)
<1>1. /\ candidates' = <<first>> /\ best' = RestoredBest(first) /\ step' = first.step
      /\ problem' = problem /\ kept' = kept /\ call' = c
      /\ status' = "training" /\ result' = NoResult
  BY DEF Begin
<1>2. candidates' \in Seq(Checkpoints) /\ MaxStep \in Nat
  BY BeginInv, ConstantsAssumption DEF InvR, Inv, Types
<1>3. Len(candidates') = 1 /\ first \in Checkpoints
  <2>1. \A x : Len(<<x>>) = 1
    OBVIOUS
  <2>2. Len(candidates') = 1
    BY <1>1, <2>1
  <2> QED
    BY <1>2, <2>2
<1>4. first.step \in Nat
  BY <1>2, <1>3 DEF Checkpoints
<1>5. CASE Accepted(c, {}) /\ origin' = {} /\ early' = Fresh(problem)
  <2>1. first = new /\ Prior' = 0
    BY <1>5 DEF Begin, Prior
  <2>2. new.step = 0 /\ new.early = Fresh(problem) /\ new.best = NoRef
    BY DEF Checkpoint
  <2>3. problem.loss[0] \in Nat /\ problem.min_delta \in Nat
    BY FreshIsTyped, Problems DEF InvR, Inv, Types
  <2>4. Past(problem, new)
    BY <2>2, <2>3 DEF Past, Fresh
  <2>5. RestoredBest(new) = RefOf(new)
    BY <2>2 DEF RestoredBest
  <2>6. problem.enabled => c.retention \in {"best_and_last", "all"}
    BY <1>5 DEF Accepted
  <2> HIDE DEF first, new
  <2> QED
    BY <1>1, <1>3, <1>4, <1>5, <2>1, <2>2, <2>4, <2>5, <2>6 DEF first
<1>6. CASE \E k \in kept : Accepted(c, {k}) /\ origin' = {k} /\ early' = Restore(k)
  <2>1. PICK k \in kept : Accepted(c, {k}) /\ origin' = {k} /\ early' = Restore(k)
    BY <1>6
  <2>2. first = k /\ Prior' = k.step
    BY <2>1 DEF Begin, Prior
  <2>3. Past(problem, k) /\ early' = k.early
    BY <2>1 DEF InvR, NoneBetter, Restore
  <2>4. problem.enabled => c.retention \in {"best_and_last", "all"}
    BY <2>1 DEF Accepted
  <2> HIDE DEF first
  <2> QED
    BY <1>1, <1>3, <1>4, <2>1, <2>2, <2>3, <2>4 DEF first
<1> QED
  BY <1>5, <1>6 DEF Begin

\* How far the best checkpoint of a payload may be from it.
LEMMA RestoredBefore ==
    ASSUME NEW p, NEW k \in Checkpoints, Past(p, k)
    PROVE  /\ RestoredBest(k).step <= k.step
           /\ RestoredBest(k).step >= k.step => RestoredBest(k) = RefOf(k)
<1>1. k.step \in Nat /\ k.best \in Ref
  BY ConstantsAssumption DEF Checkpoints
<1>2. RefOf(k).step = k.step
  BY DEF RefOf
<1>3. k.best # NoRef => k.best.step < k.step /\ k.best.step \in Nat
  BY <1>1 DEF Past, Ref
<1> QED
  BY <1>1, <1>2, <1>3 DEF RestoredBest

LEMMA BeginResult ==
    ASSUME InvR, NEW c \in Request, Begin(c)
    PROVE  InvR'
<1> DEFINE first == candidates'[1]
<1>1. Inv'
  BY BeginInv DEF InvR
<1>2. InARow'
  <2>1. Prior' \in Nat /\ Prior' <= c.requested /\ (c.budget.rowsFit => Caps(c.budget) # {})
    BY <1>1, BeginFacts DEF Inv, Within
  <2>2. Allowed(c, Prior') \in Nat
    BY <2>1, AllowedWithin
  <2>3. Allowed(call, Prior)' = Allowed(c, Prior')
    BY BeginFacts
  <2>4. \A i \in 1 .. 1 : i = 1
    OBVIOUS
  <2>5. \A i \in 1 .. Len(candidates') : candidates'[i].step = Prior' + i - 1
    BY <2>1, <2>4, BeginFacts
  <2>6. step' = Prior' + Len(candidates') - 1 /\ step' <= Prior' + Allowed(c, Prior')
    <3>1. step' = Prior' /\ Len(candidates') = 1
      BY BeginFacts
    <3>2. ASSUME NEW p \in Nat, NEW a \in Nat
          PROVE  p = p + 1 - 1 /\ p <= p + a
      OBVIOUS
    <3> QED
      BY <2>1, <2>2, <3>1, <3>2
  <2> QED
    BY <2>3, <2>5, <2>6 DEF InARow
<1>3. BestKnown'
  <2>1. RestoredBest(first).step <= first.step
        /\ (RestoredBest(first).step >= first.step => RestoredBest(first) = RefOf(first))
    BY BeginFacts, RestoredBefore
  <2> QED
    BY <2>1, BeginFacts DEF BestKnown
<1>4. BestHeld'
  <2>1. ASSUME problem.enabled
        PROVE  \/ \E q \in kept : RefOf(q) = RestoredBest(first)
               \/ RefOf(first) = RestoredBest(first)
    BY <2>1, BeginFacts DEF InvR, BestHeld
  <2> HIDE DEF first
  <2>2. \A i \in 1 .. Len(candidates') : candidates'[i] = first
    BY BeginFacts DEF first
  <2>3. problem.enabled => \A k \in kept : \E q \in kept : RefOf(q) = RestoredBest(k)
    BY DEF InvR, BestHeld
  <2> QED
    BY <2>1, <2>2, <2>3, BeginFacts DEF BestHeld
<1>5. NoneBetter'
  <2>1. \A i \in 1 .. Len(candidates') : candidates'[i] = first
    BY BeginFacts
  <2>2. \A n \in 0 .. step' : problem.loss[n] >= early'.best_metric - problem.min_delta
    BY BeginFacts DEF Past
  <2>3. \A k \in kept : Past(problem, k)
    BY DEF InvR, NoneBetter
  <2> QED
    BY <2>1, <2>2, <2>3, BeginFacts DEF NoneBetter
<1>6. GoesOn'
  BY BeginFacts DEF GoesOn
<1>7. ResultTruthful'
  <2>1. (Returned)' = FALSE
    BY BeginFacts DEF Returned, NoResult
  <2>2. BestAndLastHeld'
    BY <1>4, <2>1 DEF BestAndLastHeld, BestHeld
  <2> QED
    BY <2>1, <2>2 DEF ResultTruthful, EndJustified, SelectedIsBest
<1> QED
  BY <1>1, <1>2, <1>3, <1>4, <1>5, <1>6, <1>7 DEF InvR

-----------------------------------------------------------------------------
(* One more step *)

\* A checkpoint is added to those of the call, and it is the only one of its step.
LEMMA TrainAppends ==
    ASSUME InvR, Train
    PROVE  /\ Len(candidates) \in Nat /\ Len(candidates) > 0
           /\ Len(candidates') = Len(candidates) + 1
           /\ \A i \in 1 .. Len(candidates) :
                  candidates'[i] = candidates[i] /\ candidates[i].step < step + 1
           /\ candidates'[Len(candidates) + 1] = NextCheckpoint
           /\ step \in Nat /\ Prior \in Nat /\ Prior' = Prior
<1>1. /\ candidates \in Seq(Checkpoints) /\ candidates # <<>>
      /\ candidates' = Append(candidates, NextCheckpoint)
      /\ step \in Nat /\ origin' = origin
  BY TrainFacts DEF InvR
<1>2. Prior \in Nat /\ Prior' = Prior
  BY <1>1, PriorIsStep DEF InvR, Prior
<1>3. Len(candidates) \in Nat /\ Len(candidates) > 0
  BY <1>1
<1>4. \A i \in 1 .. Len(candidates) : candidates[i].step = Prior + i - 1
      /\ step = Prior + Len(candidates) - 1
  BY DEF InvR, InARow, Train, MoreSteps
<1>5. \A i \in 1 .. Len(candidates) : candidates[i].step < step + 1
  BY <1>1, <1>2, <1>3, <1>4
<1>6. /\ Len(candidates') = Len(candidates) + 1
      /\ \A i \in 1 .. Len(candidates) : candidates'[i] = candidates[i]
      /\ candidates'[Len(candidates) + 1] = NextCheckpoint
  BY <1>1
<1> QED
  BY <1>1, <1>2, <1>3, <1>5, <1>6

LEMMA TrainResult ==
    ASSUME InvR, Train
    PROVE  InvR'
<1> DEFINE n == step + 1
           L == Len(candidates)
           new == NextCheckpoint
<1>0. /\ Inv /\ status = "training" /\ MoreSteps
      /\ L \in Nat /\ L > 0 /\ Len(candidates') = L + 1 /\ candidates'[L + 1] = new
      /\ step \in Nat /\ n \in Nat /\ step' = n /\ Prior \in Nat /\ Prior' = Prior
  BY TrainAppends, TrainFacts DEF InvR, Train, MoreSteps
<1>1. Inv'
  BY TrainInv DEF InvR
<1>2. InARow'
  <2>1. step = Prior + L - 1 /\ \A i \in 1 .. L : candidates[i].step = Prior + i - 1
    BY <1>0 DEF InvR, InARow
  <2>2. new.step = n /\ call' = call
    BY <1>0, TrainFacts
  <2>3. \A i \in 1 .. L + 1 : candidates'[i].step = Prior + i - 1
    <3> TAKE i \in 1 .. L + 1
    <3>1. CASE i \in 1 .. L
      BY <2>1, <3>1, TrainAppends
    <3>2. CASE i = L + 1
      BY <1>0, <2>1, <2>2, <3>2
    <3> QED
      BY <1>0, <3>1, <3>2
  <2>4. n <= Prior + Allowed(call, Prior)
    <3>1. Prior <= call.requested /\ call \in Request
          /\ (call.budget.rowsFit => Caps(call.budget) # {})
      BY <1>0 DEF Inv, Types, Within
    <3>2. Allowed(call, Prior) \in Nat
      BY <1>0, <3>1, AllowedWithin
    <3>3. step < Prior + Allowed(call, Prior)
      BY <1>0 DEF MoreSteps
    <3> QED
      BY <1>0, <3>2, <3>3
  <2>5. n = Prior + (L + 1) - 1
    BY <1>0, <2>1
  <2>6. Allowed(call, Prior)' = Allowed(call, Prior)
    BY <1>0, <2>2
  <2> QED
    BY <1>0, <2>3, <2>4, <2>5, <2>6 DEF InARow
<1>3. BestKnown'
  <2>1. /\ best.step <= step /\ best.step \in Nat
        /\ best.step >= Prior => \E i \in 1 .. L : RefOf(candidates[i]) = best
        /\ \A i \in 1 .. L : RefOf(candidates[i]) = best =>
               RestoredBest(candidates[i]) = best \/ candidates[i] \in kept
    BY <1>0 DEF InvR, BestKnown, Inv, Types, Ref
  <2>2. /\ RestoredBest(new) = best' /\ kept' = kept
        /\ best' = IF Improved THEN RefOf(new) ELSE best
        /\ new.step = n
    BY <1>0, TrainFacts
  <2>3. RefOf(new).step = n /\ \A i \in 1 .. L : RefOf(candidates[i]).step < n
    BY <2>2, TrainAppends DEF RefOf
  <2>4. best'.step <= n
    BY <1>0, <2>1, <2>2, <2>3
  <2>5. best'.step >= Prior => \E i \in 1 .. L + 1 : RefOf(candidates'[i]) = best'
    <3>1. CASE Improved
      BY <1>0, <2>2, <3>1
    <3>2. CASE ~Improved
      <4>1. \A i \in 1 .. L : candidates'[i] = candidates[i] /\ i \in 1 .. L + 1
        BY <1>0, TrainAppends
      <4> QED
        BY <2>1, <2>2, <3>2, <4>1
    <3> QED
      BY <3>1, <3>2
  <2>6. ASSUME NEW i \in 1 .. L + 1, RefOf(candidates'[i]) = best'
        PROVE  RestoredBest(candidates'[i]) = best' \/ candidates'[i] \in kept
    <3>1. CASE i = L + 1
      BY <1>0, <2>2, <3>1
    <3>2. CASE i \in 1 .. L /\ Improved
      <4>1. candidates'[i] = candidates[i] /\ RefOf(candidates[i]).step < n
        BY <2>3, <3>2, TrainAppends
      <4>2. RefOf(candidates[i]).step = n
        BY <2>2, <2>3, <2>6, <3>2, <4>1
      <4> QED
        BY <1>0, <4>1, <4>2
    <3>3. CASE i \in 1 .. L /\ ~Improved
      BY <2>1, <2>2, <2>6, <3>3, TrainAppends
    <3> QED
      BY <1>0, <3>1, <3>2, <3>3
  <2> QED
    BY <1>0, <2>2, <2>4, <2>5, <2>6 DEF BestKnown
<1>4. BestHeld'
  <2>1. problem' = problem /\ kept' = kept /\ call' = call
    BY TrainFacts DEF InvR
  <2>2. ASSUME problem.enabled, NEW i \in 1 .. L + 1
        PROVE  \/ \E q \in kept : RefOf(q) = RestoredBest(candidates'[i])
               \/ \E j \in 1 .. L + 1 : RefOf(candidates'[j]) = RestoredBest(candidates'[i])
    <3>1. \A k \in 1 .. L : candidates'[k] = candidates[k] /\ k \in 1 .. L + 1
      BY <1>0, TrainAppends
    <3>2. \A k \in 1 .. L : \/ \E q \in kept : RefOf(q) = RestoredBest(candidates[k])
                            \/ \E j \in 1 .. L : RefOf(candidates[j]) = RestoredBest(candidates[k])
      BY <1>0, <2>2 DEF InvR, BestHeld
    <3>3. CASE i \in 1 .. L
      BY <3>1, <3>2, <3>3
    <3>4. CASE i = L + 1 /\ Improved
      BY <1>0, <3>4, TrainFacts
    <3>5. CASE i = L + 1 /\ ~Improved
      <4>1. RestoredBest(candidates'[i]) = RestoredBest(candidates[L])
        BY <1>0, <3>5, TrainFacts DEF InvR, BestKnown
      <4>2. L \in 1 .. L
        BY <1>0
      <4> QED
        BY <3>1, <3>2, <4>1, <4>2
    <3> QED
      BY <1>0, <3>3, <3>4, <3>5
  <2> QED
    BY <1>0, <2>1, <2>2 DEF InvR, BestHeld
<1>5. NoneBetter'
  <2>1. /\ problem' = problem /\ kept' = kept /\ problem.loss[n] \in Nat /\ early \in EarlyState
        /\ new.early = early' /\ new.step = n
        /\ new.best = IF Improved THEN NoRef ELSE best
        /\ early'.best_metric = IF Improved THEN problem.loss[n] ELSE early.best_metric
        /\ problem.min_delta \in Nat
    BY TrainFacts, Problems DEF InvR, Inv, Types
  <2>2. ASSUME NEW m \in 0 .. n
        PROVE  problem.loss[m] >= early'.best_metric - problem.min_delta
    <3>1. early.best_metric \in Nat
      BY <2>1 DEF EarlyState
    <3>2. \A j \in 0 .. step : problem.loss[j] >= early.best_metric - problem.min_delta
      BY DEF InvR, NoneBetter
    <3>3. Improved <=> problem.loss[n] < early.best_metric - problem.min_delta
      BY DEF Improved, Improves
    <3>4. CASE m = n
      BY <2>1, <3>1, <3>3, <3>4
    <3>5. CASE m \in 0 .. step
      <4>1. problem.loss[m] \in Nat \/ problem.loss[m] = NonFinite
        <5>1. m \in 0 .. MaxStep
          BY <1>0, <3>5, ConstantsAssumption DEF Inv, Types
        <5>2. problem.loss \in Losses
          BY <1>0, Problems DEF Inv, Types
        <5> QED
          BY <5>1, <5>2 DEF Losses
      <4>2. problem.loss[m] \in Int
        BY <4>1 DEF NonFinite
      <4> QED
        BY <2>1, <3>1, <3>2, <3>3, <3>5, <4>2
    <3> QED
      BY <1>0, <3>4, <3>5
  <2>3. Past(problem, new)
    <3>1. Improved \/ best.step < n
      BY <1>0 DEF InvR, BestKnown, Inv, Types, Ref
    <3> QED
      BY <2>1, <2>2, <3>1 DEF Past
  <2>4. \A i \in 1 .. L + 1 : Past(problem, candidates'[i])
    <3> TAKE i \in 1 .. L + 1
    <3>1. CASE i = L + 1
      BY <1>0, <2>3, <3>1
    <3>2. CASE i \in 1 .. L
      BY <1>0, <3>2, TrainAppends DEF InvR, NoneBetter
    <3> QED
      BY <1>0, <3>1, <3>2
  <2> QED
    BY <1>0, <2>1, <2>2, <2>4 DEF InvR, NoneBetter
<1>6. GoesOn'
  <2>1. /\ result = NoResult /\ result' = result /\ problem' = problem
        /\ early = Uninterrupted[problem][step]
        /\ status' = IF ShouldStop(problem, early') THEN "early_stopped" ELSE "training"
    BY <1>0, TrainFacts DEF InvR, GoesOn, Inv, Exact, Train
  <2>2. ASSUME NEW m \in Prior + 1 .. n - 1
        PROVE  ~ShouldStop(problem, Uninterrupted[problem][m])
    <3>1. CASE m \in Prior + 1 .. step - 1
      BY <1>0, <3>1 DEF InvR, GoesOn
    <3>2. CASE m = step
      BY <1>0, <2>1, <3>2 DEF InvR, GoesOn
    <3> QED
      BY <1>0, <3>1, <3>2
  <2> QED
    BY <1>0, <2>1, <2>2 DEF GoesOn
<1>7. ResultTruthful'
  <2>1. result' = NoResult
    BY <1>0, TrainFacts DEF InvR, GoesOn
  <2>2. BestAndLastHeld'
    BY <1>4, <2>1 DEF BestAndLastHeld, BestHeld, Returned, NoResult
  <2> QED
    BY <2>1, <2>2 DEF ResultTruthful, EndJustified, SelectedIsBest, Returned, NoResult
<1> QED
  BY <1>1, <1>2, <1>3, <1>4, <1>5, <1>6, <1>7 DEF InvR

LEMMA FailResult ==
    ASSUME InvR, Fail
    PROVE  InvR'
<1>1. /\ status = "training" /\ status' = "failed" /\ Prior' = Prior
      /\ UNCHANGED <<problem, kept, runs, call, origin, step, early, best, candidates, result>>
      /\ call.inject = step + 1 \/ problem.loss[step + 1] = NonFinite
  BY DEF Fail, MoreSteps, Prior
<1>2. Inv'
  BY FailInv DEF InvR
<1>3. InARow' /\ BestKnown' /\ BestHeld'
  BY <1>1 DEF InvR, InARow, BestKnown, BestHeld
<1>4. NoneBetter'
  BY <1>1 DEF InvR, NoneBetter
<1>5. GoesOn' /\ ResultTruthful'
  BY <1>1 DEF InvR, GoesOn, ResultTruthful, EndJustified, BestAndLastHeld, SelectedIsBest,
         Returned
<1> QED
  BY <1>2, <1>3, <1>4, <1>5 DEF InvR

-----------------------------------------------------------------------------
(* The end of a call *)

\* The reason a call gives for its end.
LEMMA FinishEnds ==
    ASSUME InvR, Finish
    PROVE  EndJustified'
<1> DEFINE short == status = "training" /\ step < call.requested
           own == result'.status \in {"completed", "budget_exhausted"}
           room == Allowed(call, Prior)
<1>1. /\ Inv /\ status \in {"training", "failed", "early_stopped"} /\ ~MoreSteps
      /\ Prior' = Prior /\ UNCHANGED <<problem, call, step, early>>
      /\ result'.status = IF status # "training" THEN status
                          ELSE IF short THEN "budget_exhausted" ELSE "completed"
      /\ result'.exhausted = IF short THEN Exhausted(call, Prior) ELSE "none"
  BY DEF InvR, Inv, Types, Finish, Prior
<1>2. /\ call \in Request /\ Prior \in Nat /\ step \in Nat /\ Prior <= step
      /\ Prior <= call.requested /\ call.requested \in Nat
      /\ call.budget.rowsFit => Caps(call.budget) # {}
  BY <1>1, PriorIsStep, Requests, ConstantsAssumption DEF Inv, Types, Within
<1>3. room \in Nat /\ Prior + room <= call.requested
      /\ step <= Prior + room
  BY <1>1, <1>2, AllowedWithin DEF InvR, InARow
<1>4. status = "training" => step = Prior + room
  BY <1>1, <1>2, <1>3 DEF MoreSteps
<1>5. /\ room # call.requested - Prior =>
            \/ Exhausted(call, Prior) = "max_samples" /\ ~call.budget.rowsFit
            \/ /\ Exhausted(call, Prior) \in Caps(call.budget)
               /\ call.budget[Exhausted(call, Prior)] <= Prior + room
      /\ room = call.requested - Prior =>
            Exhausted(call, Prior) = "none" \/ Prior = call.requested
  BY <1>2, PlanExplained
<1> HIDE DEF room
<1>6. result'.status = "completed" => step = call.requested
  BY <1>1, <1>2, <1>3, <1>4
<1>7. result'.status = "budget_exhausted" =>
         /\ step < call.requested
         /\ \/ result'.exhausted = "max_samples" /\ ~call.budget.rowsFit
            \/ /\ result'.exhausted \in Caps(call.budget)
               /\ call.budget[result'.exhausted] <= step
  BY <1>1, <1>2, <1>3, <1>4, <1>5
<1>8. /\ result'.status = "failed" =>
            call.inject = step + 1 \/ problem.loss[step + 1] = NonFinite
      /\ result'.status = "early_stopped" => ShouldStop(problem, Uninterrupted[problem][step])
      /\ \A n \in Prior + 1 .. step - 1 : ~ShouldStop(problem, Uninterrupted[problem][n])
  BY <1>1 DEF InvR, GoesOn, Inv, Exact
<1>9. own => result'.status = Forecast(call, Prior) \/ Prior = call.requested
  <2>1. Exhausted(call, Prior) = "none" => room = call.requested - Prior
    <3>1. "none" \notin Caps(call.budget)
      BY DEF Caps, Dimension
    <3> QED
      BY <1>5, <3>1
  <2>2. CASE short
    <3>1. room # call.requested - Prior
      BY <1>2, <1>3, <1>4, <2>2
    <3> QED
      BY <1>1, <2>1, <2>2, <3>1 DEF Forecast
  <2>3. CASE status = "training" /\ ~short
    <3>1. room = call.requested - Prior
      BY <1>2, <1>3, <1>4, <2>3
    <3> QED
      BY <1>1, <1>5, <2>3, <3>1 DEF Forecast
  <2>4. CASE status # "training"
    BY <1>1, <2>4
  <2> QED
    BY <2>2, <2>3, <2>4
<1>10. Forecast(call, Prior)' = Forecast(call, Prior)
  BY <1>1 DEF Forecast, Exhausted
<1> QED
  BY <1>1, <1>6, <1>7, <1>8, <1>9, <1>10 DEF EndJustified

\* What a call leaves its caller with.
LEMMA FinishHolds ==
    ASSUME InvR, Finish
    PROVE  BestAndLastHeld' /\ BestHeld'
<1> DEFINE L == Len(candidates)
           refs == Retained(candidates, call, best)
           last == RefOf(candidates[L])
           paid == Payloads(candidates, refs)
<1>1. /\ Inv /\ status # "idle" /\ status' = "idle" /\ kept' = kept \cup paid
      /\ UNCHANGED <<problem, call, step, best, candidates>>
  BY DEF InvR, Finish
<1>2. candidates \in Seq(Checkpoints) /\ candidates # <<>> /\ call \in Request
  BY <1>1 DEF Inv, Types, Exact
<1>3. L \in Nat /\ L > 0 /\ L \in 1 .. L
  BY <1>2
<1>4. /\ call.retention # "none" => \E i \in 1 .. Len(refs) : refs[i] = last
      /\ call.retention = "all" => /\ Len(refs) = L
                                  /\ \A i \in 1 .. L : refs[i] = RefOf(candidates[i])
      /\ call.retention = "best_and_last" =>
             /\ \E i \in 1 .. Len(refs) : refs[i] = best
             /\ \A i \in 1 .. Len(refs) : refs[i] = best \/ refs[i] = last
  BY <1>2, RetainedRefs
<1>5. \A i \in 1 .. L : candidates[i] \in paid <=> \E k \in 1 .. Len(refs) : refs[k] = RefOf(candidates[i])
  BY DEF Payloads
<1>6. \A q \in paid : \E i \in 1 .. L : q = candidates[i]
  BY DEF Payloads
<1>7. /\ candidates[L].step = step /\ RestoredBest(candidates[L]) = best
      /\ \A i \in 1 .. L : candidates[i].step = step => i = L
  <2>1. Prior \in Nat /\ step = Prior + L - 1
        /\ \A i \in 1 .. L : candidates[i].step = Prior + i - 1
    BY <1>1, PriorIsStep DEF InvR, InARow
  <2> QED
    BY <1>1, <1>3, <2>1 DEF InvR, BestKnown
<1> HIDE DEF paid, refs
<1>8. call.retention # "none" => \E k \in kept' : k.step = step
  BY <1>1, <1>3, <1>4, <1>5, <1>7
<1>9. ASSUME problem.enabled, NEW k \in kept'
      PROVE  \E q \in kept' : RefOf(q) = RestoredBest(k)
  <2>1. call.retention \in {"best_and_last", "all"}
    BY <1>1, <1>9 DEF InvR, BestHeld
  <2>2. \A i \in 1 .. L : \/ \E q \in kept : RefOf(q) = RestoredBest(candidates[i])
                          \/ \E j \in 1 .. L : RefOf(candidates[j]) = RestoredBest(candidates[i])
    BY <1>1, <1>9 DEF InvR, BestHeld
  <2>3. CASE k \in kept
    BY <1>1, <1>9, <2>3 DEF InvR, BestHeld
  <2>4. CASE k \in paid /\ call.retention = "all"
    <3>1. \A i \in 1 .. L : candidates[i] \in paid
      BY <1>4, <1>5, <2>4
    <3>2. PICK i \in 1 .. L : k = candidates[i]
      BY <1>6, <2>4
    <3> QED
      BY <1>1, <2>2, <3>1, <3>2
  <2>5. CASE k \in paid /\ k \notin kept /\ call.retention = "best_and_last"
    <3>1. PICK i \in 1 .. L : k = candidates[i]
      BY <1>6, <2>5
    <3>2. RefOf(k) = best \/ RefOf(k) = last
      BY <1>4, <1>5, <2>5, <3>1
    <3>3. RestoredBest(k) = best
      <4>1. CASE RefOf(k) = best
        BY <1>1, <2>5, <3>1, <4>1 DEF InvR, BestKnown
      <4>2. CASE RefOf(k) = last
        <5>1. candidates[i].step = step
          BY <1>7, <3>1, <4>2 DEF RefOf
        <5> QED
          BY <1>7, <3>1, <5>1
      <4> QED
        BY <3>2, <4>1, <4>2
    <3>4. \A j \in 1 .. L : RefOf(candidates[j]) = best => candidates[j] \in paid
      BY <1>4, <1>5, <2>5
    <3> QED
      BY <1>1, <2>2, <3>1, <3>3, <3>4
  <2> QED
    BY <1>1, <2>1, <2>3, <2>4, <2>5
<1>10. BestHeld'
  BY <1>1, <1>9 DEF BestHeld
<1> QED
  BY <1>1, <1>8, <1>9, <1>10 DEF BestAndLastHeld

\* What a call selects.
LEMMA FinishSelects ==
    ASSUME InvR, Finish
    PROVE  SelectedIsBest'
<1> DEFINE L == Len(candidates)
           refs == Retained(candidates, call, best)
<1>1. /\ Inv /\ status # "idle" /\ Prior' = Prior /\ result'.selected = Selected(refs, best)
      /\ UNCHANGED <<problem, call, step, early, best, candidates>>
  BY DEF InvR, Finish, Prior
<1>2. candidates \in Seq(Checkpoints) /\ candidates # <<>> /\ call \in Request
      /\ best.loss = early.best_metric
  BY <1>1 DEF Inv, Types, Exact
<1>3. /\ call.retention = "all" => /\ Len(refs) = L /\ refs # <<>>
                                  /\ \A i \in 1 .. L : refs[i] = RefOf(candidates[i])
      /\ call.retention = "best_and_last" =>
             refs # <<>> /\ \E i \in 1 .. Len(refs) : refs[i] = best
  BY <1>2, RetainedRefs
<1>4. best.step >= Prior => \E i \in 1 .. L : RefOf(candidates[i]) = best
  BY <1>1 DEF InvR, BestKnown
<1> HIDE DEF refs
<1>5. ASSUME \/ call.retention = "best_and_last"
             \/ call.retention = "all" /\ best.step >= Prior
      PROVE  Selected(refs, best) = best
  <2>1. refs # <<>> /\ \E i \in 1 .. Len(refs) : refs[i] = best
    BY <1>3, <1>4, <1>5
  <2> QED
    BY <2>1, BestIsSelected
<1>6. \A n \in 0 .. step : problem.loss[n] >= best.loss - problem.min_delta
  BY <1>2 DEF InvR, NoneBetter
<1> QED
  BY <1>1, <1>5, <1>6 DEF SelectedIsBest

LEMMA FinishResult ==
    ASSUME InvR, Finish
    PROVE  InvR'
<1>1. Inv'
  BY FinishInv DEF InvR
<1>2. status' = "idle"
  BY DEF Finish
<1>3. InARow' /\ BestKnown' /\ GoesOn'
  BY <1>2 DEF InARow, BestKnown, GoesOn
<1>4. NoneBetter'
  <2>1. /\ kept' = kept \cup Payloads(candidates, Retained(candidates, call, best))
        /\ UNCHANGED <<problem, step, early>> /\ status # "idle"
    BY DEF Finish
  <2>2. \A k \in Payloads(candidates, Retained(candidates, call, best)) :
           \E i \in 1 .. Len(candidates) : k = candidates[i]
    BY DEF Payloads
  <2>3. \A k \in kept' : Past(problem, k)
    BY <2>1, <2>2 DEF InvR, NoneBetter
  <2> QED
    BY <1>2, <2>1, <2>3 DEF InvR, NoneBetter
<1>5. ResultTruthful' /\ BestHeld'
  BY FinishEnds, FinishHolds, FinishSelects DEF ResultTruthful
<1> QED
  BY <1>1, <1>3, <1>4, <1>5 DEF InvR

-----------------------------------------------------------------------------

LEMMA InitResult == Init => InvR
<1> SUFFICES ASSUME Init PROVE InvR
  OBVIOUS
<1>1. Inv
  BY InitInv
<1>2. InARow /\ BestKnown /\ BestHeld /\ GoesOn
  BY DEF Init, InARow, BestKnown, BestHeld, GoesOn
<1>3. NoneBetter
  <2>1. problem.loss[0] \in Nat /\ problem.min_delta \in Nat
    BY <1>1, FreshIsTyped, Problems DEF Inv, Types
  <2> QED
    BY <2>1 DEF Init, NoneBetter, Fresh
<1>4. ResultTruthful
  BY DEF Init, ResultTruthful, EndJustified, BestAndLastHeld, SelectedIsBest, Returned, NoResult
<1> QED
  BY <1>1, <1>2, <1>3, <1>4 DEF InvR

LEMMA NextResult == InvR /\ [Next]_vars => InvR'
<1> SUFFICES ASSUME InvR, [Next]_vars PROVE InvR'
  OBVIOUS
<1>1. CASE UNCHANGED vars
  <2> USE <1>1 DEF vars
  <2>1. Inv' /\ Prior' = Prior
    BY NextInv DEF InvR, Prior
  <2>2. InARow' /\ BestKnown' /\ BestHeld' /\ NoneBetter'
    BY <2>1 DEF InvR, InARow, BestKnown, BestHeld, NoneBetter
  <2>3. GoesOn' /\ ResultTruthful'
    BY <2>1 DEF InvR, GoesOn, ResultTruthful, EndJustified, BestAndLastHeld, SelectedIsBest,
           Returned
  <2> QED
    BY <2>1, <2>2, <2>3 DEF InvR
<1> QED
  BY <1>1, BeginResult, TrainResult, FailResult, FinishResult DEF Next

-----------------------------------------------------------------------------
(* The theorems *)

LEMMA Invariance == Spec => []Inv
BY InitInv, NextInv, PTL DEF Spec

\* The variables keep their types, and no call resumes what its caller does not hold.
THEOREM RunTyped == Spec => []TypeOK
<1>1. Inv => TypeOK
  BY DEF Inv, Types, TypeOK, Checkpoints
<1> QED
  BY <1>1, Invariance, PTL

\* However a problem is cut into calls, the early stopping state is that of one
\* uninterrupted run, in the call and in every checkpoint it leaves.
THEOREM ResumptionIsExact == Spec => []ResumesExactly
<1>1. Inv => ResumesExactly
  BY DEF Inv, Exact, SaysTrue, ResumesExactly
<1> QED
  BY <1>1, Invariance, PTL

\* Over all calls that lead to a state, no cap is exceeded.
THEOREM BudgetIsCumulative == Spec => []BudgetKept
<1>1. Inv => BudgetKept
  BY DEF Inv, Within
<1> QED
  BY <1>1, Invariance, PTL

\* What a call returns is what happened, for every curve of losses, budget, retention and
\* chain of resumed calls: the reason it ended, the payloads it left with its caller and
\* the checkpoint it selects (run_fixture, _retain_checkpoints, _build_result_v2).
THEOREM ResultsAreTruthful == Spec => []ResultTruthful
<1>1. InvR => ResultTruthful
  BY DEF InvR
<1> QED
  BY <1>1, InitResult, NextResult, PTL DEF Spec
=============================================================================
