---------------------- MODULE CollaborationWindowProofs ----------------------
(* What holds of a collaboration window for every plan, worker and adapter. *)
EXTENDS CollaborationWindow, WellFoundedInduction, TLAPS

Made == {s \in Slot : outcomes[s].made}

Attempt == [made : {TRUE}, result : Contained, trace : Trace, spend : 0 .. MaxSpend]

\* The attempt and the observation at hand have the shape their phase gives them.
InHand ==
    /\ attempt = NotAsked \/ attempt \in Attempt
    /\ phase = "collect" => attempt \in Attempt
    /\ phase \in {"plan", "dispatch"} => attempt = NotAsked
    /\ phase = "validate" =>
           /\ {"spend", "failure", "clean"} \subseteq DOMAIN seen
           /\ seen.spend \in Nat /\ seen.failure \in Failure /\ seen.clean \in BOOLEAN

\* Tickets are answered in order, and only the last answer is a failure.
InOrder ==
    /\ \A s \in Slot : ~outcomes[s].made => outcomes[s] = Blank
    /\ phase = "plan" => Made = {} /\ slot = 1
    /\ phase \in {"plan", "dispatch", "collect", "validate"} =>
           Made = 1 .. (slot - 1) /\ blockers = {} /\ \A s \in Slot : ~Failed(s)
    /\ WindowAccountedFor

\* The plan was checked before the first ticket, and each success stayed in its share.
InBudget ==
    /\ phase \in {"dispatch", "collect", "validate", "returned"} \/ Made # {} => Fits(plan)
    /\ \A s \in Made : ~Failed(s) => outcomes[s].spend <= plan.base[s] + plan.reserve[s]

\* Only the worker at hand can have left something, and what it left is a failure.
InTheWorld ==
    /\ phase \in {"plan", "dispatch"} => workspaces = {} /\ survivors = {}
    /\ phase = "collect" =>
           /\ workspaces = {slot}
           /\ survivors = IF TreeVerified(attempt.result) THEN {} ELSE {slot}
    /\ phase = "validate" =>
           /\ workspaces = IF seen.clean THEN {} ELSE {slot}
           /\ survivors = IF attempt.made /\ ~TreeVerified(attempt.result) THEN {slot} ELSE {}
           /\ seen.failure = NoFailure => workspaces = {} /\ survivors = {}
    /\ LeftoversReported
    /\ \A s \in Slot : outcomes[s].real => ~Failed(s)

IInv == TypeOK /\ InHand /\ InOrder /\ InBudget /\ InTheWorld

-----------------------------------------------------------------------------
(* The first failure *)

\* A nonempty set of test numbers has a least one.
LEMMA LeastTest ==
    ASSUME NEW S \in SUBSET (1 .. 11), S # {}
    PROVE  Min(S) \in S
<1>1. PICK i \in S : \A j \in S : ~(<<j, i>> \in OpToRel(<, Nat))
  <2>1. S \subseteq Nat
    OBVIOUS
  <2> QED
    BY <2>1, NatLessThanWellFounded, WFMin
<1>2. \A j \in S : i <= j
  <2> TAKE j \in S
  <2>1. i \in Nat /\ j \in Nat
    OBVIOUS
  <2>2. ~(<<j, i>> \in OpToRel(<, Nat))
    BY <1>1
  <2>3. ~(j < i)
    BY <2>1, <2>2, SMT DEF OpToRel
  <2> QED
    BY <2>1, <2>3
<1> QED
  BY <1>2 DEF Min

\* Every test names a failure.
LEMMA TestsNameFailures ==
    ASSUME NEW a \in Attempt, NEW read \in Unread \cup {"ok"},
           NEW output, output.status \in Status, NEW i \in 1 .. 11
    PROVE  /\ Tests(a, read, output)[i].as \in Failure
           /\ Tests(a, read, output)[i].as # NoFailure
<1>1. a.result \in Contained /\ a.trace \in Trace
  BY DEF Attempt
<1>2. a.result.cause \in Code /\ a.result.execution \in Execution
  BY <1>1 DEF Contained, Ended, Code, Execution
<1>3. a.trace \in Code /\ a.result.execution \in Code /\ output.status \in Code
  BY <1>1, <1>2 DEF Code
<1>4. Tests(a, read, output)[i].as # NoFailure
  BY DEF Tests, NoFailure
<1>5. /\ a.result.cause \in Code /\ a.result.execution \in Code /\ a.trace \in Code
      /\ read \in Code /\ output.status \in Code
      /\ "launcher_exit_nonzero" \in Code /\ "cleanup_failed" \in Code
      /\ "output_missing_or_oversized" \in Code /\ "invalid_structured_output" \in Code
      /\ "ticket_binding_mismatch" \in Code /\ "restricted_output" \in Code
  BY <1>2, <1>3 DEF Code, Execution, Trace, Unread
<1>6. Tests(a, read, output)[i].as \in Failure
  BY <1>5 DEF Tests, Failure, Stage
<1> QED
  BY <1>4, <1>6

\* Without a first failure no test failed.
LEMMA NoFailureMeansNone ==
    ASSUME NEW a \in Attempt, NEW read \in Unread \cup {"ok"},
           NEW output, output.status \in Status
    PROVE  /\ FirstFailure(a, read, output) \in Failure
           /\ FirstFailure(a, read, output) = NoFailure =>
                  \A i \in 1 .. 11 : ~Tests(a, read, output)[i].fails
<1> DEFINE failing == {i \in DOMAIN Tests(a, read, output) : Tests(a, read, output)[i].fails}
<1>1. DOMAIN Tests(a, read, output) = 1 .. 11
  BY DEF Tests
<1>2. CASE failing = {}
  BY <1>1, <1>2 DEF FirstFailure, NoFailure, Failure, Stage, Code
<1>3. CASE failing # {}
  <2>1. Min(failing) \in 1 .. 11
    BY <1>1, <1>3, LeastTest
  <2>2. FirstFailure(a, read, output) = Tests(a, read, output)[Min(failing)].as
    BY <1>3 DEF FirstFailure
  <2> QED
    BY <2>1, <2>2, TestsNameFailures
<1> QED
  BY <1>2, <1>3

\* An observation without a failure comes of a clean workspace and a dead process tree.
LEMMA ObservedFacts ==
    ASSUME NEW a \in Attempt, NEW final \in FinalOutput, NEW clean \in BOOLEAN
    PROVE  LET o == Observed(a, final.read, final.output, clean)
           IN  /\ {"spend", "failure", "clean"} \subseteq DOMAIN o
               /\ o.spend \in Nat /\ o.failure \in Failure /\ o.clean = clean
               /\ o.failure = NoFailure => clean /\ TreeVerified(a.result)
<1> DEFINE failure == FirstFailure(a, final.read, final.output)
<1>1. final.read \in Unread \cup {"ok"} /\ final.output.status \in Status
  BY WindowAssumption DEF FinalOutput, NoOutput, Status
<1>2. failure \in Failure
  BY <1>1, NoFailureMeansNone
<1>3. failure = NoFailure => ~Tests(a, final.read, final.output)[4].fails
  BY <1>1, NoFailureMeansNone
<1>4. failure = NoFailure => TreeVerified(a.result)
  BY <1>3 DEF Tests
<1>5. <<"workspace_cleanup", "workspace_cleanup_failed">> \in Failure \ {NoFailure}
  BY DEF Failure, Stage, Code, NoFailure
<1>6. a.spend \in Nat
  BY WindowAssumption DEF Attempt
<1> QED
  BY <1>2, <1>4, <1>5, <1>6 DEF Observed

-----------------------------------------------------------------------------
(* The invariant *)

LEMMA Initially == Init => IInv
<1> SUFFICES ASSUME Init PROVE IInv
  OBVIOUS
<1>1. TypeOK
  BY DEF Init, TypeOK, Slot, Outcome, Blank, Failure, Stage, Code, NoFailure
<1>2. Made = {} /\ \A s \in Slot : ~Failed(s) /\ ~outcomes[s].real
  BY DEF Init, Made, Failed, Blank
<1>3. InHand
  BY DEF Init, InHand
<1>4. InOrder
  BY <1>2 DEF Init, InOrder, WindowAccountedFor, Slot
<1>5. InBudget
  BY <1>2 DEF Init, InBudget
<1>6. InTheWorld
  BY <1>2 DEF Init, InTheWorld, LeftoversReported
<1> QED
  BY <1>1, <1>3, <1>4, <1>5, <1>6 DEF IInv

\* Steps that answer no ticket leave what was recorded alone.
LEMMA NothingRecorded ==
    ASSUME IInv, UNCHANGED <<plan, slot, recordVars>>,
           \/ phase = "plan" /\ phase' = "dispatch" /\ Fits(plan)
           \/ phase \in {"dispatch", "collect"} /\ phase' \in {"collect", "validate"}
           \/ phase # "returned" /\ phase' = "raised"
           \/ phase' = phase
    PROVE  InOrder' /\ InBudget'
<1> USE DEF recordVars, IInv
<1>1. Made' = Made /\ (\A s \in Slot : Failed(s)' = Failed(s))
  BY DEF Made, Failed
<1>2. InOrder'
  BY <1>1 DEF InOrder, WindowAccountedFor, Made, Failed
<1>3. InBudget'
  BY <1>1 DEF InBudget, Made, Failed, Fits
<1> QED
  BY <1>2, <1>3

LEMMA PlanStep ==
    ASSUME IInv, BuildPlan
    PROVE  IInv'
<1> USE DEF IInv, BuildPlan, recordVars, worldVars
<1>1. InOrder' /\ InBudget'
  BY NothingRecorded
<1>2. TypeOK'
  BY DEF TypeOK
<1>3. InHand'
  BY DEF InHand, InOrder
<1>4. InTheWorld'
  BY DEF InTheWorld, LeftoversReported, Failed, InOrder, Made
<1> QED
  BY <1>1, <1>2, <1>3, <1>4

LEMMA ReciteStep ==
    ASSUME IInv, Recite
    PROVE  IInv'
<1> USE DEF IInv, Recite, recordVars, worldVars
<1>1. InOrder' /\ InBudget'
  BY NothingRecorded
<1>2. TypeOK'
  BY DEF TypeOK
<1>3. /\ {"spend", "failure", "clean"} \subseteq DOMAIN seen'
      /\ seen'.spend \in Nat /\ seen'.failure \in Failure /\ seen'.clean = TRUE
  BY WindowAssumption
<1>4. InHand'
  BY <1>3 DEF InHand
<1>5. InTheWorld'
  BY <1>3 DEF InTheWorld, LeftoversReported, Failed, InHand, NotAsked
<1> QED
  BY <1>1, <1>2, <1>4, <1>5

LEMMA LauncherStep ==
    ASSUME IInv, RunLauncher
    PROVE  IInv'
<1> USE DEF IInv, RunLauncher, recordVars, worldVars
<1>1. InOrder' /\ InBudget'
  BY NothingRecorded
<1>2. TypeOK'
  BY DEF TypeOK
<1>3. attempt' \in Attempt
  BY DEF Attempt
<1>4. InHand'
  <2>1. phase' = "collect"
    OBVIOUS
  <2> HIDE DEF RunLauncher
  <2> QED
    BY <1>3, <2>1 DEF InHand
<1>5. InTheWorld'
  <2>1. /\ phase' = "collect" /\ outcomes' = outcomes
        /\ workspaces' = {slot} /\ slot' = slot
        /\ survivors' = IF TreeVerified(attempt'.result) THEN {} ELSE {slot}
    BY DEF InTheWorld
  <2> HIDE DEF RunLauncher
  <2> QED
    BY <2>1 DEF InTheWorld, LeftoversReported, Failed, TreeVerified
<1> QED
  BY <1>1, <1>2, <1>4, <1>5

LEMMA CollectStep ==
    ASSUME IInv, CollectOutput
    PROVE  IInv'
<1> USE DEF IInv, recordVars
<1>1. InOrder' /\ InBudget'
  BY NothingRecorded DEF CollectOutput
<1>2. TypeOK'
  BY DEF TypeOK, CollectOutput
<1>3. PICK final \in FinalOutput, clean \in BOOLEAN :
          /\ seen' = Observed(attempt, final.read, final.output, clean)
          /\ workspaces' = IF clean THEN workspaces \ {slot} ELSE workspaces
  BY DEF CollectOutput
<1>4. attempt \in Attempt
  BY DEF InHand, CollectOutput
<1>5. /\ {"spend", "failure", "clean"} \subseteq DOMAIN seen'
      /\ seen'.spend \in Nat /\ seen'.failure \in Failure /\ seen'.clean = clean
      /\ seen'.failure = NoFailure => clean /\ TreeVerified(attempt.result)
  BY <1>3, <1>4, ObservedFacts
<1>6. InHand'
  BY <1>5 DEF InHand, CollectOutput
<1>7. InTheWorld'
  BY <1>3, <1>4, <1>5 DEF InTheWorld, LeftoversReported, Failed, CollectOutput, Attempt
<1> QED
  BY <1>1, <1>2, <1>6, <1>7

LEMMA RaiseSteps ==
    ASSUME IInv, AdapterRaises \/ RaiseInvalid
    PROVE  IInv'
<1> USE DEF IInv, AdapterRaises, RaiseInvalid, recordVars, worldVars
<1>1. InOrder' /\ InBudget'
  BY NothingRecorded
<1>2. TypeOK'
  BY DEF TypeOK
<1>3. InHand'
  BY DEF InHand
<1>4. InTheWorld'
  <2>1. phase' = "raised" /\ outcomes' = outcomes
    OBVIOUS
  <2> HIDE DEF AdapterRaises, RaiseInvalid
  <2> QED
    BY <2>1 DEF InTheWorld, LeftoversReported, Failed
<1> QED
  BY <1>1, <1>2, <1>3, <1>4

LEMMA StutterStep ==
    ASSUME IInv, UNCHANGED vars
    PROVE  IInv'
  BY DEF IInv, vars, TypeOK, InHand, InOrder, InBudget, InTheWorld, LeftoversReported,
         WindowAccountedFor, Made, Failed, Fits

\* The answer to a ticket, whatever it says.
LEMMA Answered ==
    ASSUME IInv, phase = "validate", NEW o, Deliver(o),
           o.failure \in Failure, o.spend \in Nat, o.clean = seen.clean, o.clean \in BOOLEAN,
           o.failure = NoFailure => /\ seen.failure = NoFailure
                                    /\ o.spend <= plan.base[slot] + plan.reserve[slot]
    PROVE  IInv'
<1> DEFINE answer == OutcomeOf(o, attempt)
           last == o.failure # NoFailure \/ slot = 3
<1> USE DEF IInv
<1>1. /\ outcomes' = [outcomes EXCEPT ![slot] = answer]
      /\ blockers' = IF o.failure = NoFailure THEN blockers ELSE blockers \cup {slot}
      /\ phase' = IF last THEN "returned" ELSE "dispatch"
      /\ slot' = IF last THEN slot ELSE slot + 1
      /\ attempt' = IF last THEN attempt ELSE NotAsked
      /\ plan' = plan /\ workspaces' = workspaces /\ survivors' = survivors
  BY DEF Deliver, worldVars
<1>2. /\ answer \in Outcome /\ answer.made
      /\ answer.failure = o.failure /\ answer.spend = o.spend /\ answer.clean = o.clean
      /\ answer.real => o.failure = NoFailure
      /\ attempt.made => answer.tree = TreeVerified(attempt.result)
  BY DEF OutcomeOf, Outcome, RealRun, TreeVerified, InHand, NotAsked, Attempt
<1> HIDE DEF answer
<1>3. slot \in Slot /\ outcomes \in [Slot -> Outcome]
  BY DEF TypeOK
<1>4. /\ outcomes'[slot] = answer
      /\ \A s \in Slot \ {slot} : outcomes'[s] = outcomes[s]
  BY <1>1, <1>3
<1>5. Made = 1 .. (slot - 1) /\ Made' = 1 .. slot
  <2>1. Made = 1 .. (slot - 1)
    BY DEF InOrder
  <2>2. Made' = Made \cup {slot}
    BY <1>2, <1>3, <1>4 DEF Made
  <2> QED
    BY <1>3, <2>1, <2>2 DEF Slot
<1>6. /\ \A s \in Slot \ {slot} : ~Failed(s)'
      /\ Failed(slot) \in BOOLEAN
      /\ outcomes'[slot].failure # NoFailure <=> o.failure # NoFailure
  BY <1>2, <1>4 DEF Failed, InOrder
<1>7. TypeOK'
  <2>1. outcomes' \in [Slot -> Outcome]
    BY <1>1, <1>2, <1>3
  <2>2. slot' \in Slot /\ blockers' \subseteq Slot
    BY <1>1, <1>3 DEF TypeOK, Slot
  <2> QED
    BY <1>1, <2>1, <2>2 DEF TypeOK
<1>8. InHand'
  BY <1>1 DEF InHand
<1>9. InOrder'
  <2>1. \A s \in Slot : ~outcomes'[s].made => outcomes'[s] = Blank
    BY <1>2, <1>4 DEF InOrder
  <2>2. CASE last
    <3>1. {s \in Slot : outcomes'[s].made} = 1 .. slot'
      BY <1>1, <1>5, <2>2 DEF Made
    <3>2. {s \in Slot : outcomes'[s].failure # NoFailure} = blockers'
      BY <1>1, <1>3, <1>6 DEF InOrder, Failed
    <3>3. blockers' \subseteq {slot'} /\ (blockers' = {} => slot' = 3)
      BY <1>1, <2>2 DEF InOrder
    <3> QED
      BY <1>1, <2>1, <2>2, <3>1, <3>2, <3>3 DEF InOrder, WindowAccountedFor, Failed
  <2>3. CASE ~last
    <3>1. Made' = 1 .. (slot' - 1) /\ blockers' = {}
      BY <1>1, <1>3, <1>5, <2>3 DEF InOrder, Slot
    <3>2. \A s \in Slot : ~Failed(s)'
      BY <1>3, <1>6, <2>3 DEF Failed
    <3> QED
      BY <1>1, <2>1, <2>3, <3>1, <3>2 DEF InOrder, WindowAccountedFor
  <2> QED
    BY <2>2, <2>3
<1>10. InBudget'
  <2>1. Fits(plan)'
    BY <1>1 DEF InBudget, Fits
  <2>2. \A s \in Made' : ~Failed(s)' => outcomes'[s].spend <= plan.base[s] + plan.reserve[s]
    <3> SUFFICES ASSUME NEW s \in Made', ~Failed(s)'
                 PROVE  outcomes'[s].spend <= plan.base[s] + plan.reserve[s]
      OBVIOUS
    <3>1. CASE s = slot
      BY <1>2, <1>4, <3>1 DEF Failed
    <3>2. CASE s # slot
      BY <1>4, <3>2 DEF Made, Failed, InBudget
    <3> QED
      BY <3>1, <3>2
  <2> QED
    BY <1>1, <2>1, <2>2 DEF InBudget
<1>11. InTheWorld'
  <2>1. \A s \in Slot : outcomes'[s].real => outcomes'[s].failure = NoFailure
    BY <1>2, <1>4 DEF InTheWorld, Failed
  <2>2. CASE last
    <3>1. /\ \A s \in workspaces : outcomes'[s].failure # NoFailure /\ ~outcomes'[s].clean
          /\ \A s \in survivors : outcomes'[s].failure # NoFailure /\ ~outcomes'[s].tree
      BY <1>2, <1>3, <1>4 DEF InTheWorld
    <3> QED
      BY <1>1, <2>1, <2>2, <3>1 DEF InTheWorld, LeftoversReported, Failed
  <2>3. CASE ~last
    BY <1>1, <2>1, <2>3 DEF InTheWorld, LeftoversReported, Failed
  <2> QED
    BY <2>2, <2>3
<1> QED
  BY <1>7, <1>8, <1>9, <1>10, <1>11

LEMMA AnswerSteps ==
    ASSUME IInv, AcceptObservation \/ RejectScope
    PROVE  IInv'
<1> USE DEF IInv
<1>1. /\ phase = "validate" /\ {"spend", "failure", "clean"} \subseteq DOMAIN seen
      /\ seen.spend \in Nat /\ seen.failure \in Failure /\ seen.clean \in BOOLEAN
  BY DEF AcceptObservation, RejectScope, InHand
<1>2. slot \in Slot /\ plan \in Call
  BY WindowAssumption DEF TypeOK
<1>3. CASE AcceptObservation
  <2>1. seen.failure = NoFailure => seen.spend <= Limit(slot, seen)
    BY <1>3 DEF AcceptObservation, Accepted, WithinBudget
  <2>2. Limit(slot, seen) <= plan.base[slot] + plan.reserve[slot]
    BY <1>2 DEF Limit, Call
  <2>3. Deliver(seen)
    BY <1>3 DEF AcceptObservation
  <2>4. seen.failure = NoFailure => seen.spend <= plan.base[slot] + plan.reserve[slot]
    BY <1>1, <1>2, <2>1, <2>2 DEF Limit, Call
  <2> QED
    BY <1>1, <2>3, <2>4, Answered
<1>4. CASE RejectScope
  <2>1. /\ ScopeFailed(seen).failure = <<"scope_validation", "scope_violation">>
        /\ ScopeFailed(seen).spend = seen.spend /\ ScopeFailed(seen).clean = seen.clean
    BY <1>1 DEF ScopeFailed
  <2>2. <<"scope_validation", "scope_violation">> \in Failure \ {NoFailure}
    BY DEF Failure, Stage, Code, NoFailure
  <2>3. Deliver(ScopeFailed(seen))
    BY <1>4 DEF RejectScope
  <2> QED
    BY <1>1, <2>1, <2>2, <2>3, Answered
<1> QED
  BY <1>3, <1>4

\* The inductive invariant: what is in hand, in order, in budget and in the world.
THEOREM Invariance == Spec => []IInv
<1>1. Init => IInv
  BY Initially
<1>2. IInv /\ [Next]_vars => IInv'
  BY PlanStep, ReciteStep, LauncherStep, CollectStep, RaiseSteps, AnswerSteps, StutterStep
     DEF Next
<1> QED
  BY <1>1, <1>2, PTL DEF Spec

-----------------------------------------------------------------------------
(* Receipts of failures *)

\* What is seen before an adapter answers, and that its answer is about this attempt.
SeenInHand ==
    /\ phase \in {"plan", "dispatch", "collect"} => seen = NotAsked
    /\ phase = "validate" /\ attempt.made =>
           \E final \in FinalOutput, clean \in BOOLEAN :
               seen = Observed(attempt, final.read, final.output, clean)
    /\ FailureReceipted

\* A worker that reports a status of its own did not report a success.
LEMMA ReportedIsNoSuccess ==
    ASSUME NEW a \in Attempt, NEW read \in Unread \cup {"ok"}, NEW output,
           FirstFailure(a, read, output)[1] = "observation_validation"
    PROVE  output.status \notin Success
<1> DEFINE tests == Tests(a, read, output)
           failing == {i \in DOMAIN tests : tests[i].fails}
<1>1. DOMAIN tests = 1 .. 11
  BY DEF Tests
<1>2. failing # {}
  <2> SUFFICES ASSUME failing = {} PROVE FALSE
    OBVIOUS
  <2> QED
    BY DEF FirstFailure, NoFailure
<1>3. Min(failing) \in failing
  BY <1>1, <1>2, LeastTest
<1>4. PICK i \in 1 .. 11 : tests[i].fails /\ FirstFailure(a, read, output) = tests[i].as
  BY <1>1, <1>2, <1>3 DEF FirstFailure
<1>5. i = 11
  BY <1>4 DEF Tests
<1>6. tests[11].fails = (output.status \notin Success)
  BY DEF Tests
<1> QED
  BY <1>4, <1>5, <1>6

\* An observation of a failure is taken as it is, but in two cases.
LEMMA FailureIsTaken ==
    ASSUME NEW a \in Attempt, NEW final \in FinalOutput, NEW clean \in BOOLEAN,
           NEW o, o = Observed(a, final.read, final.output, clean),
           NEW s \in Slot, plan \in Call,
           o.failure # NoFailure,
           clean \/ o.future = NoEvidence,
           o.status # "inconclusive" \/ o.spend <= Limit(s, o)
    PROVE  o.bound /\ o.scope /\ Recordable(o) /\ Accepted(s, o)
<1> DEFINE failure == FirstFailure(a, final.read, final.output)
           good == failure = NoFailure
<1>1. final.read \in Unread \cup {"ok"} /\ final.output.status \in Status
  BY WindowAssumption DEF FinalOutput, NoOutput, Status
<1>2. failure[1] = "observation_validation" => final.output.status \in {"inconclusive", "failed"}
  BY <1>1, ReportedIsNoSuccess DEF Status
<1> HIDE DEF failure
<1>3. /\ o.bound /\ o.scope /\ o.extensions = 0 /\ o.opportunities = 0
      /\ o.status = IF clean /\ (good \/ failure[1] = "observation_validation")
                    THEN final.output.status ELSE "failed"
      /\ o.events = IF good /\ clean THEN final.output.events ELSE <<>>
      /\ o.future = IF good THEN final.output.future ELSE NoEvidence
      /\ o.recordable = (good /\ clean => final.output.recordable)
      /\ o.failure = IF good /\ ~clean
                     THEN <<"workspace_cleanup", "workspace_cleanup_failed">> ELSE failure
  BY DEF Observed, failure
<1>4. ~(good /\ clean)
  BY <1>3
<1>5. o.status \in {"inconclusive", "failed"}
  BY <1>2, <1>3, <1>4
<1>6. Recordable(o) /\ ExtensionEarned(o)
  BY <1>3, <1>4 DEF Recordable, ExtensionEarned
<1>7. WithinBudget(s, o)
  BY <1>5 DEF WithinBudget
<1>8. StatusBacked(o)
  BY <1>5 DEF StatusBacked
<1>9. FutureMatched(o)
  BY <1>3, <1>4 DEF FutureMatched
<1> QED
  BY <1>3, <1>6, <1>7, <1>8, <1>9 DEF Accepted

LEMMA SeenInitially == Init => SeenInHand
BY DEF Init, SeenInHand, FailureReceipted

\* An exception over an observation of a failure is one of the two cases.
LEMMA RaiseSeen ==
    ASSUME IInv, SeenInHand, RaiseInvalid
    PROVE  SeenInHand'
<1>1. /\ phase = "validate" /\ phase' = "raised"
      /\ UNCHANGED <<plan, slot, attempt, seen>>
      /\ ~(seen.bound /\ Recordable(seen) /\ (seen.scope => Accepted(slot, seen)))
  BY DEF RaiseInvalid
<1>2. ASSUME attempt.made, seen.failure # NoFailure
      PROVE  \/ ~seen.clean /\ seen.future # NoEvidence
             \/ seen.status = "inconclusive" /\ seen.spend > Limit(slot, seen)
  <2>1. PICK final \in FinalOutput, clean \in BOOLEAN :
            seen = Observed(attempt, final.read, final.output, clean)
    BY <1>1, <1>2 DEF SeenInHand
  <2>2. attempt \in Attempt /\ slot \in Slot /\ plan \in Call
    BY <1>2, WindowAssumption DEF IInv, InHand, NotAsked, TypeOK
  <2>3. seen.clean = clean /\ seen.extensions = 0 /\ seen.spend = attempt.spend
    BY <2>1 DEF Observed
  <2>4. seen.spend \in Nat /\ Limit(slot, seen) \in Nat
    BY <2>2, <2>3, WindowAssumption DEF Attempt, Limit, Call
  <2>5. \/ ~clean /\ seen.future # NoEvidence
        \/ seen.status = "inconclusive" /\ ~(seen.spend <= Limit(slot, seen))
    BY <1>1, <1>2, <2>1, <2>2, FailureIsTaken
  <2> QED
    BY <2>3, <2>4, <2>5
<1> QED
  BY <1>1, <1>2 DEF SeenInHand, FailureReceipted, Limit

LEMMA SeenSteps ==
    ASSUME IInv, SeenInHand, [Next]_vars
    PROVE  SeenInHand'
<1>1. CASE BuildPlan
  BY <1>1 DEF BuildPlan, SeenInHand, FailureReceipted, IInv, InHand, NotAsked
<1>2. CASE Recite
  BY <1>2 DEF Recite, SeenInHand, FailureReceipted, IInv, InHand, NotAsked
<1>3. CASE RunLauncher
  BY <1>3 DEF RunLauncher, SeenInHand, FailureReceipted
<1>4. CASE CollectOutput
  BY <1>4 DEF CollectOutput, SeenInHand, FailureReceipted
<1>5. CASE AdapterRaises
  BY <1>5 DEF AdapterRaises, SeenInHand, FailureReceipted, NotAsked
<1>6. CASE AcceptObservation \/ RejectScope
  <2>1. PICK o : Deliver(o)
    BY <1>6 DEF AcceptObservation, RejectScope
  <2> QED
    BY <2>1 DEF Deliver, SeenInHand, FailureReceipted
<1>7. CASE UNCHANGED vars
  BY <1>7 DEF vars, SeenInHand, FailureReceipted, Limit
<1> QED
  BY <1>1, <1>2, <1>3, <1>4, <1>5, <1>6, <1>7, RaiseSeen DEF Next

-----------------------------------------------------------------------------
(* The theorems *)

\* A returned window has answered its tickets in order up to the first failure.
LEMMA AnsweredInOrder == Spec => []WindowAccountedFor
<1>1. IInv => WindowAccountedFor
  BY DEF IInv, InOrder
<1> QED
  BY <1>1, Invariance, PTL

\* No worker is started over the files or the processes of another.
LEMMA FreshStart == Spec => []NoTicketOverLeftovers
<1>1. IInv => NoTicketOverLeftovers
  BY DEF IInv, InTheWorld, NoTicketOverLeftovers
<1> QED
  BY <1>1, Invariance, PTL

\* What a returned window left behind is in a failed receipt.
LEMMA NothingLeftUnsaid == Spec => []LeftoversReported
<1>1. IInv => LeftoversReported
  BY DEF IInv, InTheWorld
<1> QED
  BY <1>1, Invariance, PTL

\* The real-execution claim of a window stands for three clean workers.
LEMMA RealClaimEarned == Spec => []RealMeansWholeWindow
<1>1. IInv => RealMeansWholeWindow
  <2> SUFFICES ASSUME IInv, phase = "returned", \E s \in Slot : outcomes[s].made,
                      \A s \in Slot : outcomes[s].made => outcomes[s].real
               PROVE  Made = Slot /\ workspaces = {} /\ survivors = {}
    BY DEF RealMeansWholeWindow, Made
  <2>1. \A s \in Slot : ~Failed(s)
    BY DEF IInv, InTheWorld, InOrder, Failed, Blank
  <2>2. workspaces = {} /\ survivors = {}
    BY <2>1 DEF IInv, InTheWorld, LeftoversReported, TypeOK
  <2>3. blockers = {} /\ slot = 3
    BY <2>1 DEF IInv, InOrder, WindowAccountedFor
  <2>4. Made = Slot
    BY <2>3 DEF IInv, InOrder, WindowAccountedFor, Made, Slot
  <2> QED
    BY <2>2, <2>4
<1> QED
  BY <1>1, Invariance, PTL

\* The successful outcomes stay within the hard budget together.
THEOREM HardBudgetKept == Spec => []SpentWithinHardBudget
<1>1. IInv => SpentWithinHardBudget
  <2> SUFFICES ASSUME IInv, Made # {}
               PROVE  Total([s \in Slot |-> Accountable(s)]) <= plan.hard
    BY DEF SpentWithinHardBudget, Made
  <2>1. plan \in Call /\ outcomes \in [Slot -> Outcome]
    BY WindowAssumption DEF IInv, TypeOK
  <2>2. Total(plan.base) + Total(plan.reserve) <= plan.hard
    BY DEF IInv, InBudget, Fits
  <2>3. \A s \in Slot : /\ Accountable(s) \in Nat
                        /\ Accountable(s) <= plan.base[s] + plan.reserve[s]
    <3> TAKE s \in Slot
    <3>1. plan.base[s] \in Nat /\ plan.reserve[s] \in Nat /\ outcomes[s].spend \in Nat
      BY <2>1 DEF Call, Outcome
    <3>2. ~Failed(s) => outcomes[s].spend <= plan.base[s] + plan.reserve[s]
      BY <3>1 DEF IInv, InBudget, InOrder, Made, Blank
    <3> QED
      BY <3>1, <3>2 DEF Accountable
  <2>4. /\ plan.base \in [Slot -> Nat] /\ plan.reserve \in [Slot -> Nat] /\ plan.hard \in Nat
        /\ 1 \in Slot /\ 2 \in Slot /\ 3 \in Slot
    BY <2>1 DEF Call, Slot
  <2>5. Total([s \in Slot |-> Accountable(s)])
            = Accountable(1) + Accountable(2) + Accountable(3)
    BY <2>4 DEF Total
  <2> HIDE DEF Accountable
  <2> QED
    BY <2>2, <2>3, <2>4, <2>5 DEF Total
<1> QED
  BY <1>1, Invariance, PTL

\* A returned window says what happened, and claims no more than that.
THEOREM WindowIsTruthful == Spec => []ReturnedTruthful
BY AnsweredInOrder, RealClaimEarned, PTL DEF ReturnedTruthful

\* No file and no process of a worker is passed over.
THEOREM NothingIsPassedOver == Spec => []NothingLeftBehind
BY FreshStart, NothingLeftUnsaid, PTL DEF NothingLeftBehind

\* Every failure of a worker of the process adapter gets its receipt, but in two cases: a
\* future route was proposed and the workspace stayed, or the worker reported itself
\* inconclusive after overspending (execute, _validate_observation).
THEOREM FailuresAreReceipted == Spec => []FailureReceipted
<1>1. Init => IInv /\ SeenInHand
  BY Initially, SeenInitially
<1>2. SeenInHand => FailureReceipted
  BY DEF SeenInHand
<1>3. IInv /\ SeenInHand /\ [Next]_vars => SeenInHand'
  BY SeenSteps
<1> QED
  BY <1>1, <1>2, <1>3, Invariance, PTL DEF Spec
=============================================================================
