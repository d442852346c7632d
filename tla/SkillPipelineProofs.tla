------------------------- MODULE SkillPipelineProofs -------------------------
(***************************************************************************)
(* Proofs about the pipeline, for whatever plans, answers and records it   *)
(* is given: what a job's outcome vouches for, what the desk holds, on     *)
(* which records arms start, what a trace attests, in which order closures *)
(* list members, and what a suite may claim.                               *)
(***************************************************************************)
EXTENDS SkillPipeline, FiniteSetTheorems, WellFoundedInduction, TLAPS

(***************************************************************************)
(* The inductive invariant of the jobs.                                    *)
(***************************************************************************)
JobKinds == {"capture", "proposal", "trial"}

\* The arms of a job, and the order they run in.
ArmsOf(kind) ==
    CASE kind = "capture"  -> {"baseline"}
      [] kind = "proposal" -> {"generator"}
      [] OTHER             -> {"baseline", "candidate"}

OrderOf(kind) ==
    CASE kind = "capture"  -> <<"baseline">>
      [] kind = "proposal" -> <<"generator">>
      [] OTHER             -> TrialArms

\* A plan under way.
Shaped(p) == JobFields \subseteq DOMAIN p /\ p.raised \in BOOLEAN /\ p.real \in BOOLEAN

CaptureShaped(p) == {"case", "lineage"} \subseteq DOMAIN p /\ Judged(p)

ProposalShaped(p) ==
    /\ {"cases", "sources", "pattern", "pinnedCases", "status", "principals", "skill", "fixes"}
           \subseteq DOMAIN p
    /\ DOMAIN p.principals = {"author", "reviewer", "assessor", "drafter"}
    /\ Proposable(p)

TrialShaped(p) ==
    /\ {"expectLoaded", "routed", "exact", "pinned", "static", "semantic", "synthetic"}
           \subseteq DOMAIN p
    /\ p.expectLoaded \in BOOLEAN
    /\ Judged(p) /\ TrialReady(p)

JobSound(p) ==
    /\ Shaped(p) /\ p.kind \in JobKinds
    /\ p.kind = "capture" => CaptureShaped(p)
    /\ p.kind = "proposal" => ProposalShaped(p)
    /\ p.kind = "trial" => TrialShaped(p)

\* Every job runs in the stage of its kind, and nothing runs over an outcome
\* that was not taken.
JobPlaced ==
    /\ step \in {"idle", "prepare", "execute", "cleanup", "conclude"}
    /\ step = "idle" => job = NoJob
    /\ step # "idle" => JobSound(job) /\ stage = job.kind /\ outcome = NoOutcome
    /\ outcome # NoOutcome => stage \in JobKinds

\* The arms of the job run in order, each once, until one raises.
ArmsInTurn ==
    step # "idle" =>
        \/ /\ step \in {"prepare", "execute"} /\ job.raised = FALSE
           /\ \/ DOMAIN observed = {} /\ arms = OrderOf(job.kind)
              \/ job.kind = "trial" /\ DOMAIN observed = {"baseline"} /\ arms = <<"candidate">>
        \/ /\ step \in {"cleanup", "conclude"}
           /\ DOMAIN observed \subseteq ArmsOf(job.kind)
           /\ job.raised = FALSE => DOMAIN observed = ArmsOf(job.kind)

\* What was recorded has the shape of an observation, and a process can be left
\* only where the containment did not verify that none is.
ObservationsSound ==
    step # "idle" =>
        /\ \A arm \in DOMAIN observed :
              Replayed(observed[arm].replay) /\ observed[arm].turn \in BOOLEAN
        /\ \A arm \in alive : arm \in DOMAIN observed /\ ~Verified(observed[arm])

\* A root refused at the start is the only one nobody tried to remove.
RootKept ==
    /\ step \in {"prepare", "execute", "cleanup"} => root = "made"
    /\ step = "conclude" =>
          \/ root \in {"gone", "left"}
          \/ /\ root = "abandoned" /\ job.raised = TRUE
             /\ DOMAIN observed = {} /\ alive = {}

JobInv == JobPlaced /\ ArmsInTurn /\ ObservationsSound /\ RootKept

-----------------------------------------------------------------------------
(* The jobs keep their invariant. *)

\* Raising marks a plan and leaves the rest of it alone.
LEMMA Raising ==
  ASSUME NEW p, JobSound(p), NEW b \in BOOLEAN
  PROVE  LET q == [p EXCEPT !.raised = b]
         IN  JobSound(q) /\ q.kind = p.kind /\ q.raised = b
<1> DEFINE q == [p EXCEPT !.raised = b]
<1>1. DOMAIN q = DOMAIN p /\ q.raised = b /\ \A x \in DOMAIN p : x # "raised" => q[x] = p[x]
  BY DEF JobSound, Shaped, JobFields
<1>2. q.kind = p.kind /\ q.real = p.real /\ q.confined = p.confined /\ q.retries = p.retries
      /\ q.seeded = p.seeded /\ q.restricted = p.restricted
  BY <1>1 DEF JobSound, Shaped, JobFields
<1> HIDE DEF q
<1>3. Shaped(q)
  BY <1>1, <1>2 DEF JobSound, Shaped
<1>4. ASSUME CaptureShaped(p) PROVE CaptureShaped(q)
  BY <1>1, <1>4 DEF CaptureShaped, Judged, JudgedFields
<1>5. ASSUME ProposalShaped(p) PROVE ProposalShaped(q)
  BY <1>1, <1>2, <1>5 DEF ProposalShaped, Proposable, LeastPrivilege
<1>6. ASSUME TrialShaped(p) PROVE TrialShaped(q)
  <2>1. q.oracle = p.oracle /\ q.config = p.config /\ q.runner = p.runner
    BY <1>1, <1>6 DEF TrialShaped, Judged, JudgedFields
  <2>2. q.expectLoaded = p.expectLoaded /\ q.pinned = p.pinned /\ q.static = p.static
        /\ q.semantic = p.semantic /\ q.synthetic = p.synthetic
        /\ q.routed = p.routed /\ q.exact = p.exact
    BY <1>1, <1>6 DEF TrialShaped
  <2> QED
    BY <1>1, <1>2, <1>6, <2>1, <2>2 DEF TrialShaped, Judged, TrialReady, LeastPrivilege
<1>7. JobSound(q)
  BY <1>2, <1>3, <1>4, <1>5, <1>6 DEF JobSound
<1> QED
  BY <1>1, <1>2, <1>7 DEF q

\* What does not touch a job leaves the invariant alone.
LEMMA BesideTheJob ==
  ASSUME JobInv, UNCHANGED callVars,
         \/ UNCHANGED <<stage, captured>>
         \/ step = "idle" /\ outcome = NoOutcome
  PROVE  JobInv'
<1> USE DEF JobInv, callVars
<1>1. JobPlaced'
  <2>1. CASE UNCHANGED <<stage, captured>>
    BY <2>1 DEF JobPlaced, JobSound, Shaped, CaptureShaped, ProposalShaped, TrialShaped,
       Proposable, TrialReady
  <2>2. CASE step = "idle" /\ outcome = NoOutcome
    BY <2>2 DEF JobPlaced
  <2> QED
    BY <2>1, <2>2
<1>2. ArmsInTurn'
  BY DEF ArmsInTurn
<1>3. ObservationsSound'
  BY DEF ObservationsSound
<1>4. RootKept'
  BY DEF RootKept
<1> QED
  BY <1>1, <1>2, <1>3, <1>4

\* A job begins with a sound plan and all its arms, or raises at once.
LEMMA BeginStep ==
  ASSUME JobInv, NEW p, JobSound(p), p.raised = FALSE, stage' = p.kind,
         Begin(p, OrderOf(p.kind))
  PROVE  JobInv'
<1> USE DEF JobInv
<1>1. \/ step' = "prepare" /\ root' = "made" /\ job' = p
      \/ step' = "conclude" /\ root' = "abandoned" /\ job' = [p EXCEPT !.raised = TRUE]
  BY DEF Begin
<1>2. /\ step = "idle" /\ outcome = NoOutcome /\ outcome' = outcome
      /\ arms' = OrderOf(p.kind) /\ observed' = NoObservations /\ alive' = {}
  BY DEF Begin
<1>3. /\ JobSound(job') /\ job'.kind = p.kind
      /\ step' = "prepare" => job'.raised = FALSE
      /\ step' = "conclude" => job'.raised = TRUE
  BY <1>1, Raising
<1>4. JobPlaced'
  <2>1. JobSound(job)'
    BY <1>3 DEF JobSound, Shaped, CaptureShaped, ProposalShaped, TrialShaped, Proposable, TrialReady
  <2> QED
    BY <1>1, <1>2, <1>3, <2>1 DEF JobPlaced
<1>5. DOMAIN observed' = {}
  BY <1>2 DEF NoObservations
<1>6. ArmsInTurn'
  BY <1>1, <1>2, <1>3, <1>5 DEF ArmsInTurn
<1>7. ObservationsSound'
  BY <1>2, <1>5 DEF ObservationsSound
<1>8. RootKept'
  BY <1>1, <1>2, <1>3, <1>5 DEF RootKept
<1> QED
  BY <1>4, <1>6, <1>7, <1>8

\* The next arm gets a workspace.
LEMMA PrepareStep ==
  ASSUME JobInv, Prepare, UNCHANGED <<stage, captured>>
  PROVE  JobInv'
<1> USE DEF JobInv, Prepare
<1>1. JobSound(job) /\ step = "prepare" /\ step' \in {"execute", "cleanup"}
  BY DEF JobPlaced
<1>2. JobSound(job') /\ job'.kind = job.kind
      /\ (step' = "execute" => job' = job) /\ (step' = "cleanup" => job'.raised = TRUE)
  <2>1. CASE step' = "execute"
    BY <1>1, <2>1
  <2>2. CASE step' = "cleanup"
    BY <1>1, <2>2, Raising
  <2> QED
    BY <1>1, <2>1, <2>2
<1>3. JobPlaced'
  <2>1. JobSound(job)'
    BY <1>2 DEF JobSound, Shaped, CaptureShaped, ProposalShaped, TrialShaped, Proposable, TrialReady
  <2> QED
    BY <1>1, <1>2, <2>1 DEF JobPlaced
<1>4. ArmsInTurn'
  BY <1>1, <1>2 DEF ArmsInTurn, ArmsOf, JobSound, JobKinds
<1>5. ObservationsSound'
  BY <1>1 DEF ObservationsSound
<1>6. RootKept'
  BY <1>1 DEF RootKept
<1> QED
  BY <1>3, <1>4, <1>5, <1>6

\* What an executor hands back is recorded with the shape of an observation.
LEMMA ExecuteStep ==
  ASSUME JobInv, step = "execute", UNCHANGED <<stage, captured>>,
         NEW answer \in Answers(job.kind), Execute(answer)
  PROVE  JobInv'
<1> DEFINE arm == Head(arms)
           raises == \/ answer.kind \in {"invalid", "own_error"} /\ job.kind # "trial"
                     \/ answer.kind = "observation" /\ ~Consistent(answer.seen)
           seen == IF answer.kind = "observation" THEN answer.seen ELSE ExecutorFailed
<1>1. JobSound(job) /\ job.kind \in JobKinds /\ stage = job.kind /\ outcome = NoOutcome
      /\ job.raised = FALSE
  BY DEF JobInv, JobPlaced, JobSound, ArmsInTurn
<1>2. PICK left \in SUBSET {arm} :
         /\ answer.kind = "observation" /\ Verified(answer.seen) => left = {}
         /\ alive' = alive \cup left
  BY DEF Execute
<1>3. /\ observed' = [a \in DOMAIN observed \cup {arm} |-> IF a = arm THEN seen ELSE observed[a]]
      /\ job' = [job EXCEPT !.raised = raises]
      /\ step' = IF ~raises /\ Len(arms) > 1 THEN "prepare" ELSE "cleanup"
      /\ arms' = Tail(arms)
      /\ root' = root /\ outcome' = outcome
  BY DEF Execute
<1>4. Replayed(seen.replay) /\ seen.turn \in BOOLEAN
  <2>1. CASE answer.kind = "observation"
    BY <1>1, <2>1, AnswersAssumption DEF JobKinds
  <2>2. CASE answer.kind # "observation"
    BY <2>2 DEF ExecutorFailed, Replayed, Failure, NoOutput, ErrorClasses
  <2> QED
    BY <2>1, <2>2
<1>5. arm \in left => ~Verified(seen)
  BY <1>2 DEF ExecutorFailed, Verified
<1>6. raises \in BOOLEAN
  OBVIOUS
<1> HIDE DEF seen, raises
<1>7. JobSound(job') /\ job'.kind = job.kind /\ job'.raised = raises
  BY <1>1, <1>3, <1>6, Raising
<1>8. step' \in {"prepare", "cleanup"}
  BY <1>3
<1>9. JobPlaced'
  <2>1. JobSound(job)'
    BY <1>7 DEF JobSound, Shaped, CaptureShaped, ProposalShaped, TrialShaped, Proposable, TrialReady
  <2> QED
    BY <1>1, <1>3, <1>7, <1>8, <2>1 DEF JobPlaced, JobInv
<1>10. ArmsInTurn'
  <2>1. CASE DOMAIN observed = {} /\ arms = OrderOf(job.kind) /\ job.kind # "trial"
    <3>1. arm \in ArmsOf(job.kind) /\ Len(arms) = 1 /\ ArmsOf(job.kind) = {arm}
      BY <1>1, <2>1 DEF OrderOf, ArmsOf, JobKinds
    <3> QED
      BY <1>3, <1>7, <2>1, <3>1 DEF ArmsInTurn
  <2>2. CASE DOMAIN observed = {} /\ arms = OrderOf(job.kind) /\ job.kind = "trial"
    <3>1. arms = <<"baseline", "candidate">>
      BY <2>2 DEF OrderOf, TrialArms
    <3>2. arm = "baseline" /\ Len(arms) = 2 /\ Tail(arms) = <<"candidate">>
      BY <3>1
    <3>3. DOMAIN observed' = {"baseline"} /\ arms' = <<"candidate">>
      BY <1>3, <2>2, <3>2
    <3>4. "baseline" \in ArmsOf("trial")
      BY DEF ArmsOf
    <3>5. CASE raises
      BY <1>3, <1>6, <1>7, <2>2, <3>3, <3>4, <3>5 DEF ArmsInTurn
    <3>6. CASE ~raises
      BY <1>3, <1>6, <1>7, <2>2, <3>2, <3>3, <3>6 DEF ArmsInTurn
    <3> QED
      BY <3>5, <3>6
  <2>3. CASE job.kind = "trial" /\ DOMAIN observed = {"baseline"} /\ arms = <<"candidate">>
    <3>1. arm = "candidate" /\ Len(arms) = 1
      BY <2>3
    <3>2. DOMAIN observed' = ArmsOf("trial") /\ step' = "cleanup"
      BY <1>3, <2>3, <3>1 DEF ArmsOf
    <3> QED
      BY <1>7, <2>3, <3>2 DEF ArmsInTurn
  <2> QED
    BY <2>1, <2>2, <2>3 DEF JobInv, ArmsInTurn
<1>11. ObservationsSound'
  <2>1. \A a \in DOMAIN observed' :
            observed'[a] = IF a = arm THEN seen ELSE observed[a]
    BY <1>3
  <2>2. DOMAIN observed' = DOMAIN observed \cup {arm}
    BY <1>3
  <2>3. \A a \in DOMAIN observed' : Replayed(observed'[a].replay) /\ observed'[a].turn \in BOOLEAN
    BY <1>4, <2>1, <2>2 DEF JobInv, ObservationsSound
  <2>4. arm \notin DOMAIN observed
    <3>1. DOMAIN observed = {} \/ (DOMAIN observed = {"baseline"} /\ arms = <<"candidate">>)
      BY DEF JobInv, ArmsInTurn
    <3> QED
      BY <3>1
  <2>5. ASSUME NEW a \in alive' PROVE a \in DOMAIN observed' /\ ~Verified(observed'[a])
    <3>1. CASE a \in alive
      BY <2>1, <2>2, <2>4, <3>1 DEF JobInv, ObservationsSound
    <3>2. CASE a \in left
      BY <1>2, <1>5, <2>1, <2>2, <3>2
    <3> QED
      BY <1>2, <2>5, <3>1, <3>2
  <2> QED
    BY <2>3, <2>5 DEF ObservationsSound
<1>12. RootKept'
  BY <1>3, <1>8 DEF JobInv, RootKept
<1> QED
  BY <1>9, <1>10, <1>11, <1>12 DEF JobInv

\* The root is removed, or stays.
LEMMA CleanUpStep ==
  ASSUME JobInv, CleanUp, UNCHANGED <<stage, captured>>
  PROVE  JobInv'
<1> USE DEF JobInv, CleanUp
<1>1. JobPlaced'
  BY DEF JobPlaced, JobSound, Shaped, CaptureShaped, ProposalShaped, TrialShaped, Proposable,
     TrialReady
<1>2. ArmsInTurn'
  BY DEF ArmsInTurn
<1>3. ObservationsSound'
  BY DEF ObservationsSound
<1>4. RootKept'
  BY DEF RootKept
<1> QED
  BY <1>1, <1>2, <1>3, <1>4

\* A job that keeps its records and ends with a status.
LEMMA OverStep ==
  ASSUME JobInv, NEW status, Over(status), UNCHANGED stage
  PROVE  JobInv'
<1> USE DEF JobInv, Over
<1>1. JobPlaced'
  BY DEF JobPlaced, JobSound
<1>2. ArmsInTurn' /\ ObservationsSound' /\ RootKept'
  BY DEF ArmsInTurn, ObservationsSound, RootKept
<1> QED
  BY <1>1, <1>2

\* The outcome is taken and the place is free again.
LEMMA TakenStep ==
  ASSUME JobInv, Taken, UNCHANGED stage
  PROVE  JobInv'
BY DEF JobInv, Taken, JobPlaced, ArmsInTurn, ObservationsSound, RootKept

LEMMA JobInit == Init => JobInv
BY DEF Init, CandidateInit, CallInit, JobInv, JobPlaced, ArmsInTurn, ObservationsSound, RootKept

\* A plan that passed its checks is sound.
LEMMA CaptureBegins ==
  ASSUME JobInv, stage = "capture", UNCHANGED stage, NEW p \in CapturePlans, BeginCapture(p)
  PROVE  JobInv'
<1>1. Shaped(p) /\ CaptureShaped(p) /\ p.kind = "capture" /\ p.raised = FALSE
  BY PlansAssumption DEF Shaped, CaptureShaped, BeginCapture, Capturable
<1>2. JobSound(p)
  BY <1>1 DEF JobSound, JobKinds
<1>3. Begin(p, OrderOf(p.kind))
  BY <1>1 DEF BeginCapture, OrderOf
<1> QED
  BY <1>1, <1>2, <1>3, BeginStep

\* A plan supplied with its records is still a proposal.
LEMMA ProposalBegins ==
  ASSUME JobInv, stage = "proposal", UNCHANGED stage, NEW p \in ProposalPlans,
         BeginProposal(Supplied(p))
  PROVE  JobInv'
<1> DEFINE filled == {"sources", "pinnedCases"}
<1>0. PICK q : q = Supplied(p)
  OBVIOUS
<1>1. DOMAIN q = DOMAIN p /\ \A x \in DOMAIN p : x \notin filled => q[x] = p[x]
  BY <1>0 DEF Supplied
<1>2. JobFields \cup {"principals", "cases", "pattern", "status", "skill", "fixes"} \subseteq DOMAIN p
      /\ filled \subseteq DOMAIN p
  BY PlansAssumption
<1>3. q.kind = p.kind /\ q.raised = p.raised /\ q.real = p.real /\ q.principals = p.principals
  BY <1>1, <1>2 DEF JobFields
<1>4. Shaped(q) /\ q.raised = FALSE
  BY <1>1, <1>2, <1>3, PlansAssumption DEF Shaped
<1>5. Proposable(q) /\ q.kind = "proposal"
  BY <1>0 DEF BeginProposal, Proposable
<1>6. ProposalShaped(q)
  BY <1>1, <1>2, <1>3, <1>5, PlansAssumption DEF ProposalShaped
<1>7. JobSound(q)
  BY <1>4, <1>5, <1>6 DEF JobSound, JobKinds
<1>8. Begin(q, OrderOf(q.kind))
  BY <1>0, <1>5 DEF BeginProposal, OrderOf
<1> QED
  BY <1>4, <1>5, <1>7, <1>8, BeginStep

\* A plan filled in with the records of the candidate is still a trial.
LEMMA TrialBegins ==
  ASSUME JobInv, stage' = "trial", NEW p \in TrialPlans, NEW payload,
         BeginTrial(Presented(p, payload))
  PROVE  JobInv'
<1> DEFINE filled == {"pinned", "static", "semantic", "synthetic"}
<1>0. PICK q : q = Presented(p, payload)
  OBVIOUS
<1>1. DOMAIN q = DOMAIN p /\ \A x \in DOMAIN p : x \notin filled => q[x] = p[x]
  BY <1>0 DEF Presented
<1>2. JobFields \cup JudgedFields \cup {"expectLoaded"} \subseteq DOMAIN p
      /\ filled \subseteq DOMAIN p
  BY PlansAssumption DEF Judged
<1>3. q.kind = p.kind /\ q.raised = p.raised /\ q.real = p.real /\ q.expectLoaded = p.expectLoaded
      /\ q.config = p.config
  BY <1>1, <1>2 DEF JobFields, JudgedFields
<1>4. Shaped(q) /\ q.raised = FALSE
  BY <1>1, <1>2, <1>3, PlansAssumption DEF Shaped
<1>5. TrialShaped(q) /\ q.kind = "trial"
  BY <1>0, <1>1, <1>2, <1>3, PlansAssumption DEF TrialShaped, Judged, BeginTrial, TrialReady
<1>6. JobSound(q)
  BY <1>4, <1>5 DEF JobSound, JobKinds
<1>7. Begin(q, OrderOf(q.kind))
  BY <1>0, <1>5 DEF BeginTrial, OrderOf
<1> QED
  BY <1>4, <1>5, <1>6, <1>7, BeginStep

\* Every step of the pipeline keeps JobInv.
LEMMA JobStep == JobInv /\ [Next]_vars => JobInv'
<1> SUFFICES ASSUME JobInv, [Next]_vars PROVE JobInv'
  OBVIOUS
<1>1. CASE StepJob
  <2>1. UNCHANGED <<stage, captured>>
    BY <1>1 DEF StepJob, Jobs
  <2>2. CASE Prepare
    BY <2>1, <2>2, PrepareStep
  <2>3. ASSUME step = "execute", NEW answer \in Answers(job.kind), Execute(answer)
        PROVE  JobInv'
    BY <2>1, <2>3, ExecuteStep
  <2>4. CASE CleanUp
    BY <2>1, <2>4, CleanUpStep
  <2>5. CASE Taken
    BY <2>1, <2>5, TakenStep
  <2> QED
    BY <1>1, <2>2, <2>3, <2>4, <2>5 DEF StepJob
<1>2. CASE Capturing
  <2>1. stage = "capture" /\ UNCHANGED stage
    BY <1>2 DEF Capturing, Jobs
  <2>2. CASE ConcludeCapture
    <3>1. PICK status \in CaptureEnds : Over(status)
      BY <2>2 DEF ConcludeCapture
    <3> QED
      BY <2>1, <3>1, OverStep
  <2> QED
    BY <1>2, <2>1, <2>2, CaptureBegins DEF Capturing
<1>3. CASE Proposing
  <2>1. stage = "proposal" /\ UNCHANGED stage
    BY <1>3 DEF Proposing, Jobs
  <2>2. CASE ConcludeProposal
    BY <2>1, <2>2, OverStep DEF ConcludeProposal
  <2> QED
    BY <1>3, <2>1, <2>2, ProposalBegins DEF Proposing
<1>4. CASE Trying
  BY <1>4, OverStep DEF Trying, ConcludeTrial, Jobs
<1>5. CASE ToTrial
  BY <1>5, TrialBegins DEF ToTrial, HandOver
<1>6. CASE ToProposal \/ ToReview
  BY <1>6, BesideTheJob DEF ToProposal, ToReview, Fresh
<1>7. CASE ToSuite \/ Collecting
  <2>1. stage \notin JobKinds
    BY <1>7 DEF ToSuite, HandOver, Collecting, JobKinds
  <2>2. step = "idle" /\ outcome = NoOutcome
    BY <2>1 DEF JobInv, JobPlaced, JobSound
  <2> QED
    BY <1>7, <2>2, BesideTheJob DEF ToSuite, Collecting, candidateVars
<1>8. CASE Reviewing \/ Contexts \/ Suiting \/ Evaluating \/ Tracing
  BY <1>8, BesideTheJob DEF Reviewing, Contexts, Desk, Suiting, Evaluating, Tracing, candidateVars
<1>9. CASE UNCHANGED vars
  BY <1>9, BesideTheJob DEF vars, candidateVars
<1> QED
  BY <1>1, <1>2, <1>3, <1>4, <1>5, <1>6, <1>7, <1>8, <1>9 DEF Next

-----------------------------------------------------------------------------
(* What an observation is worth. *)

Missed(floors, oracle, right) ==
    \/ ~(DOMAIN floors \subseteq oracle)
    \/ \E d \in DOMAIN floors \cap oracle : floors[d] = 1 /\ d \notin right

Marked(config, marks) ==
    \/ config.safety /\ "unsafe" \in marks
    \/ config.privacy /\ "private" \in marks

\* A result is scored, and its verdict fails exactly on a missed floor, a
\* forbidden mark or an evaluator that is not the configured one.
LEMMA ScoredVerdict ==
  ASSUME NEW replay, NEW oracle, NEW runner, NEW config, Replayed(replay),
         config.floors \in [DOMAIN config.floors -> {0, 1}],
         config.safety \in BOOLEAN, config.privacy \in BOOLEAN,
         Observe(replay, oracle, runner, config).result
  PROVE  /\ replay.ok /\ replay.output.readable /\ oracle # {}
         /\ Observe(replay, oracle, runner, config).verdict =
                IF \/ Missed(config.floors, oracle, replay.output.right)
                   \/ Marked(config, replay.output.marks)
                   \/ Foreign(runner, config)
                THEN "fail" ELSE "pass"
<1> DEFINE scores == IF replay.ok THEN ScoreWithOracle(replay.output, oracle) ELSE Unscored
           gates == EvaluateGates(replay, scores, runner, config)
           e == Observe(replay, oracle, runner, config)
<1>1. \/ replay.ok = TRUE /\ replay.error = "none"
      \/ replay.ok = FALSE
  BY DEF Replayed
<1>2. e.result = (replay.ok /\ ~(replay.ok /\ scores = Unscored))
  BY DEF Observe
<1>3. replay.ok = TRUE /\ scores # Unscored
  BY <1>1, <1>2
<1>4. scores = ScoreWithOracle(replay.output, oracle)
  BY <1>3
<1>5. replay.output.readable /\ oracle # {}
      /\ scores = [d \in oracle |-> IF d \in replay.output.right THEN 1 ELSE 0]
  BY <1>3, <1>4 DEF ScoreWithOracle
<1>6. replay.error = "none"
  BY <1>1, <1>3
<1> HIDE DEF scores
<1>7. e.verdict = AssembleVerdict(replay, gates, scores)
  BY <1>3 DEF Observe, scores
<1>8. /\ gates["integrity"] # "fail" /\ gates["resource"] # "fail"
      /\ gates["critical_safety"] = "fail" <=> config.safety /\ "unsafe" \in replay.output.marks
      /\ gates["privacy"] = "fail" <=> config.privacy /\ "private" \in replay.output.marks
      /\ gates["evaluator_integrity"] = "fail" <=> Foreign(runner, config)
      /\ gates["regression"] = RegressionGate(replay, scores, config.floors)
  <2>1. /\ gates["integrity"] = IF replay.error = "runner_error" THEN "fail" ELSE "pass"
        /\ gates["resource"] = IF replay.error \in {"timeout", "output_limit"}
                               THEN "fail" ELSE "pass"
        /\ gates["critical_safety"] = PatternGate(replay, config.safety, "unsafe")
        /\ gates["privacy"] = PatternGate(replay, config.privacy, "private")
        /\ gates["regression"] = RegressionGate(replay, scores, config.floors)
        /\ gates["evaluator_integrity"] =
              IF config.runner = "any" /\ config.scorer = "any" THEN "not_applicable"
              ELSE IF Foreign(runner, config) THEN "fail" ELSE "pass"
    BY DEF EvaluateGates, Gates
  <2>2. gates["evaluator_integrity"] = "fail" <=> Foreign(runner, config)
    BY <2>1 DEF Foreign
  <2>3. \A configured \in BOOLEAN : \A mark :
            PatternGate(replay, configured, mark) = "fail"
            <=> (configured /\ mark \in replay.output.marks)
    <3> SUFFICES ASSUME NEW configured \in BOOLEAN, NEW mark
                 PROVE  PatternGate(replay, configured, mark) = "fail"
                        <=> (configured /\ mark \in replay.output.marks)
      OBVIOUS
    <3>1. CASE configured = FALSE
      BY <1>3, <3>1 DEF PatternGate
    <3>2. CASE configured = TRUE /\ mark \in replay.output.marks
      BY <1>3, <3>2 DEF PatternGate
    <3>3. CASE configured = TRUE /\ mark \notin replay.output.marks
      BY <1>3, <3>3 DEF PatternGate
    <3> QED
      BY <3>1, <3>2, <3>3
  <2> QED
    BY <1>6, <2>1, <2>2, <2>3
<1>9. RegressionGate(replay, scores, config.floors) = "fail" <=>
          Missed(config.floors, oracle, replay.output.right)
  <2>1. DOMAIN scores = oracle
        /\ \A d \in oracle : scores[d] = IF d \in replay.output.right THEN 1 ELSE 0
    BY <1>5
  <2>2. \A d \in DOMAIN config.floors : config.floors[d] \in {0, 1}
    OBVIOUS
  <2>3. \A d \in DOMAIN config.floors :
            (d \notin DOMAIN scores \/ scores[d] < config.floors[d])
            <=> (d \notin oracle \/ (config.floors[d] = 1 /\ d \notin replay.output.right))
    BY <2>1, <2>2
  <2>4. RegressionGate(replay, scores, config.floors) = "fail" <=>
            \E d \in DOMAIN config.floors :
                d \notin DOMAIN scores \/ scores[d] < config.floors[d]
    BY <1>3 DEF RegressionGate
  <2> QED
    BY <2>3, <2>4 DEF Missed
<1>10. DOMAIN gates = Gates
  BY DEF EvaluateGates
<1> HIDE DEF gates
<1>11. (\E g \in DOMAIN gates : gates[g] = "fail") <=>
          \/ Missed(config.floors, oracle, replay.output.right)
          \/ Marked(config, replay.output.marks)
          \/ Foreign(runner, config)
  BY <1>8, <1>9, <1>10 DEF Gates, Marked
<1> QED
  BY <1>3, <1>5, <1>7, <1>11 DEF AssembleVerdict

\* An arm nothing is held against was verified and, with a real agent, whole.
LEMMA CleanArm ==
  ASSUME NEW arm, NEW real \in BOOLEAN, ArmBlockers(arm, real) = {},
         observed[arm].turn \in BOOLEAN
  PROVE  Verified(observed[arm]) /\ (real => observed[arm].session # 0 /\ observed[arm].turn)
<1>1. "process_tree_cleanup_failed" \notin ArmBlockers(arm, real)
      /\ "session_missing" \notin ArmBlockers(arm, real)
      /\ "turn_incomplete" \notin ArmBlockers(arm, real)
  OBVIOUS
<1> QED
  BY <1>1 DEF ArmBlockers

-----------------------------------------------------------------------------
(* What a job's outcome vouches for. *)

\* The sums of the facts an outcome is judged by, once for all jobs.
ConclusionSound ==
    /\ LeftoversNeverVouched
    /\ FailureIsGenuine
    /\ SmokeJustified

\* When a job is over and nothing was raised every arm was observed.
LEMMA AllObserved ==
  ASSUME JobInv, step = "conclude", job.raised = FALSE
  PROVE  /\ DOMAIN observed = ArmsOf(job.kind)
         /\ \A arm \in ArmsOf(job.kind) :
               Replayed(observed[arm].replay) /\ observed[arm].turn \in BOOLEAN
         /\ \A arm \in alive : arm \in ArmsOf(job.kind) /\ ~Verified(observed[arm])
         /\ root \in {"gone", "left"}
BY DEF JobInv, ArmsInTurn, ObservationsSound, RootKept

\* A job that found nothing to hold against its arms leaves nothing behind.
LEMMA NothingLeft ==
  ASSUME JobInv, step = "conclude", job.raised = FALSE, root # "left",
         \A arm \in ArmsOf(job.kind) : Verified(observed[arm])
  PROVE  root = "gone" /\ alive = {}
BY AllObserved

\* An exception, or a status that vouches for nothing, needs no justification but
\* that the root was dealt with.
LEMMA UnvouchedSound ==
  ASSUME JobInv, NEW status, Over(status), job.raised = TRUE \/ status \notin CleanStatuses
  PROVE  ConclusionSound'
<1>1. step = "conclude" /\ job.raised \in BOOLEAN
  BY DEF Over, JobInv, JobPlaced, JobSound, Shaped
<1>2. outcome' = [status |-> IF job.raised THEN "raised" ELSE status, plan |-> job,
                  seen |-> observed, root |-> root, alive |-> alive]
  BY DEF Over
<1>3. outcome'.status \notin CleanStatuses
  BY <1>1, <1>2 DEF CleanStatuses
<1>4. \/ root \in {"gone", "left"}
      \/ /\ root = "abandoned" /\ job.raised = TRUE
         /\ DOMAIN observed = {} /\ alive = {}
  BY <1>1 DEF JobInv, RootKept
<1>5. LeftoversNeverVouched'
  BY <1>2, <1>3, <1>4 DEF LeftoversNeverVouched
<1>6. FailureIsGenuine' /\ SmokeJustified'
  BY <1>3 DEF FailureIsGenuine, SmokeJustified, CleanStatuses
<1> QED
  BY <1>5, <1>6 DEF ConclusionSound

\* What the three conclusions say is justified by the records kept.
LEMMA CaptureConcluded ==
  ASSUME JobInv, ConcludeCapture
  PROVE  ConclusionSound'
<1>1. step = "conclude" /\ job.kind = "capture" /\ JobSound(job) /\ job.raised \in BOOLEAN
      /\ CaptureShaped(job) /\ job.real \in BOOLEAN
  BY DEF ConcludeCapture, JobInv, JobPlaced, JobSound, Shaped
<1>2. PICK status \in CaptureEnds : Over(status)
  BY DEF ConcludeCapture
<1>3. CASE job.raised = TRUE \/ status = "raised"
  BY <1>2, <1>3, UnvouchedSound DEF CleanStatuses
<1>4. CASE job.raised = FALSE /\ status # "raised" /\ CaptureBlockers # {}
  <2>1. status = "capture_inconclusive"
    BY <1>2, <1>4 DEF CaptureEnds, CaptureStatus
  <2> QED
    BY <1>2, <2>1, UnvouchedSound DEF CleanStatuses
<1>5. CASE job.raised = FALSE /\ status # "raised" /\ CaptureBlockers = {}
  <2> DEFINE o == observed["baseline"]
             screened == ScreenReplay(o.replay)
  <2>1. ArmBlockers("baseline", job.real) = {} /\ root # "left" /\ CaptureEvaluation.result
        /\ CaptureEvaluation.verdict \in {"pass", "fail"}
    <3>1. "workspace_cleanup_failed" \notin CaptureBlockers
          /\ "scored_result_missing" \notin CaptureBlockers
          /\ "not_judged" \notin CaptureBlockers
      BY <1>5
    <3>2. ArmBlockers("baseline", job.real) = {}
      BY <1>5 DEF CaptureBlockers
    <3> QED
      BY <3>1, <3>2 DEF CaptureBlockers, UnscoredBlockers
  <2>2. Replayed(o.replay) /\ o.turn \in BOOLEAN
    BY <1>1, <1>5, AllObserved DEF ArmsOf
  <2>3. Verified(o) /\ (job.real => o.session # 0 /\ o.turn)
    BY <1>1, <2>1, <2>2, CleanArm
  <2>4. root = "gone" /\ alive = {}
    BY <1>1, <1>5, <2>1, <2>3, NothingLeft DEF ArmsOf
  <2>5. Replayed(screened)
    BY <2>2 DEF ScreenReplay, Replayed, Failure, NoOutput, ErrorClasses
  <2>6. CaptureEvaluation = Observe(screened, job.oracle, job.runner, job.config)
    BY DEF CaptureEvaluation
  <2>7. job.config.floors \in [DOMAIN job.config.floors -> {0, 1}]
        /\ job.config.safety \in BOOLEAN /\ job.config.privacy \in BOOLEAN
    BY <1>1 DEF CaptureShaped, Judged
  <2> HIDE DEF screened, o
  <2>8. /\ screened.ok /\ screened.output.readable
        /\ CaptureEvaluation.verdict =
              IF \/ Missed(job.config.floors, job.oracle, screened.output.right)
                 \/ Marked(job.config, screened.output.marks)
                 \/ Foreign(job.runner, job.config)
              THEN "fail" ELSE "pass"
    BY <2>1, <2>5, <2>6, <2>7, ScoredVerdict
  <2>9. screened = o.replay /\ "restricted" \notin o.replay.output.marks
    BY <2>2, <2>8 DEF ScreenReplay, screened, Failure, Replayed, Success
  <2>10. outcome'.status = IF CaptureEvaluation.verdict = "fail" THEN "qualified_failure"
                           ELSE "no_failure"
    <3>1. status = CaptureStatus
      BY <1>2, <1>5 DEF CaptureEnds
    <3> QED
      BY <1>2, <1>5, <3>1 DEF CaptureStatus, Over
  <2>11. outcome'.plan = job /\ outcome'.seen = observed /\ outcome'.root = "gone"
         /\ outcome'.alive = {}
    BY <1>2, <2>4 DEF Over
  <2>12. FailureIsGenuine'
    BY <2>3, <2>8, <2>9, <2>10, <2>11 DEF FailureIsGenuine, Missed, Marked, o
  <2>13. LeftoversNeverVouched'
    BY <2>11 DEF LeftoversNeverVouched
  <2>14. SmokeJustified'
    BY <2>10 DEF SmokeJustified
  <2> QED
    BY <2>12, <2>13, <2>14 DEF ConclusionSound
<1> QED
  BY <1>1, <1>3, <1>4, <1>5

\* An arm of a trial passes only with every demanded floor met and no forbidden
\* mark.
LEMMA TrialVerdict ==
  ASSUME NEW p, TrialShaped(p), NEW seen, NEW arm, Replayed(seen[arm].replay),
         TrialEvaluation(p, seen, arm).verdict = "pass"
  PROVE  /\ seen[arm].replay.ok
         /\ \A d \in DOMAIN p.config.floors :
               p.config.floors[d] = 1 => d \in seen[arm].replay.output.right
         /\ p.config.safety => "unsafe" \notin seen[arm].replay.output.marks
         /\ p.config.privacy => "private" \notin seen[arm].replay.output.marks
<1> DEFINE replay == seen[arm].replay
           right == replay.output.right \ {d \in {"skill_runtime"} : ~RuntimeMatches(p, seen, arm)}
           output == [right |-> right, marks |-> replay.output.marks,
                      readable |-> replay.output.readable]
           judged == [replay EXCEPT !.output = output]
           oracle == p.oracle \cup {"skill_runtime"}
<1>1. TrialEvaluation(p, seen, arm) = Observe(judged, oracle, p.runner, p.config)
  BY DEF TrialEvaluation
<1>2. /\ "output" \in DOMAIN replay
      /\ \/ replay.ok = TRUE /\ replay.error = "none" /\ replay.output.readable \in BOOLEAN
         \/ replay.ok = FALSE
  BY DEF Replayed
<1> HIDE DEF replay, right
<1>3. judged.ok = replay.ok /\ judged.error = replay.error /\ judged.output = output
      /\ "output" \in DOMAIN judged
  BY <1>2
<1>4. CASE replay.ok = FALSE
  <2> HIDE DEF judged
  <2>1. Observe(judged, oracle, p.runner, p.config).verdict = "error"
    BY <1>3, <1>4 DEF Observe, AssembleVerdict
  <2> QED
    BY <1>1, <2>1
<1>5. CASE replay.ok = TRUE /\ replay.error = "none" /\ replay.output.readable \in BOOLEAN
  <2>4. Replayed(judged)
    BY <1>3, <1>5 DEF Replayed
  <2>5. judged.output.right = right /\ judged.output.marks = replay.output.marks
    BY <1>3
  <2>6. p.config.floors \in [DOMAIN p.config.floors -> {0, 1}] /\ p.config.safety \in BOOLEAN
        /\ p.config.privacy \in BOOLEAN
    BY DEF TrialShaped, Judged
  <2> HIDE DEF judged
  <2>7. Observe(judged, oracle, p.runner, p.config).result
    <3> DEFINE scores == IF judged.ok THEN ScoreWithOracle(judged.output, oracle) ELSE Unscored
               gates == EvaluateGates(judged, scores, p.runner, p.config)
               e == Observe(judged, oracle, p.runner, p.config)
    <3>1. /\ e.result = (judged.ok /\ ~(judged.ok /\ scores = Unscored))
          /\ e.verdict = IF judged.ok /\ scores = Unscored THEN "error"
                         ELSE AssembleVerdict(judged, gates, scores)
      BY DEF Observe
    <3> HIDE DEF scores, gates
    <3> QED
      BY <1>1, <1>3, <1>5, <3>1
  <2>8. ~Missed(p.config.floors, oracle, right) /\ ~Marked(p.config, replay.output.marks)
    BY <1>1, <2>4, <2>5, <2>6, <2>7, ScoredVerdict
  <2>9. \A d \in DOMAIN p.config.floors :
            p.config.floors[d] = 1 => d \in replay.output.right
    BY <2>8 DEF Missed, right
  <2>10. /\ p.config.safety => "unsafe" \notin replay.output.marks
         /\ p.config.privacy => "private" \notin replay.output.marks
    BY <2>8 DEF Marked
  <2> QED
    BY <1>5, <2>9, <2>10 DEF replay
<1> QED
  BY <1>2, <1>4, <1>5

\* A proposal nothing is held against left nothing and its generator was whole.
LEMMA ProposalClean ==
  ASSUME JobInv, step = "conclude", job.kind = "proposal", job.raised = FALSE,
         ProposalBlockers = {}
  PROVE  /\ root = "gone" /\ alive = {}
         /\ Verified(observed["generator"]) /\ observed["generator"].replay.ok
         /\ job.real => observed["generator"].session # 0 /\ observed["generator"].turn
<1>1. ArmBlockers("generator", job.real) = {}
      /\ "workspace_cleanup_failed" \notin ProposalBlockers
      /\ "generation_failed" \notin ProposalBlockers
  BY DEF ProposalBlockers
<1>2. root # "left" /\ observed["generator"].replay.ok
  BY <1>1 DEF ProposalBlockers
<1>3. job.real \in BOOLEAN
  BY DEF JobInv, JobPlaced, JobSound, Shaped
<1>4. Verified(observed["generator"])
      /\ (job.real => observed["generator"].session # 0 /\ observed["generator"].turn)
  BY <1>1, <1>3, AllObserved, CleanArm DEF ArmsOf
<1>5. root = "gone" /\ alive = {}
  BY <1>2, <1>4, NothingLeft DEF ArmsOf
<1> QED
  BY <1>2, <1>4, <1>5

LEMMA ProposalConcluded ==
  ASSUME JobInv, ConcludeProposal
  PROVE  ConclusionSound'
<1>1. step = "conclude" /\ job.kind = "proposal" /\ job.raised \in BOOLEAN
  BY DEF ConcludeProposal, JobInv, JobPlaced, JobSound, Shaped
<1>2. PICK status : /\ Over(status)
                    /\ status = IF job.raised THEN "raised" ELSE ProposalStatus
  BY DEF ConcludeProposal
<1>3. CASE job.raised = TRUE \/ ProposalBlockers # {}
  <2>1. status \in {"raised", "proposal_inconclusive"}
    BY <1>1, <1>2, <1>3 DEF ProposalStatus
  <2> QED
    BY <1>2, <2>1, UnvouchedSound DEF CleanStatuses
<1>4. CASE job.raised = FALSE /\ ProposalBlockers = {}
  <2>1. outcome'.status \in {"proposal_ready", "proposal_rejected"}
        /\ outcome'.root = root /\ outcome'.alive = alive
    BY <1>2, <1>4 DEF Over, ProposalStatus
  <2>2. LeftoversNeverVouched'
    BY <1>1, <1>4, <2>1, ProposalClean DEF LeftoversNeverVouched
  <2>3. FailureIsGenuine' /\ SmokeJustified'
    BY <2>1 DEF FailureIsGenuine, SmokeJustified
  <2> QED
    BY <2>2, <2>3 DEF ConclusionSound
<1> QED
  BY <1>1, <1>3, <1>4

LEMMA TrialConcluded ==
  ASSUME JobInv, ConcludeTrial
  PROVE  ConclusionSound'
<1>1. step = "conclude" /\ job.kind = "trial" /\ TrialShaped(job) /\ job.raised \in BOOLEAN
      /\ job.real \in BOOLEAN
  BY DEF ConcludeTrial, JobInv, JobPlaced, JobSound, Shaped
<1>2. outcome' = [status |-> IF job.raised THEN "raised" ELSE TrialStatus(job, observed),
                  plan |-> job, seen |-> observed, root |-> root, alive |-> alive]
  <2>1. Over(IF job.raised THEN "raised" ELSE TrialStatus(job, observed))
    BY DEF ConcludeTrial
  <2> QED
    BY <2>1 DEF Over
<1>3. TrialStatus(job, observed) \in {"smoke_completed", "smoke_rejected", "smoke_inconclusive"}
  BY DEF TrialStatus
<1>4. outcome'.status \in {"raised", "smoke_completed", "smoke_rejected", "smoke_inconclusive"}
  BY <1>1, <1>2, <1>3
<1>5. FailureIsGenuine'
  BY <1>4 DEF FailureIsGenuine
<1>6. CASE job.raised = TRUE \/ TrialBlockers(job, observed) # {}
  <2>1. PICK status : /\ Over(status)
                      /\ status = IF job.raised THEN "raised" ELSE TrialStatus(job, observed)
    BY DEF ConcludeTrial
  <2>2. job.raised = TRUE \/ status \in {"smoke_rejected", "smoke_inconclusive"}
    BY <1>1, <1>6, <2>1 DEF TrialStatus
  <2> QED
    BY <2>1, <2>2, UnvouchedSound DEF CleanStatuses
<1>7. CASE job.raised = FALSE /\ TrialBlockers(job, observed) = {}
  <2>1. DOMAIN observed = {"baseline", "candidate"}
        /\ \A arm \in DOMAIN observed :
              Replayed(observed[arm].replay) /\ observed[arm].turn \in BOOLEAN
    BY <1>1, <1>7, AllObserved DEF ArmsOf
  <2>2. \A arm \in DOMAIN observed : ArmBlockers(arm, job.real) = {}
    BY <1>7 DEF TrialBlockers
  <2>3. /\ root # "left"
        /\ \A arm \in DOMAIN observed : RuntimeMatches(job, observed, arm)
        /\ \A arm \in DOMAIN observed : TrialEvaluation(job, observed, arm).verdict = "pass"
        /\ ~(/\ job.real /\ ~SessionsDistinct(observed)
             /\ \A arm \in DOMAIN observed : observed[arm].session # 0)
    <3>1. PairBlockers(job, observed) = {}
      BY <1>7 DEF TrialBlockers
    <3>2. "workspace_cleanup_failed" \notin PairBlockers(job, observed)
          /\ "runtime" \notin PairBlockers(job, observed)
          /\ "result" \notin PairBlockers(job, observed)
          /\ "sessions" \notin PairBlockers(job, observed)
      BY <3>1
    <3> QED
      BY <3>2 DEF PairBlockers
  <2>5. \A arm \in DOMAIN observed : observed[arm].loaded = RuntimeExpectation(job, arm)
    BY <2>3 DEF RuntimeMatches
  <2>7. \A arm \in DOMAIN observed :
            Verified(observed[arm])
            /\ (job.real => observed[arm].session # 0 /\ observed[arm].turn)
    BY <1>1, <2>1, <2>2, CleanArm
  <2>8. job.real => observed["baseline"].session # observed["candidate"].session
    BY <1>1, <2>1, <2>3, <2>7 DEF SessionsDistinct
  <2>9. root = "gone" /\ alive = {}
    BY <1>1, <1>7, <2>1, <2>3, <2>7, NothingLeft DEF ArmsOf
  <2>10. ASSUME NEW arm \in DOMAIN observed
         PROVE  /\ observed[arm].replay.ok
                /\ \A d \in DOMAIN job.config.floors :
                      job.config.floors[d] = 1 => d \in observed[arm].replay.output.right
                /\ job.config.safety => "unsafe" \notin observed[arm].replay.output.marks
                /\ job.config.privacy => "private" \notin observed[arm].replay.output.marks
    BY <1>1, <2>1, <2>3, TrialVerdict
  <2>11. outcome'.plan = job /\ outcome'.seen = observed /\ outcome'.root = "gone"
         /\ outcome'.alive = {}
    BY <1>2, <2>9
  <2>12. LeftoversNeverVouched'
    BY <2>11 DEF LeftoversNeverVouched
  <2>13. SmokeJustified'
    <3>1. job.expectLoaded \in BOOLEAN
      BY <1>1 DEF TrialShaped
    <3>2. observed["baseline"].loaded = "none"
          /\ (observed["candidate"].loaded = "candidate" <=> job.expectLoaded)
      BY <2>1, <2>5, <3>1 DEF RuntimeExpectation
    <3> QED
      BY <2>1, <2>7, <2>8, <2>10, <2>11, <3>2 DEF SmokeJustified
  <2> QED
    BY <1>5, <2>12, <2>13 DEF ConclusionSound
<1> QED
  BY <1>1, <1>6, <1>7

\* Every step of the pipeline keeps ConclusionSound.
LEMMA ConclusionStep == JobInv /\ ConclusionSound /\ [Next]_vars => ConclusionSound'
<1> SUFFICES ASSUME JobInv, ConclusionSound, [Next]_vars PROVE ConclusionSound'
  OBVIOUS
<1>1. ASSUME UNCHANGED outcome PROVE ConclusionSound'
  BY <1>1 DEF ConclusionSound, LeftoversNeverVouched, FailureIsGenuine, SmokeJustified
<1>2. ASSUME outcome' = NoOutcome PROVE ConclusionSound'
  BY <1>2 DEF ConclusionSound, LeftoversNeverVouched, FailureIsGenuine, SmokeJustified, NoOutcome
<1>3. CASE StepJob
  BY <1>1, <1>2, <1>3 DEF StepJob, Prepare, Execute, CleanUp, Taken
<1>4. CASE Capturing
  BY <1>1, <1>4, CaptureConcluded DEF Capturing, BeginCapture, Begin
<1>5. CASE Proposing
  BY <1>1, <1>5, ProposalConcluded DEF Proposing, BeginProposal, Begin
<1>6. CASE Trying
  BY <1>6, TrialConcluded DEF Trying
<1>7. CASE ToTrial
  BY <1>1, <1>7 DEF ToTrial, BeginTrial, Begin
<1>8. CASE ToProposal \/ ToReview \/ ToSuite \/ Collecting
  BY <1>1, <1>8 DEF ToProposal, ToReview, Fresh, ToSuite, Collecting, candidateVars, callVars
<1>9. CASE Reviewing \/ Contexts \/ Suiting \/ Evaluating \/ Tracing
  BY <1>1, <1>9 DEF Reviewing, Contexts, Desk, Suiting, Evaluating, Tracing, candidateVars, callVars
<1>10. CASE UNCHANGED vars
  BY <1>1, <1>10 DEF vars, candidateVars, callVars
<1> QED
  BY <1>3, <1>4, <1>5, <1>6, <1>7, <1>8, <1>9, <1>10 DEF Next

LEMMA JobInvAlways == Spec => [](JobInv /\ ConclusionSound)
<1>1. Init => JobInv /\ ConclusionSound
  BY JobInit DEF Init, CandidateInit, CallInit, ConclusionSound, LeftoversNeverVouched,
     FailureIsGenuine, SmokeJustified, NoOutcome
<1>2. (JobInv /\ ConclusionSound) /\ [Next]_vars => (JobInv /\ ConclusionSound)'
  BY JobStep, ConclusionStep
<1> QED
  BY <1>1, <1>2, PTL DEF Spec

\* However an agent job ends, its temporary root was dealt with first, and no
\* status that vouches for the run is drawn over a directory or a process left
\* behind (the _safe_cleanup calls and the blockers of the three job runners).
THEOREM NothingVouchedOverLeftovers == Spec => []LeftoversNeverVouched
BY JobInvAlways, PTL DEF ConclusionSound

\* A captured failure comes from a scored run that left no process and no
\* directory, was whole and really fails a gate, and such a run is never called free of failure
\* (public_failure_capture.capture_public_agent_failure).
THEOREM FailuresAreGenuine == Spec => []FailureIsGenuine
BY JobInvAlways, PTL DEF ConclusionSound

\* A completed smoke is backed by both arms: the runtime was the one expected of
\* each, both met every floor and no forbidden pattern, no process and no directory
\* is left, and real agents ended turns in two sessions
\* (agent_forward_trial.run_agent_skill_forward_trial).
THEOREM SmokesAreJustified == Spec => []SmokeJustified
BY JobInvAlways, PTL DEF ConclusionSound

-----------------------------------------------------------------------------
(* What a proposal hands over. *)

\* Four records that pin each other, built from eligible and independent cases.
LEMMA HandedRecords ==
  ASSUME NEW p, NEW draft, ProposalShaped(p), Buildable(p, draft),
         NEW h, h = Handed(p, draft)
  PROVE  /\ h["manifest"].cases = p.cases /\ Cardinality(p.cases) >= 2
         /\ \A c \in p.cases : p.sources[c].eligible
         /\ \A c, d \in p.cases : c # d =>
               \A f \in LineageFields : p.sources[c].lineage[f] # p.sources[d].lineage[f]
         /\ h["closure"].manifest = h["manifest"]
         /\ h["eligibility"].closure = h["closure"]
         /\ h["eligibility"].outcome = "eligible_for_payload_drafting"
         /\ h["bundle"].eligibility = h["eligibility"]
         /\ \E n \in DOMAIN h["manifest"].members :
               /\ h["manifest"].members[n].role = "patch"
               /\ h["manifest"].members[n].content = h["bundle"].payload.name
         /\ h["bundle"].drafter \notin {h["manifest"].author, h["manifest"].reviewer,
                                        h["eligibility"].assessor}
<1> DEFINE m == BuiltManifest(p, draft)
           c == BuiltClosure(p, draft)
           e == BuiltEligibility(p, draft)
           b == Bundle(e, BuiltDraft(p, draft))
<1>1. h["manifest"] = m /\ h["closure"] = c /\ h["eligibility"] = e /\ h["bundle"] = b
  BY DEF Handed, Families
<1>2. Cardinality(p.cases) \in 2 .. 6
  BY DEF ProposalShaped, Proposable
<1>3. m.cases = p.cases /\ m.author = p.principals["author"]
      /\ m.reviewer = p.principals["reviewer"] /\ m.members = BuiltMembers(p, draft)
  BY DEF BuiltManifest
<1>4. c.manifest = m
  BY DEF BuiltClosure, Closure
<1>5. e.closure = c /\ e.assessor = p.principals["assessor"]
  BY DEF BuiltEligibility, Eligibility, BuiltAssessment
<1>6. e.outcome = "eligible_for_payload_drafting"
  BY DEF Buildable, Draftable
<1>7. b.eligibility = e /\ b.drafter = p.principals["drafter"] /\ b.payload = draft.payload
  BY DEF Bundle, BuiltDraft
<1>8. \A x, y \in p.cases : x # y =>
         \A f \in LineageFields : p.sources[x].lineage[f] # p.sources[y].lineage[f]
  <2> SUFFICES ASSUME NEW x \in p.cases, NEW y \in p.cases, x # y, NEW f \in LineageFields
               PROVE  p.sources[x].lineage[f] # p.sources[y].lineage[f]
    OBVIOUS
  <2> DEFINE lineage == [k \in p.cases |-> p.sources[k].lineage]
             values == [k \in DOMAIN lineage |-> lineage[k][f]]
  <2>1. ~Collides(lineage)
    BY DEF ProposalShaped, Proposable
  <2>2. IsInjective(values)
    BY <2>1 DEF Collides
  <2>3. DOMAIN values = p.cases /\ values[x] = p.sources[x].lineage[f]
        /\ values[y] = p.sources[y].lineage[f]
    OBVIOUS
  <2> QED
    BY <2>2, <2>3 DEF IsInjective
<1>9. \E n \in DOMAIN m.members : m.members[n].role = "patch"
                                  /\ m.members[n].content = b.payload.name
  <2>1. 3 \in 1 .. 5 + Cardinality(p.cases)
    BY <1>2
  <2>2. 3 \in DOMAIN m.members /\ m.members[3].role = "patch"
        /\ m.members[3].content = draft.payload.name
    BY <1>3, <2>1 DEF BuiltMembers
  <2> QED
    BY <1>7, <2>2
<1>10. b.drafter \notin {m.author, m.reviewer, e.assessor}
  <2>1. IsInjective(p.principals)
        /\ DOMAIN p.principals = {"author", "reviewer", "assessor", "drafter"}
    BY DEF ProposalShaped, Proposable
  <2>2. \A x \in {"author", "reviewer", "assessor"} : p.principals[x] # p.principals["drafter"]
    BY <2>1 DEF IsInjective
  <2> QED
    BY <1>3, <1>5, <1>7, <2>2
<1>11. \A k \in p.cases : p.sources[k].eligible
  BY DEF ProposalShaped, Proposable
<1> HIDE DEF m, c, e, b
<1> QED
  BY <1>1, <1>2, <1>3, <1>4, <1>5, <1>6, <1>7, <1>8, <1>9, <1>10, <1>11

\* A ready proposal is taken in the stage that made it.
ProposalKept ==
    /\ ReadyGrounded
    /\ outcome.status = "proposal_ready" => stage = "proposal"

\* The conclusion of a proposal keeps ProposalKept.
LEMMA ProposalReady ==
  ASSUME JobInv, ProposalKept, stage' = stage, ConcludeProposal
  PROVE  ProposalKept'
<1>1. step = "conclude" /\ job.kind = "proposal" /\ job.raised \in BOOLEAN
      /\ stage = "proposal" /\ ProposalShaped(job)
  BY DEF ConcludeProposal, JobInv, JobPlaced, JobSound, Shaped
<1>2. outcome' = [status |-> IF job.raised THEN "raised" ELSE ProposalStatus, plan |-> job,
                  seen |-> observed, root |-> root, alive |-> alive]
  <2>1. Over(IF job.raised THEN "raised" ELSE ProposalStatus)
    BY DEF ConcludeProposal
  <2> QED
    BY <2>1 DEF Over
<1>3. CASE job.raised = TRUE \/ ProposalStatus # "proposal_ready"
  <2>1. outcome'.status # "proposal_ready"
    BY <1>1, <1>2, <1>3
  <2> QED
    BY <2>1 DEF ProposalKept, ReadyGrounded
<1>4. CASE job.raised = FALSE /\ ProposalStatus = "proposal_ready"
  <2> DEFINE draft == observed["generator"].replay.output.draft
  <2>1. Buildable(job, draft)
    BY <1>4 DEF ProposalStatus
  <2>2. desk' = Handed(job, draft) /\ outcome'.plan = job /\ outcome'.seen = observed
        /\ outcome'.root = root /\ outcome'.alive = alive
    BY <1>2, <1>4 DEF ConcludeProposal
  <2>3. ProposalBlockers = {}
    BY <1>4 DEF ProposalStatus
  <2> HIDE DEF draft
  <2>4. ReadyGrounded'
    <3>1. PICK p, h : p = job /\ h = desk'
      OBVIOUS
    <3>2. ProposalShaped(p) /\ Buildable(p, draft) /\ h = Handed(p, draft)
      BY <1>1, <2>1, <2>2, <3>1
    <3>3. /\ h["manifest"].cases = p.cases /\ Cardinality(p.cases) >= 2
          /\ \A c \in p.cases : p.sources[c].eligible
          /\ \A c, d \in p.cases : c # d =>
                \A f \in LineageFields : p.sources[c].lineage[f] # p.sources[d].lineage[f]
          /\ h["closure"].manifest = h["manifest"]
          /\ h["eligibility"].closure = h["closure"]
          /\ h["eligibility"].outcome = "eligible_for_payload_drafting"
          /\ h["bundle"].eligibility = h["eligibility"]
          /\ \E n \in DOMAIN h["manifest"].members :
                /\ h["manifest"].members[n].role = "patch"
                /\ h["manifest"].members[n].content = h["bundle"].payload.name
          /\ h["bundle"].drafter \notin {h["manifest"].author, h["manifest"].reviewer,
                                         h["eligibility"].assessor}
      BY <3>2, HandedRecords
    <3>4. /\ root = "gone" /\ alive = {}
          /\ Verified(observed["generator"]) /\ observed["generator"].replay.ok
          /\ p.real => observed["generator"].session # 0 /\ observed["generator"].turn
      BY <1>1, <1>4, <2>3, <3>1, ProposalClean
    <3> QED
      BY <2>2, <3>1, <3>3, <3>4 DEF ReadyGrounded
  <2> QED
    BY <1>1, <2>4 DEF ProposalKept
<1> QED
  BY <1>1, <1>3, <1>4

\* Every step of the pipeline keeps ProposalKept.
LEMMA ProposalStep == JobInv /\ ProposalKept /\ [Next]_vars => ProposalKept'
<1> SUFFICES ASSUME JobInv, ProposalKept, [Next]_vars PROVE ProposalKept'
  OBVIOUS
<1>1. ASSUME UNCHANGED <<outcome, desk, captured, stage>> PROVE ProposalKept'
  BY <1>1 DEF ProposalKept, ReadyGrounded
<1>2. ASSUME outcome'.status # "proposal_ready" PROVE ProposalKept'
  BY <1>2 DEF ProposalKept, ReadyGrounded
<1>3. NoOutcome.status = "none"
  BY DEF NoOutcome
<1>4. stage # "proposal" => outcome.status # "proposal_ready"
  BY DEF ProposalKept
<1>5. CASE StepJob
  BY <1>1, <1>2, <1>3, <1>5 DEF StepJob, Jobs, reviewVars, Prepare, Execute, CleanUp, Taken
<1>6. CASE Capturing
  <2>1. ASSUME NEW p, BeginCapture(p) PROVE ProposalKept'
    BY <1>2, <1>3, <2>1 DEF BeginCapture, Begin
  <2>2. ASSUME ConcludeCapture PROVE ProposalKept'
    <3>1. CaptureStatus \in {"capture_inconclusive", "qualified_failure", "no_failure"}
      BY DEF CaptureStatus
    <3>2. outcome'.status \in {"raised", CaptureStatus}
      BY <2>2, <3>1 DEF ConcludeCapture, CaptureEnds, Over
    <3> QED
      BY <1>2, <3>1, <3>2
  <2> QED
    BY <1>6, <2>1, <2>2 DEF Capturing
<1>7. CASE Proposing
  <2>1. ASSUME NEW p, BeginProposal(p) PROVE ProposalKept'
    BY <1>2, <1>3, <2>1 DEF BeginProposal, Begin
  <2> QED
    BY <1>7, <2>1, ProposalReady DEF Proposing, Jobs
<1>8. CASE Trying
  <2>1. TrialStatus(job, observed) \in {"smoke_completed", "smoke_rejected", "smoke_inconclusive"}
    BY DEF TrialStatus
  <2>2. outcome'.status \in {"raised", TrialStatus(job, observed)}
    BY <1>8 DEF Trying, ConcludeTrial, Over
  <2> QED
    BY <1>2, <2>1, <2>2
<1>9. CASE ToProposal \/ ToReview
  BY <1>2, <1>3, <1>9 DEF ToProposal, ToReview, Fresh, callVars
<1>10. CASE ToTrial \/ ToSuite
  BY <1>2, <1>4, <1>10 DEF ToTrial, ToSuite, HandOver, BeginTrial, Begin, callVars
<1>11. CASE Reviewing \/ Contexts
  BY <1>2, <1>4, <1>11 DEF Reviewing, Contexts, Desk, callVars
<1>12. CASE Suiting \/ Collecting \/ Evaluating \/ Tracing
  BY <1>1, <1>2, <1>4, <1>12 DEF Suiting, Collecting, Evaluating, Tracing, candidateVars, callVars,
     reviewVars
<1>13. CASE UNCHANGED vars
  BY <1>1, <1>13 DEF vars, candidateVars, callVars, reviewVars
<1> QED
  BY <1>5, <1>6, <1>7, <1>8, <1>9, <1>10, <1>11, <1>12, <1>13 DEF Next

\* A job's end changes the records of the family it vouches for, and no others.
LEMMA EndStep == JobInv /\ [Next]_vars => EndKeepsRecords
<1> SUFFICES ASSUME JobInv, [Next]_vars, outcome = NoOutcome, outcome' # NoOutcome
             PROVE  /\ outcome'.status # "proposal_ready" => UNCHANGED reviewVars
                    /\ outcome'.status # "qualified_failure" => UNCHANGED captured
  BY DEF EndKeepsRecords
<1>1. CASE StepJob
  BY <1>1 DEF StepJob
<1>2. CASE Capturing
  <2>1. reviewVars' = reviewVars
    BY <1>2 DEF Capturing, BeginCapture, ConcludeCapture
  <2>2. ASSUME NEW p, BeginCapture(p) PROVE FALSE
    BY <2>2 DEF BeginCapture, Begin
  <2>3. ASSUME ConcludeCapture, outcome'.status # "qualified_failure" PROVE captured' = captured
    <3>1. PICK status \in CaptureEnds :
              /\ captured' = IF status = "qualified_failure" THEN FailureChain ELSE captured
              /\ Over(status)
      BY <2>3 DEF ConcludeCapture
    <3>2. job.raised \in BOOLEAN
      BY <2>3 DEF ConcludeCapture, JobInv, JobPlaced, JobSound, Shaped
    <3>3. CASE job.raised = TRUE
      BY <3>1, <3>3 DEF CaptureEnds
    <3>4. CASE job.raised = FALSE
      BY <2>3, <3>1, <3>4 DEF Over
    <3> QED
      BY <3>2, <3>3, <3>4
  <2> QED
    BY <1>2, <2>1, <2>2, <2>3 DEF Capturing
<1>3. CASE Proposing
  <2>1. ASSUME NEW p, BeginProposal(p) PROVE FALSE
    BY <2>1 DEF BeginProposal, Begin
  <2>2. ASSUME ConcludeProposal, outcome'.status # "proposal_ready" PROVE desk' = desk
    <3>1. Over(IF job.raised THEN "raised" ELSE ProposalStatus)
      BY <2>2 DEF ConcludeProposal
    <3>2. job.raised \in BOOLEAN
      BY <2>2 DEF ConcludeProposal, JobInv, JobPlaced, JobSound, Shaped
    <3>3. CASE job.raised = TRUE
      BY <2>2, <3>3 DEF ConcludeProposal
    <3>4. CASE job.raised = FALSE
      BY <2>2, <3>1, <3>4 DEF ConcludeProposal, Over
    <3> QED
      BY <3>2, <3>3, <3>4
  <2>3. ASSUME ConcludeProposal PROVE context' = context /\ captured' = captured
    BY <2>3 DEF ConcludeProposal
  <2> QED
    BY <1>3, <2>1, <2>2, <2>3 DEF Proposing, reviewVars
<1>4. CASE Trying
  BY <1>4 DEF Trying
<1>5. CASE ToTrial
  BY <1>5 DEF ToTrial, BeginTrial, Begin
<1>6. CASE ToProposal \/ ToReview \/ ToSuite
  BY <1>6 DEF ToProposal, ToReview, Fresh, ToSuite, callVars
<1>7. CASE Reviewing \/ Contexts \/ Suiting \/ Collecting \/ Evaluating \/ Tracing
  BY <1>7 DEF Reviewing, Contexts, Desk, Suiting, Collecting, Evaluating, Tracing,
     candidateVars, callVars
<1>8. CASE UNCHANGED vars
  BY <1>8 DEF vars, candidateVars, callVars
<1> QED
  BY <1>1, <1>2, <1>3, <1>4, <1>5, <1>6, <1>7, <1>8 DEF Next

\* A ready proposal comes from a clean, whole run, rests on two or more eligible and
\* independent failures, is drafted by a fourth principal and hands over four
\* records that pin each other; whatever else a job ends in, an exception, a
\* rejection or an inconclusive run, hands over nothing
\* (skill_candidate_proposal._build_candidate, propose_skill_candidate).
THEOREM ProposalsAreGrounded == Spec => ProposalGrounded
<1>1. Init => ProposalKept
  BY DEF Init, CandidateInit, CallInit, NoOutcome, ProposalKept, ReadyGrounded
<1>2. (JobInv /\ ProposalKept) /\ [Next]_vars => ProposalKept'
  BY ProposalStep
<1>3. JobInv /\ [Next]_vars => [EndKeepsRecords]_candidateVars
  BY EndStep
<1>4. ProposalKept => ReadyGrounded
  BY DEF ProposalKept
<1> QED
  BY <1>1, <1>2, <1>3, <1>4, JobInvAlways, PTL DEF Spec, ProposalGrounded

-----------------------------------------------------------------------------
(* What lies on the desk, whatever was remade and in whatever order.  Each *)
(* record is sound with what it pins, and nothing is said of whether two   *)
(* records on the desk belong together: only the pins decide that.         *)

SoundManifest(m) ==
    /\ m.author # m.reviewer
    /\ \A source \in Sources(m) : m.lifecycle[source] = "current"

SoundClosure(c) == SoundManifest(c.manifest)

SoundEligibility(e) ==
    SoundClosure(e.closure) /\ e.assessor # e.closure.manifest.author

SoundBundle(b) ==
    SoundEligibility(b.eligibility) /\ b.eligibility.outcome = "eligible_for_payload_drafting"

\* No installed skill has the name or answers to a trigger, however written.
Unclaimed(b) ==
    /\ Normals(b.triggers) \cap Normals(Registry) = {}
    /\ Normal(b.skill) \notin Normals(Installed)

SoundStatic(s) == s.outcome = "static_pass" => Unclaimed(s.bundle)

SoundSemantic(s) ==
    s.outcome = "protocol_accept" =>
        /\ ~s.shared
        /\ s.static.outcome = "static_pass" /\ s.static.bundle = s.bundle
        /\ s.reviewer \notin {s.bundle.drafter, s.static.validator}

DeskInv ==
    /\ DOMAIN desk = Families
    /\ Has("closure") => SoundClosure(desk["closure"])
    /\ Has("eligibility") => SoundEligibility(desk["eligibility"])
    /\ Has("bundle") => SoundBundle(desk["bundle"])
    /\ Has("static") => SoundStatic(desk["static"])
    /\ Has("semantic") => SoundSemantic(desk["semantic"])

\* What each constructor of the review makes is what DeskInv says of it.
LEMMA ClosableSound ==
  ASSUME NEW m, NEW bytes, Closable(m, bytes)
  PROVE  SoundManifest(m) /\ SoundClosure(Closure(m))
BY DEF Closable, WellFormed, SoundManifest, SoundClosure, Closure

LEMMA EligibilitySound ==
  ASSUME NEW m, NEW c, NEW a, Assessable(m, c, a), SoundClosure(c)
  PROVE  SoundEligibility(Eligibility(c, a))
BY DEF Assessable, SoundEligibility, Eligibility

LEMMA BundleSound ==
  ASSUME NEW e, NEW d, SoundEligibility(e), Draftable(e, d)
  PROVE  SoundBundle(Bundle(e, d))
BY DEF Draftable, SoundBundle, Bundle

LEMMA StaticSound ==
  ASSUME NEW b, NEW v
  PROVE  SoundStatic(StaticReceipt(b, v))
<1>1. StaticReceipt(b, v).bundle = b
      /\ (StaticReceipt(b, v).outcome = "static_pass" => StaticBlockers(b, v) = {})
  BY DEF StaticReceipt
<1>2. StaticBlockers(b, v) = {} => Unclaimed(b)
  <2> SUFFICES ASSUME ~Unclaimed(b)
               PROVE  "registry_collision" \in StaticBlockers(b, v)
    OBVIOUS
  <2> QED
    BY DEF StaticBlockers, Unclaimed
<1> QED
  BY <1>1, <1>2 DEF SoundStatic

LEMMA SemanticSound ==
  ASSUME NEW b, NEW s, NEW r
  PROVE  SoundSemantic(SemanticAttestation(b, s, r))
<1> DEFINE said == SemanticAttestation(b, s, r)
<1>1. said.bundle = b /\ said.static = s /\ said.reviewer = r.reviewer
      /\ said.shared = r.shared
      /\ (said.outcome = "protocol_accept" => SemanticBlockers(b, s, r) = {})
  BY DEF SemanticAttestation
<1>2. ASSUME SemanticBlockers(b, s, r) = {}
      PROVE  /\ ~r.shared
             /\ s.outcome = "static_pass" /\ s.bundle = b
             /\ r.reviewer \notin {b.drafter, s.validator}
  <2>1. "static_not_passed" \notin SemanticBlockers(b, s, r)
        /\ "reviewer_not_separate" \notin SemanticBlockers(b, s, r)
    BY <1>2
  <2>2. s.outcome = "static_pass" /\ s.bundle = b
    BY <2>1 DEF SemanticBlockers
  <2>3. ~r.shared /\ r.reviewer \notin {b.drafter, s.validator}
    BY <2>1 DEF SemanticBlockers
  <2> QED
    BY <2>2, <2>3
<1> HIDE DEF said
<1>3. SoundSemantic(said)
  BY <1>1, <1>2 DEF SoundSemantic
<1> QED
  BY <1>3 DEF said

\* One record made anew leaves the others as they are.
LEMMA DeskKept ==
  ASSUME DeskInv, NEW family \in Families, NEW record,
         desk' = [desk EXCEPT ![family] = record],
         family = "closure" => SoundClosure(record),
         family = "eligibility" => SoundEligibility(record),
         family = "bundle" => SoundBundle(record),
         family = "static" => SoundStatic(record),
         family = "semantic" => SoundSemantic(record)
  PROVE  DeskInv'
<1>1. DOMAIN desk' = Families /\ desk'[family] = record
      /\ \A f \in Families : f # family => desk'[f] = desk[f]
  BY DEF DeskInv
<1> QED
  BY <1>1 DEF DeskInv, Has, Families

\* So is what a proposal puts on the desk.
LEMMA HandedSound ==
  ASSUME DeskInv, NEW p, NEW draft, Buildable(p, draft), desk' = Handed(p, draft)
  PROVE  DeskInv'
<1> DEFINE m == BuiltManifest(p, draft)
           c == BuiltClosure(p, draft)
           e == BuiltEligibility(p, draft)
           b == Bundle(e, BuiltDraft(p, draft))
<1>1. SoundClosure(c)
  BY ClosableSound DEF Buildable, BuiltClosure
<1>2. SoundEligibility(e)
  BY <1>1, EligibilitySound DEF Buildable, BuiltEligibility
<1>3. SoundBundle(b)
  BY <1>2, BundleSound DEF Buildable
<1>4. DOMAIN desk' = Families /\ desk'["closure"] = c /\ desk'["eligibility"] = e
      /\ desk'["bundle"] = b /\ desk'["static"] = desk["static"]
      /\ desk'["semantic"] = desk["semantic"]
  BY DEF Handed, Families
<1> HIDE DEF c, e, b
<1> QED
  BY <1>1, <1>2, <1>3, <1>4 DEF DeskInv, Has

\* Every step of the pipeline keeps DeskInv.
LEMMA DeskStep == JobInv /\ DeskInv /\ [Next]_vars => DeskInv'
<1> SUFFICES ASSUME JobInv, DeskInv, [Next]_vars PROVE DeskInv'
  OBVIOUS
<1>1. ASSUME UNCHANGED desk PROVE DeskInv'
  BY <1>1 DEF DeskInv, Has
<1>2. CASE StepJob \/ Capturing \/ Trying
  BY <1>1, <1>2 DEF StepJob, Capturing, Trying, BeginCapture, ConcludeCapture, reviewVars
<1>3. CASE Proposing
  <2>1. ASSUME NEW p, BeginProposal(p) PROVE DeskInv'
    BY <1>1, <2>1 DEF BeginProposal, reviewVars
  <2>2. ASSUME ConcludeProposal PROVE DeskInv'
    <3> DEFINE draft == observed["generator"].replay.output.draft
    <3>1. CASE job.raised \/ ProposalStatus # "proposal_ready"
      BY <1>1, <2>2, <3>1 DEF ConcludeProposal
    <3>2. CASE ~job.raised /\ ProposalStatus = "proposal_ready"
      <4>1. Buildable(job, draft)
        BY <3>2 DEF ProposalStatus
      <4>2. desk' = Handed(job, draft)
        BY <2>2, <3>2 DEF ConcludeProposal
      <4> QED
        BY <4>1, <4>2, HandedSound
    <3> QED
      BY <3>1, <3>2
  <2> QED
    BY <1>3, <2>1, <2>2 DEF Proposing
<1>4. CASE Reviewing
  <2>1. ASSUME NEW m, Declare(m) PROVE DeskInv'
    BY <2>1, DeskKept DEF Declare, Families
  <2>2. ASSUME NEW bytes, Close(bytes) PROVE DeskInv'
    <3>1. SoundClosure(Closure(desk["manifest"]))
      BY <2>2, ClosableSound DEF Close
    <3> QED
      BY <2>2, <3>1, DeskKept DEF Close, Families
  <2>3. ASSUME NEW a, Assess(a) PROVE DeskInv'
    <3>1. SoundEligibility(Eligibility(desk["closure"], a))
      BY <2>3, EligibilitySound DEF Assess, DeskInv
    <3> QED
      BY <2>3, <3>1, DeskKept DEF Assess, Families
  <2>4. ASSUME NEW d, Draft(d) PROVE DeskInv'
    <3>1. SoundBundle(Bundle(desk["eligibility"], d))
      BY <2>4, BundleSound DEF Draft, DeskInv
    <3> QED
      BY <2>4, <3>1, DeskKept DEF Draft, Families
  <2>5. ASSUME NEW v, ValidateStatically(v) PROVE DeskInv'
    BY <2>5, StaticSound, DeskKept DEF ValidateStatically, Families
  <2>6. ASSUME NEW r, ReviewSemantically(r) PROVE DeskInv'
    BY <2>6, SemanticSound, DeskKept DEF ReviewSemantically, Families
  <2>7. ASSUME NEW bytes, NEW artifacts, CloseEnvelope(bytes, artifacts) PROVE DeskInv'
    BY <2>7, DeskKept DEF CloseEnvelope, Families
  <2> QED
    BY <1>4, <2>1, <2>2, <2>3, <2>4, <2>5, <2>6, <2>7 DEF Reviewing
<1>5. CASE Contexts
  BY <1>1, <1>5 DEF Contexts, PrepareContext
<1>6. CASE ToTrial \/ ToSuite
  <2>1. desk' = [f \in Families |-> NoRecord]
    BY <1>6 DEF ToTrial, ToSuite, HandOver
  <2> QED
    BY <2>1 DEF DeskInv, Has, Families
<1>7. CASE ToProposal \/ ToReview \/ Suiting \/ Collecting \/ Evaluating \/ Tracing
  BY <1>1, <1>7 DEF ToProposal, ToReview, Suiting, Collecting, Evaluating, Tracing,
     candidateVars, reviewVars
<1>8. CASE UNCHANGED vars
  BY <1>1, <1>8 DEF vars, candidateVars, reviewVars
<1> QED
  BY <1>2, <1>3, <1>4, <1>5, <1>6, <1>7, <1>8 DEF Next

LEMMA DeskInvAlways == Spec => []DeskInv
<1>1. Init => DeskInv
  BY DEF Init, CandidateInit, ReviewInit, DeskInv, Has, Families
<1>2. (JobInv /\ DeskInv) /\ [Next]_vars => DeskInv'
  BY DeskStep
<1> QED
  BY <1>1, <1>2, JobInvAlways, PTL DEF Spec

-----------------------------------------------------------------------------
(* On what arms start. *)

\* The records of one candidate, reviewed and accepted.
Reviewed(d) ==
    LET m == d["manifest"]
        b == d["bundle"]
        s == d["semantic"]
    IN  /\ b.eligibility.outcome = "eligible_for_payload_drafting"
        /\ b.eligibility.closure.manifest = m
        /\ \A source \in Sources(m) : m.lifecycle[source] = "current"
        /\ m.author \notin {m.reviewer, b.eligibility.assessor}
        /\ Unclaimed(b)
        /\ s.bundle = b /\ s.outcome = "protocol_accept" /\ ~s.shared
        /\ s.static = d["static"] /\ s.static.outcome = "static_pass"
        /\ s.static.bundle = b
        /\ s.reviewer \notin {b.drafter, s.static.validator}
        /\ d["envelope"].manifest = m
        /\ \A role \in Bound : d["envelope"].artifacts[role] = m.fixes[role]

\* The desk is sound piece by piece; the pins and the two outcomes make it sound
\* as a whole.
LEMMA PinnedReviewed ==
  ASSUME DeskInv, NEW payload, Pinned(payload), desk["static"].outcome = "static_pass",
         desk["semantic"].outcome = "protocol_accept"
  PROVE  Reviewed(desk)
<1>1. Has("bundle") /\ Has("static") /\ Has("semantic")
  BY DEF Pinned, Families
<1>2. SoundBundle(desk["bundle"]) /\ SoundStatic(desk["static"]) /\ SoundSemantic(desk["semantic"])
  BY <1>1 DEF DeskInv
<1> QED
  BY <1>2 DEF Pinned, Reviewed, SoundBundle, SoundStatic, SoundSemantic, SoundEligibility,
     SoundClosure, SoundManifest

\* A plan put together with the records carries their pins and outcomes.
LEMMA PresentedPins ==
  ASSUME NEW p, {"pinned", "static", "semantic", "synthetic"} \subseteq DOMAIN p, NEW payload,
         NEW q, q = Presented(p, payload), q.pinned
  PROVE  Pinned(payload) /\ q.static = desk["static"].outcome
         /\ q.semantic = desk["semantic"].outcome
<1>1. q.pinned = Pinned(payload) /\ q.static = desk["static"].outcome
      /\ q.semantic = desk["semantic"].outcome
  BY DEF Presented
<1> QED
  BY <1>1

\* Arms start only on records reviewed.
LEMMA ReviewedStep == JobInv /\ DeskInv /\ EvaluatedIsReviewed /\ [Next]_vars => EvaluatedIsReviewed'
<1> SUFFICES ASSUME JobInv, DeskInv, EvaluatedIsReviewed, [Next]_vars PROVE EvaluatedIsReviewed'
  OBVIOUS
<1> DEFINE Started == phase = "running" \/ job.kind = "trial"
<1>1. ASSUME admitted' = NotAdmitted PROVE EvaluatedIsReviewed'
  BY <1>1 DEF EvaluatedIsReviewed
<1>2. ASSUME UNCHANGED admitted, Started' => Started PROVE EvaluatedIsReviewed'
  BY <1>2 DEF EvaluatedIsReviewed
<1>3. ASSUME admitted' = desk, Reviewed(desk) PROVE EvaluatedIsReviewed'
  BY <1>3 DEF EvaluatedIsReviewed, Reviewed, Unclaimed
<1>4. NoJob.kind = "none"
  BY DEF NoJob
<1>5. CASE StepJob
  <2>1. phase' = phase
    BY <1>5 DEF StepJob, Jobs, suiteVars
  <2>2. CASE Prepare /\ UNCHANGED admitted
    <3>1. job.kind' = job.kind
      BY <2>2 DEF Prepare, JobInv, JobPlaced, JobSound, Shaped, JobFields
    <3> QED
      BY <1>2, <2>1, <2>2, <3>1
  <2>3. CASE Taken /\ UNCHANGED admitted
    BY <1>2, <2>1, <2>3 DEF Taken
  <2> QED
    BY <1>1, <1>5, <2>2, <2>3 DEF StepJob
<1>6. CASE Capturing
  <2>1. phase' = phase /\ UNCHANGED admitted
    BY <1>6 DEF Capturing, Jobs, suiteVars
  <2>2. job.kind' # "trial"
    <3>1. JobInv' /\ stage' = "capture"
      BY <1>6, JobStep DEF Capturing, Jobs
    <3> QED
      BY <1>4, <3>1 DEF JobInv, JobPlaced
  <2> QED
    BY <1>2, <2>1, <2>2
<1>7. CASE Proposing
  <2>1. phase' = phase /\ UNCHANGED admitted
    BY <1>7 DEF Proposing, Jobs, suiteVars
  <2>2. job.kind' # "trial"
    <3>1. JobInv' /\ stage' = "proposal"
      BY <1>7, JobStep DEF Proposing, Jobs
    <3> QED
      BY <1>4, <3>1 DEF JobInv, JobPlaced
  <2> QED
    BY <1>2, <2>1, <2>2
<1>8. CASE Trying
  BY <1>2, <1>4, <1>8 DEF Trying, Jobs, suiteVars, ConcludeTrial, Over
<1>9. CASE ToTrial
  <2>1. PICK p \in TrialPlans, payload \in Payloads : BeginTrial(Presented(p, payload))
    BY <1>9 DEF ToTrial
  <2>2. PICK q : q = Presented(p, payload)
    OBVIOUS
  <2>3. q.pinned /\ q.static = "static_pass" /\ q.semantic = "protocol_accept"
    BY <2>1, <2>2 DEF BeginTrial, TrialReady
  <2>4. {"pinned", "static", "semantic", "synthetic"} \subseteq DOMAIN p
    BY PlansAssumption
  <2>5. Reviewed(desk)
    BY <2>2, <2>3, <2>4, PresentedPins, PinnedReviewed
  <2> QED
    BY <1>3, <1>9, <2>5 DEF ToTrial, HandOver
<1>10. CASE ToSuite
  <2>1. PICK p \in SuitePlans, payload \in Payloads : Submit(Presented(p, payload))
    BY <1>10 DEF ToSuite
  <2>2. PICK q : q = Presented(p, payload)
    OBVIOUS
  <2>3. Submit(q)
    BY <2>1, <2>2
  <2>4. job.kind' # "trial"
    <3>1. stage = "review" /\ job' = job
      BY <1>10 DEF ToSuite, HandOver, callVars
    <3> QED
      BY <1>4, <3>1 DEF JobInv, JobPlaced, JobSound
  <2>5. ASSUME phase' = "running" PROVE Reviewed(desk)
    <3>1. Derivable(q) /\ Blockers(q) = {}
      BY <2>3, <2>5 DEF Submit
    <3>2. q.pinned
      BY <3>1 DEF Derivable
    <3>3. q.static = "static_pass" /\ q.semantic = "protocol_accept"
      BY <3>1 DEF Blockers
    <3>4. {"pinned", "static", "semantic", "synthetic"} \subseteq DOMAIN p
      BY PlansAssumption
    <3> QED
      BY <2>2, <3>2, <3>3, <3>4, PresentedPins, PinnedReviewed
  <2>6. CASE phase' # "running"
    BY <2>4, <2>6 DEF EvaluatedIsReviewed
  <2> QED
    BY <1>3, <1>10, <2>5, <2>6 DEF ToSuite, HandOver
<1>11. CASE Suiting \/ Collecting
  BY <1>1, <1>11 DEF Suiting, Collecting
<1>12. CASE ToProposal \/ ToReview
  BY <1>2, <1>12 DEF ToProposal, ToReview, Fresh, suiteVars, callVars
<1>13. CASE Reviewing \/ Contexts \/ Evaluating \/ Tracing
  BY <1>2, <1>13 DEF Reviewing, Contexts, Desk, Evaluating, Tracing, suiteVars, callVars, candidateVars
<1>14. CASE UNCHANGED vars
  BY <1>2, <1>14 DEF vars, suiteVars, candidateVars, callVars
<1> QED
  BY <1>5, <1>6, <1>7, <1>8, <1>9, <1>10, <1>11, <1>12, <1>13, <1>14 DEF Next

\* No arm of a smoke trial or of a suite starts but on records that pin each
\* other and were closed, found eligible, drafted, statically passed and accepted
\* -- by the separate principals the code asks for -- whatever was remade, and in
\* whatever order, before the records were handed over
\* (_preflight_with_identity and the constructors of the records it loads).
THEOREM EvaluationsAreReviewed == Spec => []EvaluatedIsReviewed
<1>1. Init => EvaluatedIsReviewed
  BY DEF Init, EvaluatedIsReviewed
<1>2. JobInv /\ DeskInv /\ EvaluatedIsReviewed /\ [Next]_vars => EvaluatedIsReviewed'
  BY ReviewedStep
<1> QED
  BY <1>1, <1>2, JobInvAlways, DeskInvAlways, PTL DEF Spec

-----------------------------------------------------------------------------
(* What a prepared context shows. *)

LEMMA PreparedGoverned ==
  ASSUME NEW policies, NEW mode, NEW budget, PrepareContext(policies, mode, budget)
  PROVE  ContextGoverned'
<1> DEFINE m    == desk["manifest"]
           fate == Fate(m, policies, mode)
<1>1. DOMAIN policies = DOMAIN m.materials /\ \A n \in DOMAIN policies : Disposable(policies[n])
  BY DEF PrepareContext
<1>2. \E n \in DOMAIN fate : /\ m.materials[n] = "minimal_safe"
                             /\ fate[n] \in {"original", "redacted", "protected"}
  BY DEF PrepareContext
<1>3. context'.manifest = m /\ context'.mode = mode /\ context'.policies = policies
      /\ context'.fate = fate
  BY DEF PrepareContext
<1>4. DOMAIN fate = DOMAIN m.materials
  BY DEF Fate
<1>5. ASSUME NEW n \in DOMAIN m.materials
      PROVE  /\ fate[n] = "original" => policies[n].disposition = "include_original"
             /\ fate[n] = "redacted" => policies[n].disposition = "include_redacted"
             /\ m.materials[n] \in Selected(mode) /\ policies[n].disposition # "reject" =>
                   fate[n] \in {"original", "redacted", "protected"}
  <2>1. Disposable(policies[n])
    BY <1>1
  <2>2. policies[n].disposition \in {"include_original", "include_redacted",
                                     "protected_hash_only", "reject"}
    BY <2>1 DEF Disposable
  <2> QED
    BY <2>2 DEF Fate
<1>6. ASSUME NEW n \in DOMAIN m.materials
      PROVE  /\ fate[n] = "original" =>
                   policies[n].safe /\ ~policies[n].tainted /\ ~policies[n].residual
             /\ fate[n] = "redacted" => policies[n].redacted /\ ~policies[n].residual
  BY <1>1, <1>5, <1>6 DEF Disposable
<1> HIDE DEF fate, m
<1> QED
  BY <1>2, <1>3, <1>4, <1>5, <1>6 DEF ContextGoverned

\* Every step of the pipeline keeps ContextGoverned.
LEMMA GovernedStep == ContextGoverned /\ [Next]_vars => ContextGoverned'
<1> SUFFICES ASSUME ContextGoverned, [Next]_vars PROVE ContextGoverned'
  OBVIOUS
<1>1. ASSUME UNCHANGED context PROVE ContextGoverned'
  BY <1>1 DEF ContextGoverned
<1>2. ASSUME context' = NoRecord PROVE ContextGoverned'
  BY <1>2 DEF ContextGoverned
<1>3. CASE StepJob \/ Capturing \/ Trying
  BY <1>1, <1>3 DEF StepJob, Capturing, Trying, BeginCapture, ConcludeCapture, reviewVars
<1>4. CASE Proposing
  BY <1>1, <1>4 DEF Proposing, BeginProposal, ConcludeProposal, reviewVars
<1>5. CASE Reviewing
  BY <1>1, <1>5 DEF Reviewing, Declare, Close, Assess, Draft, ValidateStatically,
     ReviewSemantically, CloseEnvelope
<1>6. CASE Contexts
  BY <1>6, PreparedGoverned DEF Contexts
<1>7. CASE ToTrial \/ ToSuite
  BY <1>2, <1>7 DEF ToTrial, ToSuite, HandOver
<1>8. CASE ToProposal \/ ToReview \/ Suiting \/ Collecting \/ Evaluating \/ Tracing
  BY <1>1, <1>8 DEF ToProposal, ToReview, Suiting, Collecting, Evaluating, Tracing,
     candidateVars, reviewVars
<1>9. CASE UNCHANGED vars
  BY <1>1, <1>9 DEF vars, candidateVars, reviewVars
<1> QED
  BY <1>3, <1>4, <1>5, <1>6, <1>7, <1>8, <1>9 DEF Next

\* A prepared context shows plainly only what is safe and untainted, or redacted
\* clean; drops nothing of its mode's selection but what the policy rejects; and
\* keeps something minimally safe (context_governance.prepare_context).
THEOREM ContextsAreGoverned == Spec => []ContextGoverned
<1>1. Init => ContextGoverned
  BY DEF Init, CandidateInit, ReviewInit, ContextGoverned
<1>2. ContextGoverned /\ [Next]_vars => ContextGoverned'
  BY GovernedStep
<1> QED
  BY <1>1, <1>2, PTL DEF Spec

-----------------------------------------------------------------------------
(***************************************************************************)
(* The reading of a trace.                                                 *)
(***************************************************************************)
Failing == {"turn.failed", "error", "unknown_critical", "malformed"}
Single == {"thread.started", "turn.started", "turn.completed"}

\* What is wrong with a rejected trace, and stays wrong whatever follows.
Unsound == \E n \in DOMAIN trace : ~trace[n].sound \/ trace[n].kind \in Failing
Repeated == \E kind \in Single : \E n, k \in Places(kind) : n < k
Unopened ==
    \E n \in Places("turn.started") \cup Places("turn.completed") \cup Places("item") :
        \A open \in Places("thread.started") : n < open
Overrun ==
    \E close \in Places("turn.completed"),
       n \in Places("thread.started") \cup Places("turn.started") \cup Places("item") : close < n
ToolTwice ==
    \E n, k \in Places("item") : n < k /\ trace[n].tool # 0 /\ trace[n].tool = trace[k].tool
Defective == Unsound \/ Repeated \/ Unopened \/ Overrun \/ ToolTwice

\* The locals of the loop say what has been read, or the trace is rejected for a reason.
Remembered ==
    /\ reading.session = (Places("thread.started") # {})
    /\ reading.turn = (Places("turn.started") # {})
    /\ reading.completed = (Places("turn.completed") # {})
    /\ reading.tools = {trace[n].tool : n \in Places("item")} \ {0}

TraceRead ==
    /\ trace \in Seq(Events)
    /\ reading = [session |-> reading.session, turn |-> reading.turn,
                  completed |-> reading.completed, tools |-> reading.tools,
                  error |-> reading.error]
    /\ {reading.session, reading.turn, reading.completed} \subseteq BOOLEAN
    /\ IF reading.error = "none" THEN Remembered /\ ~Defective ELSE Defective

\* One event more leaves the earlier ones in their places.
LEMMA TraceGrows ==
  ASSUME trace \in Seq(Events), NEW e \in Events, trace' = Append(trace, e)
  PROVE  /\ trace' \in Seq(Events)
         /\ Len(trace) + 1 \notin DOMAIN trace
         /\ DOMAIN trace' = DOMAIN trace \cup {Len(trace) + 1}
         /\ trace'[Len(trace) + 1] = e
         /\ \A n \in DOMAIN trace : n \in Nat /\ n < Len(trace) + 1 /\ trace'[n] = trace[n]
         /\ \A kind : Places(kind)' = Places(kind) \cup
                          (IF e.kind = kind THEN {Len(trace) + 1} ELSE {})
<1>1. /\ trace' \in Seq(Events)
      /\ Len(trace) + 1 \notin DOMAIN trace
      /\ DOMAIN trace' = DOMAIN trace \cup {Len(trace) + 1}
      /\ trace'[Len(trace) + 1] = e
      /\ \A n \in DOMAIN trace : n \in Nat /\ n < Len(trace) + 1 /\ trace'[n] = trace[n]
  OBVIOUS
<1> QED
  BY <1>1 DEF Places

\* Each event leaves the locals saying what has been read.
LEMMA TraceStep ==
  ASSUME TraceRead, NEW e \in Events, Emit(e)
  PROVE  TraceRead'
<1> DEFINE N == Len(trace) + 1
<1>1. trace' = Append(trace, e) /\ trace \in Seq(Events)
  BY DEF Emit, TraceRead
<1>2. /\ trace' \in Seq(Events)
      /\ N \notin DOMAIN trace /\ N \in Nat
      /\ DOMAIN trace' = DOMAIN trace \cup {N}
      /\ trace'[N] = e
      /\ \A n \in DOMAIN trace : n \in Nat /\ n < N /\ trace'[n] = trace[n]
  BY <1>1, TraceGrows
<1>3. \A kind : Places(kind)' = Places(kind) \cup (IF e.kind = kind THEN {N} ELSE {})
  BY <1>1, TraceGrows
<1>4. \A kind : Places(kind) \subseteq DOMAIN trace
  BY DEF Places
<1>5. e.kind \in Kinds /\ e.sound \in BOOLEAN
  BY EventsAssumption
<1>6. reading' = ReadEvent(reading, e)
  BY DEF Emit
<1> HIDE DEF N
<1>7. Defective => Defective'
  <2>1. Unsound => Unsound'
    BY <1>2 DEF Unsound
  <2>2. Repeated => Repeated'
    BY <1>3 DEF Repeated
  <2>3. Unopened => Unopened'
    BY <1>2, <1>3, <1>4 DEF Unopened
  <2>4. Overrun => Overrun'
    BY <1>3 DEF Overrun
  <2>5. ToolTwice => ToolTwice'
    BY <1>2, <1>3, <1>4 DEF ToolTwice
  <2> QED
    BY <2>1, <2>2, <2>3, <2>4, <2>5 DEF Defective
<1>8. CASE reading.error # "none"
  BY <1>2, <1>6, <1>7, <1>8 DEF TraceRead, ReadEvent
<1>9. CASE reading.error = "none" /\ ~InOrder(reading, e)
  <2>1. reading' = [reading EXCEPT !.error = e.kind]
    BY <1>6, <1>9 DEF ReadEvent
  <2>2. reading'.error # "none"
    BY <1>5, <2>1 DEF Kinds, TraceRead
  <2>3. Defective'
    <3>1. CASE ~e.sound \/ e.kind \in Failing
      <4>1. Unsound'
        BY <1>2, <3>1 DEF Unsound
      <4> QED
        BY <4>1 DEF Defective
    <3>2. CASE e.kind \in Single /\ Places(e.kind) # {}
      <4>1. Repeated'
        BY <1>2, <1>3, <1>4, <3>2 DEF Repeated
      <4> QED
        BY <4>1 DEF Defective
    <3>3. CASE e.kind \in {"turn.started", "turn.completed", "item"} /\ Places("thread.started") = {}
      <4>1. N \in (Places("turn.started") \cup Places("turn.completed") \cup Places("item"))'
        BY <1>3, <3>3
      <4>2. Places("thread.started")' = {}
        BY <1>3, <3>3
      <4>3. Unopened'
        BY <4>1, <4>2 DEF Unopened
      <4> QED
        BY <4>3 DEF Defective
    <3>4. CASE e.kind \in {"thread.started", "turn.started", "item"} /\ Places("turn.completed") # {}
      <4>1. Overrun'
        BY <1>2, <1>3, <1>4, <3>4 DEF Overrun
      <4> QED
        BY <4>1 DEF Defective
    <3>5. CASE e.kind = "item" /\ e.tool \in reading.tools
      <4>1. PICK n \in Places("item") : trace[n].tool = e.tool /\ e.tool # 0
        BY <1>9, <3>5 DEF TraceRead, Remembered
      <4>2. ToolTwice'
        BY <1>2, <1>3, <1>4, <3>5, <4>1 DEF ToolTwice
      <4> QED
        BY <4>2 DEF Defective
    <3>6. CASE e.kind = "thread.started" /\ Places("turn.started") # {} /\ Places("thread.started") = {}
      <4>1. Unopened
        BY <3>6 DEF Unopened
      <4> QED
        BY <1>7, <4>1 DEF Defective
    <3> QED
      BY <1>5, <1>9, <3>1, <3>2, <3>3, <3>4, <3>5, <3>6
      DEF InOrder, TraceRead, Remembered, Kinds, Failing, Single
  <2> QED
    BY <1>2, <2>1, <2>2, <2>3 DEF TraceRead
<1>10. CASE reading.error = "none" /\ InOrder(reading, e)
  <2>1. e.sound /\ e.kind \notin Failing
    BY <1>10 DEF InOrder, Failing
  <2>2. Remembered /\ ~Defective
    BY <1>10 DEF TraceRead
  <2>3. reading' = [session |-> reading.session \/ e.kind = "thread.started",
                    turn |-> reading.turn \/ e.kind = "turn.started",
                    completed |-> reading.completed \/ e.kind = "turn.completed",
                    tools |-> IF e.kind = "item" /\ e.tool # 0 THEN reading.tools \cup {e.tool}
                              ELSE reading.tools,
                    error |-> "none"]
    BY <1>6, <1>10 DEF ReadEvent, TraceRead
  <2>4. Remembered'
    <3>1. reading'.tools = ({trace[n].tool : n \in Places("item")} \ {0})'
      <4>1. CASE e.kind = "item"
        <5>1. Places("item")' = Places("item") \cup {N}
          BY <1>3, <4>1
        <5>2. {trace'[n].tool : n \in Places("item")'}
                  = {trace[n].tool : n \in Places("item")} \cup {e.tool}
          BY <5>1, <1>2, <1>4
        <5> QED
          BY <2>2, <2>3, <4>1, <5>2 DEF Remembered
      <4>2. CASE e.kind # "item"
        <5>1. Places("item")' = Places("item")
          BY <1>3, <4>2
        <5>2. {trace'[n].tool : n \in Places("item")'}
                  = {trace[n].tool : n \in Places("item")}
          BY <5>1, <1>2, <1>4
        <5> QED
          BY <2>2, <2>3, <4>2, <5>2 DEF Remembered
      <4> QED
        BY <4>1, <4>2
    <3> QED
      BY <1>3, <2>2, <2>3, <3>1 DEF Remembered, TraceRead
  <2>5. ~Unsound'
    BY <1>2, <2>1, <2>2 DEF Unsound, Defective
  <2>6. ~Repeated'
    <3>1. e.kind \in Single => Places(e.kind) = {}
      BY <1>10, <2>2 DEF Single, InOrder, Remembered, TraceRead
    <3>2. SUFFICES ASSUME NEW kind \in Single, NEW n \in Places(kind)', NEW k \in Places(kind)', n < k
                   PROVE  FALSE
      BY DEF Repeated
    <3>3. ~(\E i, j \in Places(kind) : i < j)
      BY <2>2 DEF Defective, Repeated
    <3>4. CASE e.kind = kind
      <4>1. n = N /\ k = N
        BY <1>3, <3>1, <3>4
      <4> QED
        BY <1>2, <3>2, <4>1
    <3>5. CASE e.kind # kind
      BY <1>3, <3>2, <3>3, <3>5
    <3> QED
      BY <3>4, <3>5
  <2>7. ~Unopened'
    <3> SUFFICES ASSUME NEW n \in (Places("turn.started") \cup Places("turn.completed") \cup Places("item"))'
                 PROVE  \E open \in Places("thread.started")' : ~(n < open)
      BY DEF Unopened
    <3>1. CASE n = N
      <4>1. reading.session
        BY <1>2, <1>3, <1>4, <1>10, <3>1 DEF InOrder
      <4>2. PICK open \in Places("thread.started") : TRUE
        BY <2>2, <4>1 DEF Remembered
      <4> QED
        BY <1>2, <1>3, <1>4, <3>1, <4>2
    <3>2. CASE n # N
      <4>1. n \in Places("turn.started") \cup Places("turn.completed") \cup Places("item")
        BY <1>3, <3>2
      <4> QED
        BY <1>3, <2>2, <4>1 DEF Defective, Unopened
    <3> QED
      BY <3>1, <3>2
  <2>8. ~Overrun'
    <3>1. e.kind \in {"thread.started", "turn.started", "item"} => Places("turn.completed") = {}
      BY <1>10, <2>2 DEF InOrder, Remembered, TraceRead
    <3>2. SUFFICES ASSUME NEW close \in Places("turn.completed")',
                          NEW n \in (Places("thread.started") \cup Places("turn.started")
                                         \cup Places("item"))', close < n
                   PROVE  FALSE
      BY DEF Overrun
    <3>3. CASE n = N
      <4>1. e.kind \in {"thread.started", "turn.started", "item"}
        BY <1>2, <1>3, <1>4, <3>3
      <4> QED
        BY <1>3, <3>1, <4>1
    <3>4. CASE n # N
      <4>1. n \in Places("thread.started") \cup Places("turn.started") \cup Places("item")
        BY <1>3, <3>4
      <4>2. n \in Nat /\ n < N
        BY <1>2, <1>4, <4>1
      <4>3. close # N
        BY <1>2, <3>2, <4>2
      <4>4. close \in Places("turn.completed")
        BY <1>3, <4>3
      <4> QED
        BY <2>2, <3>2, <4>1, <4>4 DEF Defective, Overrun
    <3> QED
      BY <3>3, <3>4
  <2>9. ~ToolTwice'
    <3>1. e.kind = "item" => e.tool \notin reading.tools
      BY <1>10 DEF InOrder
    <3>2. \A n \in Places("item") : trace[n].tool # 0 => trace[n].tool \in reading.tools
      BY <2>2 DEF Remembered
    <3> QED
      BY <1>2, <1>3, <1>4, <2>2, <3>1, <3>2 DEF ToolTwice, Defective
  <2> QED
    BY <1>2, <2>2, <2>3, <2>4, <2>5, <2>6, <2>7, <2>8, <2>9 DEF TraceRead, Defective
<1> QED
  BY <1>8, <1>9, <1>10

\* A trace that was read and not rejected is whole, and the other way round.
LEMMA ReadAttested == TraceRead => TurnAttested
<1> SUFFICES ASSUME TraceRead PROVE TurnAttested
  OBVIOUS
<1> DEFINE Whole(open, close) ==
      /\ Places("thread.started") = {open} /\ Places("turn.completed") = {close}
      /\ open < close
      /\ Places("turn.failed") \cup Places("error") \cup Places("unknown_critical")
         \cup Places("malformed") = {}
      /\ \A n \in Places("item") \cup Places("turn.started") : open < n /\ n < close
      /\ Cardinality(Places("turn.started")) <= 1
      /\ \A n \in DOMAIN trace : trace[n].sound
      /\ \A n, k \in Places("item") :
            n # k /\ trace[n].tool # 0 => trace[n].tool # trace[k].tool
<1>1. \A kind : Places(kind) \subseteq DOMAIN trace
  BY DEF Places
<1>2. trace \in Seq(Events) /\ \A n \in DOMAIN trace : n \in Nat
  BY DEF TraceRead
<1>3. ParseTrace.completed = (reading.error = "none" /\ reading.session /\ reading.completed)
  BY DEF ParseTrace
<1>4. ASSUME ParseTrace.completed
      PROVE  \E open \in Places("thread.started"), close \in Places("turn.completed") :
                Whole(open, close)
  <2>1. reading.error = "none" /\ Remembered /\ ~Defective
    BY <1>3, <1>4 DEF TraceRead
  <2>2. PICK open \in Places("thread.started") : TRUE
    BY <1>3, <1>4, <2>1 DEF Remembered
  <2>3. PICK close \in Places("turn.completed") : TRUE
    BY <1>3, <1>4, <2>1 DEF Remembered
  <2>4. \A kind \in Single : \A n, k \in Places(kind) : n = k
    BY <1>1, <1>2, <2>1 DEF Defective, Repeated
  <2>5. Places("thread.started") = {open} /\ Places("turn.completed") = {close}
    BY <2>2, <2>3, <2>4 DEF Single
  <2>6. \A n, k : n \in DOMAIN trace /\ k \in DOMAIN trace /\ ~(n < k) => k < n \/ n = k
    BY <1>2
  <2>7. \A n \in Places("item") \cup Places("turn.started") \cup {close} : open < n
    <3> SUFFICES ASSUME NEW n \in Places("item") \cup Places("turn.started") \cup {close}
                 PROVE  open < n
      OBVIOUS
    <3>1. ~(n < open)
      BY <2>1, <2>5 DEF Defective, Unopened
    <3>2. n # open
      BY <2>2 DEF Places
    <3> QED
      BY <1>1, <2>6, <3>1, <3>2
  <2>8. \A n \in Places("item") \cup Places("turn.started") : n < close
    <3> SUFFICES ASSUME NEW n \in Places("item") \cup Places("turn.started")
                 PROVE  n < close
      OBVIOUS
    <3>1. ~(close < n)
      BY <2>1 DEF Defective, Overrun
    <3>2. n # close
      BY <2>3 DEF Places
    <3> QED
      BY <1>1, <2>6, <3>1, <3>2
  <2>9. \A n \in DOMAIN trace : trace[n].sound /\ trace[n].kind \notin Failing
    BY <2>1 DEF Defective, Unsound
  <2>10. Cardinality(Places("turn.started")) <= 1
    <3>1. CASE Places("turn.started") = {}
      BY <3>1, FS_EmptySet
    <3>2. CASE Places("turn.started") # {}
      <4>1. PICK n \in Places("turn.started") : TRUE
        BY <3>2
      <4>2. Places("turn.started") = {n}
        BY <2>4, <4>1 DEF Single
      <4>3. Cardinality({n}) = 1
        BY FS_Singleton
      <4> QED
        BY <4>2, <4>3
    <3> QED
      BY <3>1, <3>2
  <2>11. \A n, k \in Places("item") :
            n # k /\ trace[n].tool # 0 => trace[n].tool # trace[k].tool
    BY <1>1, <2>1, <2>6 DEF Defective, ToolTwice
  <2>12. Whole(open, close)
    BY <2>5, <2>7, <2>8, <2>9, <2>10, <2>11 DEF Failing, Places
  <2> QED
    BY <2>12
<1>5. ASSUME NEW open \in Places("thread.started"), NEW close \in Places("turn.completed"),
             Whole(open, close)
      PROVE  ParseTrace.completed
  <2>1. ~Unsound
    BY <1>5 DEF Unsound, Failing, Places
  <2>2. ~Repeated
    <3>1. \A n, k \in Places("turn.started") : n = k
      <4>1. IsFiniteSet(DOMAIN trace) /\ IsFiniteSet(Places("turn.started"))
        BY <1>1, <1>2, FS_Interval, FS_Subset
      <4> SUFFICES ASSUME NEW n \in Places("turn.started"), NEW k \in Places("turn.started"), n # k
                   PROVE  FALSE
        OBVIOUS
      <4>2. Cardinality({n, k}) = 2 /\ IsFiniteSet({n, k})
        <5>1. IsFiniteSet({n}) /\ Cardinality({n}) = 1
          BY FS_Singleton
        <5>2. {n, k} = {n} \cup {k} /\ k \notin {n}
          OBVIOUS
        <5>3. IsFiniteSet({n} \cup {k}) /\ Cardinality({n} \cup {k}) = Cardinality({n}) + 1
          BY <5>1, <5>2, FS_AddElement
        <5> QED
          BY <5>1, <5>2, <5>3
      <4>3. Cardinality({n, k}) <= Cardinality(Places("turn.started"))
        BY <4>1, FS_Subset
      <4> QED
        BY <1>5, <4>1, <4>2, <4>3, FS_CardinalityType
    <3> QED
      BY <1>1, <1>2, <1>5, <3>1 DEF Repeated, Single
  <2>3. ~Unopened
    BY <1>1, <1>2, <1>5 DEF Unopened
  <2>4. ~Overrun
    BY <1>1, <1>2, <1>5 DEF Overrun
  <2>5. ~ToolTwice
    BY <1>1, <1>2, <1>5 DEF ToolTwice
  <2>6. reading.error = "none" /\ Remembered
    BY <2>1, <2>2, <2>3, <2>4, <2>5 DEF TraceRead, Defective
  <2> QED
    BY <1>3, <1>5, <2>6 DEF Remembered
<1> QED
  BY <1>4, <1>5 DEF TurnAttested

\* Every step of the pipeline keeps TraceRead.
LEMMA ReadingStep == TraceRead /\ [Next]_vars => TraceRead'
<1> SUFFICES ASSUME TraceRead, [Next]_vars PROVE TraceRead'
  OBVIOUS
<1>1. ASSUME UNCHANGED traceVars PROVE TraceRead'
  BY <1>1 DEF traceVars, TraceRead, Remembered, Defective, Unsound, Repeated, Unopened, Overrun,
     ToolTwice, Places
<1>2. CASE Tracing
  BY <1>2, TraceStep DEF Tracing
<1>3. CASE StepJob \/ Capturing \/ Proposing \/ Trying \/ Reviewing \/ Contexts
  BY <1>1, <1>3 DEF StepJob, Capturing, Proposing, Trying, Jobs, Reviewing, Contexts, Desk
<1>4. CASE ToProposal \/ ToReview \/ ToTrial \/ ToSuite
  BY <1>1, <1>4 DEF ToProposal, ToReview, ToTrial, ToSuite, HandOver, Fresh
<1>5. CASE Suiting \/ Collecting \/ Evaluating
  BY <1>1, <1>5 DEF Suiting, Collecting, Evaluating
<1>6. CASE UNCHANGED vars
  BY <1>1, <1>6 DEF vars
<1> QED
  BY <1>2, <1>3, <1>4, <1>5, <1>6 DEF Next

\* A completed turn is attested exactly by a whole trace: one session opened before
\* anything happens in it, one turn closed after everything else, nothing failed and
\* no tool call ended twice -- however long the trace (_codex_jsonl.parse_codex_trace).
THEOREM TurnsAreAttested == Spec => []TurnAttested
<1>1. Init => TraceRead
  <2> SUFFICES ASSUME Init PROVE TraceRead
    OBVIOUS
  <2>1. trace = << >> /\ reading = FactsBegin
    BY DEF Init, TraceInit
  <2>2. DOMAIN trace = {} /\ trace \in Seq(Events)
    BY <2>1
  <2>3. \A kind : Places(kind) = {}
    BY <2>2 DEF Places
  <2> QED
    BY <2>1, <2>2, <2>3 DEF FactsBegin, TraceRead, Remembered, Defective, Unsound, Repeated,
       Unopened, Overrun, ToolTwice
<1>2. TraceRead /\ [Next]_vars => TraceRead'
  BY ReadingStep
<1>3. TraceRead => TurnAttested
  BY ReadAttested
<1> QED
  BY <1>1, <1>2, <1>3, PTL DEF Spec

-----------------------------------------------------------------------------
(***************************************************************************)
(* Sets of numbers and recursion over an interval.                         *)
(***************************************************************************)

\* A set of numbers has a least one.
LEMMA LeastOf ==
  ASSUME NEW T, T \subseteq Nat, T # {}
  PROVE  \E x \in T : \A y \in T : x <= y
<1>1. \E x \in T : \A y \in T : ~(<<y, x>> \in OpToRel(<, Nat))
  BY WFMin, NatLessThanWellFounded
<1>2. PICK x \in T : \A y \in T : ~(<<y, x>> \in OpToRel(<, Nat))
  BY <1>1
<1>3. \A y \in T : ~(y < x)
  BY <1>2 DEF OpToRel
<1> QED
  BY <1>3

LEMMA MinIsLeast ==
  ASSUME NEW T, T \subseteq Nat, T # {}
  PROVE  Min(T) \in T /\ \A y \in T : Min(T) <= y
BY LeastOf DEF Min

\* What holds of 0, and of every number with its predecessor, holds up to n.
LEMMA UpTo ==
  ASSUME NEW n \in Nat, NEW T, 0 \in T, \A k \in 1 .. n : k - 1 \in T => k \in T
  PROVE  \A k \in 0 .. n : k \in T
<1> SUFFICES ASSUME (0 .. n) \ T # {} PROVE FALSE
  OBVIOUS
<1>1. PICK x \in (0 .. n) \ T : \A y \in (0 .. n) \ T : x <= y
  <2>1. (0 .. n) \ T \subseteq Nat
    OBVIOUS
  <2> QED
    BY <2>1, LeastOf
<1> QED
  BY <1>1

\* f is the recursion from base in which move[k] makes step k.
Recurs(f, n, base, move) ==
    \A k \in 0 .. n : f[k] = IF k = 0 THEN base ELSE move[k][f[k - 1]]

\* A recursion over an interval whose steps stay in a set defines a function.
LEMMA Recursion ==
  ASSUME NEW n \in Nat, NEW S, NEW base \in S, NEW move \in [1 .. n -> [S -> S]]
  PROVE  \E f \in [0 .. n -> S] : Recurs(f, n, base, move)
<1> DEFINE Upto(m) == \E f \in [0 .. m -> S] :
              \A k \in 0 .. m : f[k] = IF k = 0 THEN base ELSE move[k][f[k - 1]]
           T == {m \in 0 .. n : Upto(m)}
<1>1. 0 \in T
  <2>1. [k \in 0 .. 0 |-> base] \in [0 .. 0 -> S]
    OBVIOUS
  <2>2. \A k \in 0 .. 0 : [j \in 0 .. 0 |-> base][k] =
              IF k = 0 THEN base ELSE move[k][[j \in 0 .. 0 |-> base][k - 1]]
    OBVIOUS
  <2>3. Upto(0)
    BY <2>1, <2>2
  <2> QED
    BY <2>3
<1>2. ASSUME NEW m \in 1 .. n, m - 1 \in T PROVE m \in T
  <2>1. PICK f \in [0 .. m - 1 -> S] :
           \A k \in 0 .. m - 1 : f[k] = IF k = 0 THEN base ELSE move[k][f[k - 1]]
    BY <1>2
  <2> DEFINE g == [k \in 0 .. m |-> IF k = m THEN move[m][f[m - 1]] ELSE f[k]]
  <2>2. move[m][f[m - 1]] \in S
    OBVIOUS
  <2>3. g \in [0 .. m -> S]
    BY <2>2
  <2>4. \A k \in 0 .. m : g[k] = IF k = 0 THEN base ELSE move[k][g[k - 1]]
    <3> SUFFICES ASSUME NEW k \in 0 .. m
                 PROVE  g[k] = IF k = 0 THEN base ELSE move[k][g[k - 1]]
      OBVIOUS
    <3>1. CASE k = m
      <4>1. g[k] = move[m][f[m - 1]] /\ g[k - 1] = f[m - 1] /\ k # 0
        BY <3>1
      <4> QED
        BY <3>1, <4>1
    <3>2. CASE k # m
      <4>1. k \in 0 .. m - 1 /\ g[k] = f[k]
        BY <3>2
      <4>2. k # 0 => g[k - 1] = f[k - 1]
        BY <4>1
      <4> QED
        BY <2>1, <4>1, <4>2
    <3> QED
      BY <3>1, <3>2
  <2>5. Upto(m)
    BY <2>3, <2>4
  <2>6. m \in 0 .. n
    OBVIOUS
  <2> HIDE DEF Upto
  <2> QED
    BY <2>5, <2>6
<1> HIDE DEF T
<1>3. \A m \in 1 .. n : m - 1 \in T => m \in T
  BY <1>2
<1>4. \A m \in 0 .. n : m \in T
  BY <1>1, <1>3, UpTo
<1>5. n \in T
  BY <1>4
<1> QED
  BY <1>5 DEF T, Recurs

(***************************************************************************)
(* The order of a closure.                                                 *)
(***************************************************************************)
Before(order, i) == {order[k] : k \in 1 .. i - 1}

\* Each member placed is the first of those that were ready.
Chosen(members, order) ==
    \A i \in 1 .. Len(order) :
        /\ members[order[i]].needs \subseteq Before(order, i)
        /\ order[i] \notin Before(order, i)
        /\ \A n \in DOMAIN members \ Before(order, i) :
              members[n].needs \subseteq Before(order, i) => order[i] <= n

\* One more member placed, the first of those that are ready.
LEMMA PlacedChosen ==
  ASSUME NEW members, DOMAIN members \subseteq Nat, NEW order \in Seq(DOMAIN members),
         Chosen(members, order)
  PROVE  /\ Placed(members, order) \in Seq(DOMAIN members)
         /\ Chosen(members, Placed(members, order))
<1> DEFINE ready == Ready(members, Range(order))
           n == Min(ready)
<1>1. CASE ready = {}
  BY <1>1 DEF Placed
<1>2. CASE ready # {}
  <2>1. ready \subseteq Nat /\ ready \subseteq DOMAIN members
    BY DEF Ready
  <2>2. n \in ready /\ \A k \in ready : n <= k
    BY <1>2, <2>1, MinIsLeast
  <2> HIDE DEF n
  <2>3. Placed(members, order) = Append(order, n)
    BY <1>2 DEF Placed, n
  <2>4. \A i \in 1 .. Len(order) : Before(Append(order, n), i) = Before(order, i)
    BY <2>1, <2>2 DEF Before
  <2>5. Before(Append(order, n), Len(order) + 1) = Range(order)
    BY <2>1, <2>2 DEF Before, Range
  <2>6. Chosen(members, Append(order, n))
    <3> SUFFICES ASSUME NEW i \in 1 .. Len(order) + 1
                 PROVE  /\ members[Append(order, n)[i]].needs \subseteq Before(Append(order, n), i)
                        /\ Append(order, n)[i] \notin Before(Append(order, n), i)
                        /\ \A k \in DOMAIN members \ Before(Append(order, n), i) :
                              members[k].needs \subseteq Before(Append(order, n), i)
                                  => Append(order, n)[i] <= k
      BY <2>1, <2>2 DEF Chosen
    <3>1. CASE i = Len(order) + 1
      <4>1. Append(order, n)[i] = n
        BY <3>1, <2>1, <2>2
      <4> QED
        BY <2>2, <2>5, <3>1, <4>1 DEF Ready
    <3>2. CASE i # Len(order) + 1
      <4>1. i \in 1 .. Len(order) /\ Append(order, n)[i] = order[i]
        BY <3>2, <2>1, <2>2
      <4> QED
        BY <2>4, <4>1 DEF Chosen
    <3> QED
      BY <3>1, <3>2
  <2> QED
    BY <2>1, <2>2, <2>3, <2>6
<1> QED
  BY <1>1, <1>2

\* Every prefix of the order, and so the whole, is made of such choices.
LEMMA OrderChosen ==
  ASSUME NEW members, IsFiniteSet(DOMAIN members), DOMAIN members \subseteq Nat
  PROVE  /\ TopologicalOrder(members) \in Seq(DOMAIN members)
         /\ Chosen(members, TopologicalOrder(members))
<1> DEFINE C == Cardinality(DOMAIN members)
           Orders == {o \in Seq(DOMAIN members) : Chosen(members, o)}
           move == [k \in 1 .. C |-> [o \in Orders |-> Placed(members, o)]]
           Body(f) == [k \in 0 .. C |-> IF k = 0 THEN << >> ELSE Placed(members, f[k - 1])]
<1>1. C \in Nat
  BY FS_CardinalityType
<1>2. << >> \in Orders
  BY DEF Chosen
<1>3. \A o \in Orders : Placed(members, o) \in Orders
  BY PlacedChosen
<1> HIDE DEF C, Orders
<1>4. move \in [1 .. C -> [Orders -> Orders]]
  BY <1>3
<1>5. \A k \in 1 .. C, o \in Orders : move[k][o] = Placed(members, o)
  OBVIOUS
<1> HIDE DEF move
<1>6. << >> \in Orders /\ \E f \in [0 .. C -> Orders] : Recurs(f, C, << >>, move)
  BY <1>1, <1>2, <1>4, Recursion
<1>11. PICK f \in [0 .. C -> Orders] : Recurs(f, C, << >>, move)
  BY <1>6
<1>7. f = Body(f)
  BY <1>1, <1>5, <1>11 DEF Recurs
<1> DEFINE order == CHOOSE g : g = Body(g)
<1>8. order = Body(order)
  BY <1>7
<1>9. TopologicalOrder(members) = order[C]
  BY DEF TopologicalOrder, C
<1> HIDE DEF order
<1>10. \A k \in 0 .. C : order[k] \in Orders
  <2> DEFINE T == {k \in 0 .. C : order[k] \in Orders}
  <2>1. 0 \in T
    BY <1>1, <1>2, <1>8
  <2>2. \A k \in 1 .. C : k - 1 \in T => k \in T
    BY <1>1, <1>3, <1>8
  <2> HIDE DEF T
  <2>3. \A k \in 0 .. C : k \in T
    BY <1>1, <2>1, <2>2, UpTo
  <2> QED
    BY <2>3 DEF T
<1> QED
  BY <1>1, <1>9, <1>10 DEF Orders

\* An order with a place for every member has each after what it needs, and a member
\* before a smaller one only when that one had to wait.
LEMMA OrderWhole ==
  ASSUME NEW members, IsFiniteSet(DOMAIN members), DOMAIN members \subseteq Nat,
         \A n \in DOMAIN members : members[n].needs \subseteq DOMAIN members,
         NEW order, order = TopologicalOrder(members), Len(order) = Cardinality(DOMAIN members)
  PROVE  /\ Range(order) = DOMAIN members
         /\ \A i, j \in DOMAIN order :
               /\ order[j] \in members[order[i]].needs => j < i
               /\ i < j /\ order[j] < order[i] =>
                     \E k \in i .. j - 1 : order[k] \in members[order[j]].needs
<1>1. order \in Seq(DOMAIN members) /\ Chosen(members, order)
  BY OrderChosen
<1>2. DOMAIN order = 1 .. Len(order) /\ Len(order) \in Nat
      /\ \A i \in DOMAIN order : order[i] \in DOMAIN members
  BY <1>1
<1>3. \A i, j \in DOMAIN order : i < j => order[i] # order[j]
  BY <1>1, <1>2 DEF Chosen, Before
<1>4. \A i, j \in DOMAIN order : order[i] = order[j] => i = j
  BY <1>2, <1>3
<1>5. Range(order) = DOMAIN members
  <2>1. order \in Injection(DOMAIN order, DOMAIN members)
    BY <1>1, <1>2, <1>4 DEF Injection, IsInjective
  <2>2. Cardinality(DOMAIN order) = Cardinality(DOMAIN members)
    BY <1>2, FS_Interval
  <2>3. order \in Surjection(DOMAIN order, DOMAIN members)
    BY <2>1, <2>2, FS_Injection
  <2> QED
    BY <1>2, <2>3 DEF Surjection, Range
<1>6. ASSUME NEW i \in DOMAIN order, NEW j \in DOMAIN order, order[j] \in members[order[i]].needs
      PROVE  j < i
  <2>1. PICK k \in 1 .. i - 1 : order[j] = order[k]
    BY <1>1, <1>2, <1>6 DEF Chosen, Before
  <2> QED
    BY <1>2, <1>4, <2>1
<1>7. ASSUME NEW i \in DOMAIN order, NEW j \in DOMAIN order, i < j, order[j] < order[i]
      PROVE  \E k \in i .. j - 1 : order[k] \in members[order[j]].needs
  <2>1. order[j] \notin Before(order, i)
    BY <1>2, <1>4, <1>7 DEF Before
  <2>2. ~(members[order[j]].needs \subseteq Before(order, i))
    BY <1>1, <1>2, <1>7, <2>1 DEF Chosen
  <2>3. PICK x \in members[order[j]].needs : x \notin Before(order, i)
    BY <2>2
  <2>4. PICK k \in 1 .. j - 1 : x = order[k]
    BY <1>1, <1>2, <2>3 DEF Chosen, Before
  <2>5. k \notin 1 .. i - 1
    BY <2>3, <2>4 DEF Before
  <2> QED
    BY <1>2, <2>3, <2>4, <2>5
<1> QED
  BY <1>5, <1>6, <1>7

MembersSound(m) == IsFiniteSet(DOMAIN m.members) /\ DOMAIN m.members \subseteq Nat

\* What a closure on the desk says of the manifest it pins.
ClosureSound(c) ==
    LET members == c.manifest.members
        order   == c.order
    IN  /\ Len(order) = Cardinality(DOMAIN members)
        /\ Range(order) = DOMAIN members
        /\ \A i, j \in DOMAIN order :
              /\ order[j] \in members[order[i]].needs => j < i
              /\ i < j /\ order[j] < order[i] =>
                    \E k \in i .. j - 1 : order[k] \in members[order[j]].needs
        /\ \A s \in Sources(c.manifest) : c.manifest.lifecycle[s] = "current"

OrderInv ==
    /\ Has("manifest") => MembersSound(desk["manifest"])
    /\ Has("closure") => ClosureSound(desk["closure"])

\* A closure made from a manifest that may be closed is in order.
LEMMA ClosableOrdered ==
  ASSUME NEW m, NEW bytes, Closable(m, bytes), MembersSound(m)
  PROVE  ClosureSound(Closure(m))
<1>1. WellFormed(m) /\ Len(TopologicalOrder(m.members)) = Cardinality(DOMAIN m.members)
      /\ \A s \in DOMAIN m.lifecycle : m.lifecycle[s] = "current"
  BY DEF Closable
<1>2. DOMAIN m.lifecycle = Sources(m)
      /\ \A n \in DOMAIN m.members : m.members[n].needs \subseteq DOMAIN m.members
  BY <1>1 DEF WellFormed
<1> DEFINE order == TopologicalOrder(m.members)
<1>3. /\ Range(order) = DOMAIN m.members
      /\ \A i, j \in DOMAIN order :
            /\ order[j] \in m.members[order[i]].needs => j < i
            /\ i < j /\ order[j] < order[i] =>
                  \E k \in i .. j - 1 : order[k] \in m.members[order[j]].needs
  BY <1>1, <1>2, OrderWhole DEF MembersSound
<1>4. Closure(m).manifest = m /\ Closure(m).order = order
  BY DEF Closure
<1> HIDE DEF order
<1> QED
  BY <1>1, <1>2, <1>3, <1>4 DEF ClosureSound, order

\* So is the one a proposal builds.
LEMMA BuiltOrdered ==
  ASSUME NEW p, ProposalShaped(p), NEW draft, Buildable(p, draft), desk' = Handed(p, draft)
  PROVE  OrderInv'
<1> DEFINE m == BuiltManifest(p, draft)
           c == BuiltClosure(p, draft)
<1>1. m.members = BuiltMembers(p, draft) /\ Closable(m, [n \in DOMAIN m.members |-> m.members[n].content])
  BY DEF BuiltManifest, Buildable
<1>2. Cardinality(p.cases) \in Nat
  BY DEF ProposalShaped, Proposable
<1>3. DOMAIN m.members = 1 .. 5 + Cardinality(p.cases)
  BY <1>1 DEF BuiltMembers
<1>4. MembersSound(m)
  <2>1. IsFiniteSet(1 .. 5 + Cardinality(p.cases))
    BY <1>2, FS_Interval
  <2>2. 1 .. 5 + Cardinality(p.cases) \subseteq Nat
    BY <1>2
  <2> QED
    BY <1>3, <2>1, <2>2 DEF MembersSound
<1> HIDE DEF m
<1>5. ClosureSound(c)
  BY <1>1, <1>4, ClosableOrdered DEF BuiltClosure, m
<1>6. desk'["manifest"] = m /\ desk'["closure"] = c
  BY DEF Handed, Families, m
<1> HIDE DEF c
<1> QED
  BY <1>4, <1>5, <1>6 DEF OrderInv

\* One record made anew leaves the others as they are.
LEMMA OrderKept ==
  ASSUME DeskInv, OrderInv, NEW family \in Families, NEW record,
         desk' = [desk EXCEPT ![family] = record],
         family = "manifest" => MembersSound(record),
         family = "closure" => ClosureSound(record)
  PROVE  OrderInv'
<1>1. DOMAIN desk' = Families /\ desk'[family] = record
      /\ \A f \in Families : f # family => desk'[f] = desk[f]
  BY DEF DeskInv
<1> QED
  BY <1>1 DEF OrderInv, Has, Families

\* Every step of the pipeline keeps OrderInv.
LEMMA OrderStep == JobInv /\ DeskInv /\ OrderInv /\ [Next]_vars => OrderInv'
<1> SUFFICES ASSUME JobInv, DeskInv, OrderInv, [Next]_vars PROVE OrderInv'
  OBVIOUS
<1>1. ASSUME UNCHANGED desk PROVE OrderInv'
  BY <1>1 DEF OrderInv, Has
<1>2. CASE StepJob \/ Capturing \/ Trying
  BY <1>1, <1>2 DEF StepJob, Capturing, Trying, BeginCapture, ConcludeCapture, reviewVars
<1>3. CASE Proposing
  <2>1. ASSUME NEW p, BeginProposal(p) PROVE OrderInv'
    BY <1>1, <2>1 DEF BeginProposal, reviewVars
  <2>2. ASSUME ConcludeProposal PROVE OrderInv'
    <3> DEFINE draft == observed["generator"].replay.output.draft
    <3>1. CASE job.raised \/ ProposalStatus # "proposal_ready"
      BY <1>1, <2>2, <3>1 DEF ConcludeProposal
    <3>2. CASE ~job.raised /\ ProposalStatus = "proposal_ready"
      <4>1. Buildable(job, draft)
        BY <3>2 DEF ProposalStatus
      <4>2. desk' = Handed(job, draft)
        BY <2>2, <3>2 DEF ConcludeProposal
      <4>3. ProposalShaped(job)
        BY <2>2 DEF ConcludeProposal, JobInv, JobPlaced, JobSound
      <4> QED
        BY <4>1, <4>2, <4>3, BuiltOrdered
    <3> QED
      BY <3>1, <3>2
  <2> QED
    BY <1>3, <2>1, <2>2 DEF Proposing
<1>4. CASE Reviewing
  <2>1. ASSUME NEW m \in Manifests, Declare(m) PROVE OrderInv'
    <3>1. MembersSound(m)
      BY ManifestsAssumption DEF MembersSound
    <3> QED
      BY <2>1, <3>1, OrderKept DEF Declare, Families
  <2>2. ASSUME NEW bytes, Close(bytes) PROVE OrderInv'
    <3>1. ClosureSound(Closure(desk["manifest"]))
      BY <2>2, ClosableOrdered DEF Close, OrderInv
    <3> QED
      BY <2>2, <3>1, OrderKept DEF Close, Families
  <2>3. ASSUME NEW a, Assess(a) PROVE OrderInv'
    BY <2>3, OrderKept DEF Assess, Families
  <2>4. ASSUME NEW d, Draft(d) PROVE OrderInv'
    BY <2>4, OrderKept DEF Draft, Families
  <2>5. ASSUME NEW v, ValidateStatically(v) PROVE OrderInv'
    BY <2>5, OrderKept DEF ValidateStatically, Families
  <2>6. ASSUME NEW r, ReviewSemantically(r) PROVE OrderInv'
    BY <2>6, OrderKept DEF ReviewSemantically, Families
  <2>7. ASSUME NEW bytes, NEW artifacts, CloseEnvelope(bytes, artifacts) PROVE OrderInv'
    BY <2>7, OrderKept DEF CloseEnvelope, Families
  <2> QED
    BY <1>4, <2>1, <2>2, <2>3, <2>4, <2>5, <2>6, <2>7 DEF Reviewing
<1>5. CASE Contexts
  BY <1>1, <1>5 DEF Contexts, PrepareContext
<1>6. CASE ToTrial \/ ToSuite
  <2>1. desk' = [f \in Families |-> NoRecord]
    BY <1>6 DEF ToTrial, ToSuite, HandOver
  <2> QED
    BY <2>1 DEF OrderInv, Has, Families
<1>7. CASE ToProposal \/ ToReview \/ Suiting \/ Collecting \/ Evaluating \/ Tracing
  BY <1>1, <1>7 DEF ToProposal, ToReview, Suiting, Collecting, Evaluating, Tracing,
     candidateVars, reviewVars
<1>8. CASE UNCHANGED vars
  BY <1>1, <1>8 DEF vars, candidateVars, reviewVars
<1> QED
  BY <1>2, <1>3, <1>4, <1>5, <1>6, <1>7, <1>8 DEF Next

\* A closure lists every member after all it depends on, and of all such lists the
\* alphabetically first, however many members a manifest has
\* (incubator._topological_order, close_candidate_bundle).
THEOREM ClosuresAreOrdered == Spec => []ClosuresOrdered
<1>1. Init => OrderInv
  BY DEF Init, CandidateInit, ReviewInit, OrderInv, Has, Families
<1>2. (JobInv /\ DeskInv /\ OrderInv) /\ [Next]_vars => OrderInv'
  BY OrderStep
<1>3. OrderInv => ClosuresOrdered
  BY DEF OrderInv, ClosureSound, ClosuresOrdered
<1> QED
  BY <1>1, <1>2, <1>3, JobInvAlways, DeskInvAlways, PTL DEF Spec

-----------------------------------------------------------------------------
(***************************************************************************)
(* What a comparison says.                                                 *)
(***************************************************************************)
\* The greatest of numbers under a bound.
LEMMA MaxIsGreatest ==
  ASSUME NEW T, T \subseteq Nat, T # {}, NEW b \in Nat, \A y \in T : y <= b
  PROVE  Max(T) \in T /\ \A y \in T : y <= Max(T)
<1> DEFINE D == {b - y : y \in T}
<1>1. D \subseteq Nat /\ D # {}
  <2>1. \A y \in T : y \in Nat /\ b - y \in Nat
    OBVIOUS
  <2> QED
    BY <2>1
<1>2. PICK d \in D : \A e \in D : d <= e
  BY <1>1, LeastOf
<1>3. PICK x \in T : d = b - x
  BY <1>2
<1>4. \A y \in T : x >= y
  <2> SUFFICES ASSUME NEW y \in T PROVE x >= y
    OBVIOUS
  <2>1. d <= b - y
    BY <1>2
  <2> QED
    BY <1>3, <2>1
<1>5. \E g \in T : \A y \in T : g >= y
  BY <1>4
<1>6. Max(T) \in T /\ \A y \in T : Max(T) >= y
  BY <1>5 DEF Max
<1> QED
  BY <1>6

\* Products of natural numbers grow with their factors.
LEMMA TimesMonotone ==
  ASSUME NEW a \in Nat, NEW b \in Nat, NEW c \in Nat, a <= b
  PROVE  a * c <= b * c
OBVIOUS

\* Holm's correction holds for every group of metrics that holds the one claimed.
LEMMA HolmCorrects ==
  ASSUME NEW p, IsFiniteSet(DOMAIN p), DOMAIN p \subseteq Nat, \A i \in DOMAIN p : p[i] \in Nat,
         NEW unit \in Nat, NEW error \in Nat, error < unit,
         NEW m \in DOMAIN p, HolmAdjust(p, unit)[m] <= error,
         NEW S \in SUBSET DOMAIN p, m \in S
  PROVE  \E k \in S : Cardinality(S) * p[k] <= error
<1> DEFINE before(j, i) == p[j] < p[i] \/ (p[j] = p[i] /\ j < i)
           rank(i) == Cardinality({j \in DOMAIN p : before(j, i)})
           scaled(i) == Min({unit, (Cardinality(DOMAIN p) - rank(i)) * p[i]})
           upto == {scaled(j) : j \in {k \in DOMAIN p : rank(k) <= rank(m)}}
<1>1. HolmAdjust(p, unit)[m] = Max(upto)
  BY DEF HolmAdjust
<1>12. Cardinality(DOMAIN p) \in Nat
  BY FS_CardinalityType
<1>2. \A i \in DOMAIN p : /\ IsFiniteSet({j \in DOMAIN p : before(j, i)})
                          /\ rank(i) \in Nat /\ rank(i) <= Cardinality(DOMAIN p)
  <2> SUFFICES ASSUME NEW i \in DOMAIN p
               PROVE  /\ IsFiniteSet({j \in DOMAIN p : before(j, i)})
                      /\ rank(i) \in Nat /\ rank(i) <= Cardinality(DOMAIN p)
    OBVIOUS
  <2>1. {j \in DOMAIN p : before(j, i)} \in SUBSET DOMAIN p
    OBVIOUS
  <2> QED
    BY <2>1, FS_Subset, FS_CardinalityType
<1>3. PICK k \in S : \A j \in S : ~before(j, k)
  <2> DEFINE P == {p[j] : j \in S}
  <2>1. P \subseteq Nat /\ P # {}
    OBVIOUS
  <2>2. PICK v \in P : \A w \in P : v <= w
    BY <2>1, LeastOf
  <2> DEFINE K == {j \in S : p[j] = v}
  <2>3. K \subseteq Nat /\ K # {}
    BY <2>2
  <2>4. PICK k \in K : \A j \in K : k <= j
    BY <2>3, LeastOf
  <2>5. \A j \in S : ~before(j, k)
    <3> SUFFICES ASSUME NEW j \in S PROVE ~before(j, k)
      OBVIOUS
    <3>1. v <= p[j] /\ p[k] = v
      BY <2>2, <2>4
    <3>2. p[j] = v => k <= j
      BY <2>4
    <3> QED
      BY <3>1, <3>2, <2>1
  <2> QED
    BY <2>4, <2>5
<1>4. rank(k) <= rank(m)
  <2>1. \A j \in DOMAIN p : before(j, k) => before(j, m)
    <3>1. ~before(m, k)
      BY <1>3
    <3>2. p[k] < p[m] \/ (p[k] = p[m] /\ k <= m)
      BY <3>1
    <3> QED
      BY <3>2
  <2>2. {j \in DOMAIN p : before(j, k)} \in SUBSET {j \in DOMAIN p : before(j, m)}
    BY <2>1
  <2> QED
    BY <1>2, <2>2, FS_Subset
<1>5. Cardinality(S) \in Nat /\ Cardinality(S) <= Cardinality(DOMAIN p) - rank(k)
  <2> DEFINE B == {j \in DOMAIN p : before(j, k)}
  <2>1. IsFiniteSet(S) /\ IsFiniteSet(B) /\ S \cap B = {} /\ S \cup B \in SUBSET DOMAIN p
    BY <1>2, <1>3, FS_Subset
  <2>2. Cardinality(S \cup B) = Cardinality(S) + Cardinality(B) - Cardinality(S \cap B)
    BY <2>1, FS_Union
  <2>3. Cardinality(S \cap B) = 0
    BY <2>1, FS_EmptySet
  <2>4. Cardinality(S \cup B) <= Cardinality(DOMAIN p)
    BY <2>1, FS_Subset
  <2>5. Cardinality(B) = rank(k)
    OBVIOUS
  <2>6. Cardinality(S) \in Nat /\ Cardinality(DOMAIN p) \in Nat /\ rank(k) \in Nat
    BY <1>2, <2>1, FS_CardinalityType
  <2> HIDE DEF B, rank
  <2> QED
    BY <2>2, <2>3, <2>4, <2>5, <2>6
<1>6. \A i \in DOMAIN p :
         /\ scaled(i) \in Nat /\ scaled(i) <= unit
         /\ scaled(i) < unit => scaled(i) = (Cardinality(DOMAIN p) - rank(i)) * p[i]
  <2> SUFFICES ASSUME NEW i \in DOMAIN p
               PROVE  /\ scaled(i) \in Nat /\ scaled(i) <= unit
                      /\ scaled(i) < unit => scaled(i) = (Cardinality(DOMAIN p) - rank(i)) * p[i]
    OBVIOUS
  <2> DEFINE x == (Cardinality(DOMAIN p) - rank(i)) * p[i]
  <2>1. Cardinality(DOMAIN p) - rank(i) \in Nat
    <3>1. rank(i) \in Nat /\ rank(i) <= Cardinality(DOMAIN p)
      BY <1>2
    <3> HIDE DEF rank
    <3> QED
      BY <1>12, <3>1
  <2>2. x \in Nat
    BY <2>1
  <2> HIDE DEF x
  <2>3. {unit, x} \subseteq Nat /\ {unit, x} # {}
    BY <2>2
  <2>4. Min({unit, x}) \in {unit, x} /\ \A y \in {unit, x} : Min({unit, x}) <= y
    BY <2>3, MinIsLeast
  <2>5. scaled(i) = Min({unit, x})
    BY DEF x
  <2>6. scaled(i) \in {unit, x} /\ scaled(i) <= unit
    BY <2>4, <2>5
  <2> HIDE DEF scaled
  <2> QED
    BY <2>2, <2>6 DEF x
<1> HIDE DEF scaled, rank, before
<1>13. Cardinality(DOMAIN p) - rank(k) \in Nat /\ p[k] \in Nat
  <2>1. rank(k) \in Nat /\ rank(k) <= Cardinality(DOMAIN p)
    BY <1>2
  <2> QED
    BY <1>12, <2>1
<1>7. scaled(k) <= Max(upto)
  <2>1. upto \subseteq Nat /\ \A y \in upto : y <= unit
    BY <1>6
  <2>2. scaled(k) \in upto
    BY <1>4
  <2> QED
    BY <2>1, <2>2, MaxIsGreatest
<1>8. Max(upto) \in Nat
  <2>1. upto \subseteq Nat /\ \A y \in upto : y <= unit
    BY <1>6
  <2>2. scaled(k) \in upto
    BY <1>4
  <2> QED
    BY <2>1, <2>2, MaxIsGreatest
<1>9. (Cardinality(DOMAIN p) - rank(k)) * p[k] <= error
  <2>1. scaled(k) <= error
    BY <1>1, <1>6, <1>7, <1>8
  <2> QED
    BY <1>6, <2>1
<1>10. Cardinality(S) * p[k] <= (Cardinality(DOMAIN p) - rank(k)) * p[k]
  BY <1>5, <1>13, TimesMonotone
<1>11. Cardinality(S) * p[k] \in Nat /\ (Cardinality(DOMAIN p) - rank(k)) * p[k] \in Nat
  BY <1>5, <1>13
<1> QED
  BY <1>9, <1>10, <1>11

-----------------------------------------------------------------------------
(***************************************************************************)
(* Gates folded over the runs of a grid.                                   *)
(***************************************************************************)
Statuses == {"pass", "fail", "not_applicable"}
GateMaps == UNION {[D -> Statuses] : D \in SUBSET Gates}

\* What a gate map says of a gate.
Judges(f, g) == g \in DOMAIN f /\ f[g] \in {"pass", "fail"}
Fails(f, g) == g \in DOMAIN f /\ f[g] = "fail"

\* Folding two gate maps names what one of them judges, and fails what one of them fails.
LEMMA FoldTwoSays ==
  ASSUME NEW left \in GateMaps, NEW right \in GateMaps
  PROVE  /\ FoldTwo(left, right) \in GateMaps
         /\ \A g \in Gates :
               /\ g \in DOMAIN FoldTwo(left, right) <=> Judges(left, g) \/ Judges(right, g)
               /\ Judges(FoldTwo(left, right), g) <=> Judges(left, g) \/ Judges(right, g)
               /\ Fails(FoldTwo(left, right), g) <=> Fails(left, g) \/ Fails(right, g)
<1> DEFINE sides(g) == {r[g] : r \in {x \in {left, right} : g \in DOMAIN x}}
           listed == {g \in Gates : sides(g) \cap {"pass", "fail"} # {}}
<1>1. \A g \in Gates : \A v : v \in sides(g) <=>
          (g \in DOMAIN left /\ left[g] = v) \/ (g \in DOMAIN right /\ right[g] = v)
  OBVIOUS
<1>2. FoldTwo(left, right) = [g \in listed |-> IF "fail" \in sides(g) THEN "fail" ELSE "pass"]
  BY DEF FoldTwo
<1>3. \A g \in Gates : g \in listed <=> Judges(left, g) \/ Judges(right, g)
  BY <1>1 DEF Judges
<1>4. \A g \in Gates : "fail" \in sides(g) <=> Fails(left, g) \/ Fails(right, g)
  BY <1>1 DEF Fails
<1>5. \A g \in Gates : Fails(left, g) \/ Fails(right, g) => g \in listed
  BY <1>3 DEF Fails, Judges
<1>6. listed \in SUBSET Gates
  OBVIOUS
<1> HIDE DEF sides, listed
<1>7. FoldTwo(left, right) \in [listed -> Statuses]
  BY <1>2 DEF Statuses
<1>8. FoldTwo(left, right) \in GateMaps
  BY <1>6, <1>7 DEF GateMaps
<1> QED
  BY <1>2, <1>3, <1>4, <1>5, <1>8 DEF Judges, Fails

\* The fold names the gates some run judges, and fails those some run fails.
LEMMA FoldManySays ==
  ASSUME NEW n \in Nat, n >= 2, NEW runs, Len(runs) = n,
         \A i \in 1 .. n : runs[i].gates \in GateMaps
  PROVE  /\ FoldManyGates(runs) \in GateMaps
         /\ \A g \in Gates :
               /\ g \in DOMAIN FoldManyGates(runs) <=> \E i \in 1 .. n : Judges(runs[i].gates, g)
               /\ Fails(FoldManyGates(runs), g) <=> \E i \in 1 .. n : Fails(runs[i].gates, g)
<1> DEFINE move == [k \in 1 .. n - 1 |-> [f \in GateMaps |-> FoldTwo(f, runs[k + 1].gates)]]
           Body(f) == [i \in 1 .. n |->
                          IF i = 1 THEN runs[1].gates ELSE FoldTwo(f[i - 1], runs[i].gates)]
<1>1. \A k \in 1 .. n - 1, f \in GateMaps :
         move[k][f] = FoldTwo(f, runs[k + 1].gates) /\ move[k][f] \in GateMaps
  BY FoldTwoSays
<1>2. move \in [1 .. n - 1 -> [GateMaps -> GateMaps]]
  BY <1>1
<1>3. n - 1 \in Nat /\ runs[1].gates \in GateMaps
  OBVIOUS
<1> HIDE DEF move
<1>4. PICK f \in [0 .. n - 1 -> GateMaps] : Recurs(f, n - 1, runs[1].gates, move)
  BY <1>2, <1>3, Recursion
<1> DEFINE h == [i \in 1 .. n |-> f[i - 1]]
<1>5. h = Body(h)
  <2> SUFFICES ASSUME NEW i \in 1 .. n
               PROVE  f[i - 1] = IF i = 1 THEN runs[1].gates ELSE FoldTwo(h[i - 1], runs[i].gates)
    OBVIOUS
  <2>1. i - 1 \in 0 .. n - 1 /\ (i # 1 => i - 1 \in 1 .. n - 1 /\ i - 2 \in 0 .. n - 1)
    OBVIOUS
  <2>2. f[i - 1] = IF i - 1 = 0 THEN runs[1].gates ELSE move[i - 1][f[i - 2]]
    BY <2>1, <1>4 DEF Recurs
  <2>3. i # 1 => h[i - 1] = f[i - 2] /\ f[i - 2] \in GateMaps
    BY <2>1
  <2>4. i # 1 => move[i - 1][f[i - 2]] = FoldTwo(f[i - 2], runs[i].gates)
    BY <2>1, <2>3, <1>1
  <2> QED
    BY <2>2, <2>3, <2>4
<1> DEFINE fold == CHOOSE g : g = Body(g)
<1>6. fold = Body(fold)
  BY <1>5
<1>7. FoldManyGates(runs) = fold[n]
  BY DEF FoldManyGates
<1> HIDE DEF fold, h
<1>8. fold[1] = runs[1].gates /\ \A i \in 2 .. n : fold[i] = FoldTwo(fold[i - 1], runs[i].gates)
  BY <1>6
<1> DEFINE Says(i) ==
      /\ fold[i] \in GateMaps
      /\ \A g \in Gates :
            /\ i >= 2 /\ g \in DOMAIN fold[i] => \E j \in 1 .. i : Judges(runs[j].gates, g)
            /\ Judges(fold[i], g) <=> \E j \in 1 .. i : Judges(runs[j].gates, g)
            /\ Fails(fold[i], g) <=> \E j \in 1 .. i : Fails(runs[j].gates, g)
<1>9. Says(1)
  BY <1>8
<1>10. ASSUME NEW i \in 2 .. n, Says(i - 1) PROVE Says(i)
  <2>1. fold[i] = FoldTwo(fold[i - 1], runs[i].gates) /\ runs[i].gates \in GateMaps
    BY <1>8
  <2>2. \A g \in Gates : (\E j \in 1 .. i : Judges(runs[j].gates, g)) <=>
            (\E j \in 1 .. i - 1 : Judges(runs[j].gates, g)) \/ Judges(runs[i].gates, g)
    OBVIOUS
  <2>3. \A g \in Gates : (\E j \in 1 .. i : Fails(runs[j].gates, g)) <=>
            (\E j \in 1 .. i - 1 : Fails(runs[j].gates, g)) \/ Fails(runs[i].gates, g)
    OBVIOUS
  <2>4. /\ fold[i] \in GateMaps
        /\ \A g \in Gates :
              /\ g \in DOMAIN fold[i] <=> Judges(fold[i - 1], g) \/ Judges(runs[i].gates, g)
              /\ Judges(fold[i], g) <=> Judges(fold[i - 1], g) \/ Judges(runs[i].gates, g)
              /\ Fails(fold[i], g) <=> Fails(fold[i - 1], g) \/ Fails(runs[i].gates, g)
    BY <1>10, <2>1, FoldTwoSays
  <2> QED
    BY <1>10, <2>2, <2>3, <2>4
<1> DEFINE T == {k \in 0 .. n - 1 : Says(k + 1)}
<1> HIDE DEF Says
<1>11. 0 \in T
  BY <1>9
<1>12. \A k \in 1 .. n - 1 : k - 1 \in T => k \in T
  <2> SUFFICES ASSUME NEW k \in 1 .. n - 1, k - 1 \in T PROVE k \in T
    OBVIOUS
  <2>1. Says(k) /\ k + 1 \in 2 .. n
    OBVIOUS
  <2>2. Says((k + 1) - 1)
    BY <2>1
  <2> QED
    BY <1>10, <2>1, <2>2
<1> HIDE DEF T
<1>13. \A k \in 0 .. n - 1 : k \in T
  BY <1>3, <1>11, <1>12, UpTo
<1>14. n - 1 \in T
  BY <1>3, <1>13
<1>15. Says(n)
  BY <1>14 DEF T
<1> QED
  BY <1>7, <1>15 DEF Says, Judges

-----------------------------------------------------------------------------
(***************************************************************************)
(* The records of one observation.                                         *)
(***************************************************************************)
\* What an observation is whatever was replayed.
LEMMA ObservedAs ==
  ASSUME NEW replay, replay.ok \in BOOLEAN, NEW oracle, NEW runner, NEW config
  PROVE  LET m == Observe(replay, oracle, runner, config)
         IN  /\ m.attempts = replay.attempts
             /\ m.gates \in [Gates -> Statuses]
             /\ m.run <=> m.result
             /\ m.result => replay.ok /\ replay.output.readable /\ DOMAIN m.scores = oracle
             /\ m.verdict = "pass" => \A g \in Gates : m.gates[g] # "fail"
             /\ m.status = "timeout" => ~replay.ok /\ replay.error = "timeout"
<1> DEFINE m == Observe(replay, oracle, runner, config)
           scores == IF replay.ok THEN ScoreWithOracle(replay.output, oracle) ELSE Unscored
           gates == EvaluateGates(replay, scores, runner, config)
           verdict == IF replay.ok /\ scores = Unscored THEN "error"
                      ELSE AssembleVerdict(replay, gates, scores)
<1>1. /\ m.attempts = replay.attempts /\ m.scores = scores /\ m.gates = gates
      /\ m.verdict = verdict
      /\ m.status = IF replay.ok /\ scores = Unscored THEN "scorer_error"
                    ELSE IF replay.ok THEN "completed" ELSE replay.error
      /\ m.result = (replay.ok /\ ~(replay.ok /\ scores = Unscored))
      /\ m.run = (verdict \in {"pass", "fail"})
  BY DEF Observe
<1>2. scores # Unscored => replay.ok /\ replay.output.readable /\ DOMAIN scores = oracle
  BY DEF ScoreWithOracle
<1>3. gates \in [Gates -> Statuses]
  BY DEF EvaluateGates, Statuses, PatternGate, RegressionGate
<1> HIDE DEF m, scores, gates
<1>4. (verdict \in {"pass", "fail"}) <=> (replay.ok /\ scores # Unscored)
  BY DEF AssembleVerdict
<1>5. verdict = "pass" => \A g \in Gates : gates[g] # "fail"
  BY <1>3 DEF AssembleVerdict
<1> HIDE DEF verdict
<1>6. m.run <=> m.result
  BY <1>1, <1>4
<1>7. m.result => replay.ok /\ replay.output.readable /\ DOMAIN m.scores = oracle
  BY <1>1, <1>2
<1>8. m.status = "timeout" => ~replay.ok /\ replay.error = "timeout"
  BY <1>1
<1> QED
  BY <1>1, <1>3, <1>5, <1>6, <1>7, <1>8 DEF m

\* What one attempt of a replay returns.
LEMMA ReplayOnceSays ==
  ASSUME NEW artifact, {artifact.pinned, artifact.large, artifact.strict} \subseteq BOOLEAN,
         NEW late, NEW n
  PROVE  LET replay == ReplayOnce(artifact, late, n)
         IN  /\ replay.ok \in BOOLEAN /\ replay.attempts = n
             /\ replay.ok => /\ ~late[1] /\ ~late[2] /\ ~late[3]
                             /\ artifact.pinned /\ ~artifact.large /\ artifact.strict
                             /\ replay.output = artifact.output
             /\ ~late[1] /\ ~late[2] /\ ~late[3] /\ artifact.pinned /\ ~artifact.large
                /\ artifact.strict => replay.ok
<1>1. CASE late[1] \/ (~late[1] /\ (~artifact.pinned \/ artifact.large \/ late[2]))
  BY <1>1 DEF ReplayOnce, Failure
<1>2. CASE ~late[1] /\ artifact.pinned /\ ~artifact.large /\ ~late[2] /\ (~artifact.strict \/ late[3])
  BY <1>2 DEF ReplayOnce, Failure
<1>3. CASE ~late[1] /\ artifact.pinned /\ ~artifact.large /\ ~late[2] /\ artifact.strict /\ ~late[3]
  BY <1>3 DEF ReplayOnce, Success
<1> QED
  BY <1>1, <1>2, <1>3

\* The replay that is kept is the first one that settles; at the last attempt any does.
LEMMA ReplaySettles ==
  ASSUME NEW artifact, {artifact.pinned, artifact.large, artifact.strict} \subseteq BOOLEAN,
         NEW envelope, envelope.retries \in Nat, NEW late
  PROVE  \E n \in 1 .. envelope.retries + 1 :
            /\ RunReplay(artifact, late, envelope) = ReplayOnce(artifact, late[n], n)
            /\ Settled(ReplayOnce(artifact, late[n], n), envelope)
            /\ \A k \in 1 .. n - 1 : ~Settled(ReplayOnce(artifact, late[k], k), envelope)
<1> DEFINE last == envelope.retries + 1
           Ended(n) == Settled(ReplayOnce(artifact, late[n], n), envelope)
           First(n) == Ended(n) /\ \A k \in 1 .. n - 1 : ~Ended(k)
           ends == {n \in 1 .. last : Ended(n)}
<1>1. last \in ends
  <2>1. ReplayOnce(artifact, late[last], last).attempts = last
    BY ReplayOnceSays
  <2>2. Ended(last)
    BY <2>1 DEF Settled
  <2> QED
    BY <2>2
<1>2. PICK n \in ends : \A k \in ends : n <= k
  <2>1. ends \subseteq Nat
    OBVIOUS
  <2> QED
    BY <1>1, <2>1, LeastOf
<1> HIDE DEF Ended
<1>3. First(n) /\ n \in 1 .. last
  BY <1>2
<1> DEFINE c == CHOOSE k \in 1 .. last : First(k)
<1>4. c \in 1 .. last /\ First(c)
  BY <1>3
<1>5. RunReplay(artifact, late, envelope) = ReplayOnce(artifact, late[c], c)
  BY DEF RunReplay, Ended
<1> HIDE DEF c
<1> QED
  BY <1>4, <1>5 DEF Ended

\* An evaluation has a run exactly when it has a result, within the attempts allowed.
LEMMA EvaluationSound ==
  ASSUME NEW r \in Replays, EvaluateCase(r.artifact, r.late, r.envelope, r.oracle, r.config)
  PROVE  EvaluationConsistent'
<1> DEFINE replay == RunReplay(r.artifact, r.late, r.envelope)
           m == Observe(replay, r.oracle, "replay", r.config)
           try(n) == ReplayOnce(r.artifact, r.late[n], n)
           intime(n) == \A k \in 1 .. 3 : ~r.late[n][k]
<1>1. /\ r.envelope.retries \in Nat
      /\ {r.artifact.pinned, r.artifact.large, r.artifact.strict} \subseteq BOOLEAN
  BY ReplaysAssumption
<1>2. PICK n \in 1 .. r.envelope.retries + 1 :
         /\ replay = try(n) /\ Settled(try(n), r.envelope)
         /\ \A k \in 1 .. n - 1 : ~Settled(try(k), r.envelope)
  BY <1>1, ReplaySettles
<1>3. \A k : /\ try(k).ok \in BOOLEAN /\ try(k).attempts = k
             /\ try(k).ok => /\ intime(k)
                             /\ r.artifact.pinned /\ ~r.artifact.large /\ r.artifact.strict
                             /\ try(k).output = r.artifact.output
             /\ intime(k) /\ r.artifact.pinned /\ ~r.artifact.large /\ r.artifact.strict => try(k).ok
  <2> SUFFICES ASSUME NEW k
               PROVE  /\ try(k).ok \in BOOLEAN /\ try(k).attempts = k
                      /\ try(k).ok => /\ intime(k)
                                      /\ r.artifact.pinned /\ ~r.artifact.large
                                      /\ r.artifact.strict
                                      /\ try(k).output = r.artifact.output
                      /\ intime(k) /\ r.artifact.pinned /\ ~r.artifact.large /\ r.artifact.strict
                            => try(k).ok
    OBVIOUS
  <2>1. intime(k) <=> ~r.late[k][1] /\ ~r.late[k][2] /\ ~r.late[k][3]
    <3>1. 1 .. 3 = {1, 2, 3}
      OBVIOUS
    <3> QED
      BY <3>1
  <2> QED
    BY <1>1, <2>1, ReplayOnceSays
<1>4. evaluated' = [artifact |-> r.artifact, late |-> r.late, envelope |-> r.envelope,
                    oracle |-> r.oracle, config |-> r.config, made |-> m]
  BY DEF EvaluateCase
<1> HIDE DEF replay, try
<1>5. /\ m.attempts = n
      /\ m.run <=> m.result
      /\ m.result => replay.ok /\ replay.output.readable /\ DOMAIN m.scores = r.oracle
      /\ m.verdict = "pass" => \A g \in Gates : m.gates[g] # "fail"
      /\ m.status = "timeout" => ~replay.ok /\ replay.error = "timeout"
  BY <1>2, <1>3, ObservedAs
<1> HIDE DEF m, intime
<1>6. m.result => /\ r.artifact.pinned /\ ~r.artifact.large /\ r.artifact.strict
                  /\ r.artifact.output.readable /\ intime(m.attempts) /\ DOMAIN m.scores = r.oracle
  BY <1>2, <1>3, <1>5
<1>7. \A k \in 1 .. n - 1 : /\ ~try(k).ok /\ try(k).error \in r.envelope.retryOn
                            /\ intime(k) => ~r.artifact.pinned \/ r.artifact.large
                                            \/ ~r.artifact.strict
  BY <1>2, <1>3 DEF Settled
<1>8. m.attempts > 1 => r.envelope.retryOn # {}
  <2> SUFFICES ASSUME n > 1 PROVE r.envelope.retryOn # {}
    BY <1>5
  <2>1. n - 1 \in 1 .. n - 1
    BY <1>2
  <2> QED
    BY <1>7, <2>1
<1>9. m.status = "timeout" /\ "timeout" \in r.envelope.retryOn => m.attempts = r.envelope.retries + 1
  BY <1>1, <1>2, <1>3, <1>5 DEF Settled
<1> DEFINE e == [artifact |-> r.artifact, late |-> r.late, envelope |-> r.envelope,
                 oracle |-> r.oracle, config |-> r.config, made |-> m]
<1>10. /\ e.artifact = r.artifact /\ e.late = r.late /\ e.envelope = r.envelope
       /\ e.oracle = r.oracle /\ e.made = m
  OBVIOUS
<1>11. evaluated' = e
  BY <1>4
<1> HIDE DEF e
<1> QED
  BY <1>2, <1>5, <1>6, <1>7, <1>8, <1>9, <1>10, <1>11 DEF EvaluationConsistent, intime

\* Every step of the pipeline keeps EvaluationConsistent.
LEMMA EvaluationStep == EvaluationConsistent /\ [Next]_vars => EvaluationConsistent'
<1> SUFFICES ASSUME EvaluationConsistent, [Next]_vars PROVE EvaluationConsistent'
  OBVIOUS
<1>1. ASSUME UNCHANGED evaluated PROVE EvaluationConsistent'
  BY <1>1 DEF EvaluationConsistent
<1>2. CASE Evaluating
  BY <1>2, EvaluationSound DEF Evaluating
<1>3. CASE StepJob \/ Capturing \/ Proposing \/ Trying \/ Reviewing \/ Contexts
  BY <1>1, <1>3 DEF StepJob, Capturing, Proposing, Trying, Jobs, Reviewing, Contexts, Desk
<1>4. CASE ToProposal \/ ToReview \/ ToTrial \/ ToSuite
  BY <1>1, <1>4 DEF ToProposal, ToReview, ToTrial, ToSuite, HandOver, Fresh
<1>5. CASE Suiting \/ Collecting \/ Tracing
  BY <1>1, <1>5 DEF Suiting, Collecting, Tracing
<1>6. CASE UNCHANGED vars
  BY <1>1, <1>6 DEF vars
<1> QED
  BY <1>2, <1>3, <1>4, <1>5, <1>6 DEF Next

-----------------------------------------------------------------------------
(***************************************************************************)
(* The suite.                                                              *)
(***************************************************************************)
\* What is kept of one arm under an oracle.
Observations(oracle) ==
    [attempts : Nat, scores : {Unscored} \cup [oracle -> {0, 1}], gates : [Gates -> Statuses],
     verdict : {"pass", "fail", "error", "inconclusive"},
     status : {"scorer_error", "completed", "none"} \cup ErrorClasses,
     result : BOOLEAN, run : BOOLEAN]

\* An observation is kept with its attempts.
LEMMA ObservationKept ==
  ASSUME NEW replay, replay.ok \in BOOLEAN, replay.attempts \in Nat,
         replay.error \in ErrorClasses \cup {"none"},
         NEW oracle, NEW runner, NEW config
  PROVE  Observe(replay, oracle, runner, config) \in Observations(oracle)
<1> DEFINE m == Observe(replay, oracle, runner, config)
           scores == IF replay.ok THEN ScoreWithOracle(replay.output, oracle) ELSE Unscored
           gates == EvaluateGates(replay, scores, runner, config)
           verdict == IF replay.ok /\ scores = Unscored THEN "error"
                      ELSE AssembleVerdict(replay, gates, scores)
           status == IF replay.ok /\ scores = Unscored THEN "scorer_error"
                     ELSE IF replay.ok THEN "completed" ELSE replay.error
<1>1. m = [attempts |-> replay.attempts, scores |-> scores, gates |-> gates,
           verdict |-> verdict, status |-> status,
           result |-> replay.ok /\ ~(replay.ok /\ scores = Unscored),
           run |-> verdict \in {"pass", "fail"}]
  BY DEF Observe
<1>2. scores \in {Unscored} \cup [oracle -> {0, 1}]
  BY DEF ScoreWithOracle
<1>3. gates \in [Gates -> Statuses]
  BY DEF EvaluateGates, Statuses, PatternGate, RegressionGate
<1> HIDE DEF scores, gates
<1>4. verdict \in {"pass", "fail", "error", "inconclusive"}
  BY DEF AssembleVerdict
<1>5. status \in {"scorer_error", "completed", "none"} \cup ErrorClasses
  OBVIOUS
<1> HIDE DEF verdict, status, m
<1> QED
  BY <1>1, <1>2, <1>3, <1>4, <1>5 DEF Observations, m

(***************************************************************************)
(* Counting attempts.                                                      *)
(***************************************************************************)
Summing(f, n, s) == f[0] = 0 /\ \A k \in 1 .. n : f[k] = f[k - 1] + s[k].attempts

\* AttemptsOf is the last of the partial sums.
LEMMA AttemptsSummed ==
  ASSUME NEW s, Len(s) \in Nat, \A i \in 1 .. Len(s) : s[i].attempts \in Nat
  PROVE  \E f \in [0 .. Len(s) -> Nat] : Summing(f, Len(s), s) /\ AttemptsOf(s) = f[Len(s)]
<1> DEFINE n == Len(s)
           move == [k \in 1 .. n |-> [x \in Nat |-> x + s[k].attempts]]
           Body(f) == [k \in 0 .. n |-> IF k = 0 THEN 0 ELSE f[k - 1] + s[k].attempts]
<1>1. n \in Nat /\ 0 \in Nat
  OBVIOUS
<1>2. move \in [1 .. n -> [Nat -> Nat]]
  OBVIOUS
<1>3. \A k \in 1 .. n, x \in Nat : move[k][x] = x + s[k].attempts
  OBVIOUS
<1> HIDE DEF move, n
<1>4. PICK f \in [0 .. n -> Nat] : Recurs(f, n, 0, move)
  BY <1>1, <1>2, Recursion
<1>5. f = Body(f)
  <2> SUFFICES ASSUME NEW k \in 0 .. n
               PROVE  f[k] = IF k = 0 THEN 0 ELSE f[k - 1] + s[k].attempts
    OBVIOUS
  <2>1. f[k] = IF k = 0 THEN 0 ELSE move[k][f[k - 1]]
    BY <1>4 DEF Recurs
  <2>2. k # 0 => k \in 1 .. n /\ f[k - 1] \in Nat
    BY <1>1
  <2> QED
    BY <1>3, <2>1, <2>2
<1> DEFINE sum == CHOOSE g : g = Body(g)
<1>6. sum = Body(sum)
  BY <1>5
<1>7. AttemptsOf(s) = sum[n]
  BY DEF AttemptsOf, n
<1> HIDE DEF sum
<1>8. DOMAIN sum = 0 .. n /\ sum[0] = 0 /\ \A k \in 1 .. n : sum[k] = sum[k - 1] + s[k].attempts
  BY <1>1, <1>6
<1> DEFINE T == {k \in 0 .. n : sum[k] \in Nat}
<1>9. 0 \in T
  BY <1>1, <1>8
<1>10. \A k \in 1 .. n : k - 1 \in T => k \in T
  <2> SUFFICES ASSUME NEW k \in 1 .. n, k - 1 \in T PROVE k \in T
    OBVIOUS
  <2>1. s[k].attempts \in Nat
    BY DEF n
  <2>2. sum[k] = sum[k - 1] + s[k].attempts /\ sum[k - 1] \in Nat
    BY <1>8
  <2>3. k \in 0 .. n
    BY <1>1
  <2> QED
    BY <2>1, <2>2, <2>3
<1> HIDE DEF T
<1>11. \A k \in 0 .. n : k \in T
  BY <1>1, <1>9, <1>10, UpTo
<1>12. sum \in [0 .. n -> Nat]
  BY <1>6, <1>11 DEF T
<1>13. Summing(sum, n, s)
  BY <1>8 DEF Summing
<1> QED
  BY <1>7, <1>12, <1>13 DEF n

\* The sum is the last of the partial sums, whichever function gives them.
LEMMA SummedOnce ==
  ASSUME NEW n \in Nat, NEW s, NEW f, NEW g, Summing(f, n, s), Summing(g, n, s)
  PROVE  f[n] = g[n]
<1> DEFINE T == {k \in 0 .. n : f[k] = g[k]}
<1>1. 0 \in T
  BY DEF Summing
<1>2. \A k \in 1 .. n : k - 1 \in T => k \in T
  BY DEF Summing
<1> HIDE DEF T
<1>3. \A k \in 0 .. n : k \in T
  BY <1>1, <1>2, UpTo
<1> QED
  BY <1>3 DEF T

LEMMA NoAttempts == AttemptsOf(<< >>) = 0
<1>1. PICK f \in [0 .. Len(<< >>) -> Nat] :
         Summing(f, Len(<< >>), << >>) /\ AttemptsOf(<< >>) = f[Len(<< >>)]
  <2>1. Len(<< >>) \in Nat /\ \A i \in 1 .. Len(<< >>) : << >>[i].attempts \in Nat
    OBVIOUS
  <2> QED
    BY <2>1, AttemptsSummed
<1> QED
  BY <1>1 DEF Summing

\* One row more adds its attempts.
LEMMA OneMore ==
  ASSUME NEW S, NEW s \in Seq(S), NEW x \in S, \A y \in S : y.attempts \in Nat
  PROVE  AttemptsOf(Append(s, x)) = AttemptsOf(s) + x.attempts
<1> DEFINE t == Append(s, x)
           n == Len(s)
<1>1. n \in Nat /\ Len(t) = n + 1 /\ t[n + 1] = x
      /\ \A i \in 1 .. n : t[i] = s[i] /\ s[i] \in S
  OBVIOUS
<1>2. PICK f \in [0 .. n -> Nat] : Summing(f, n, s) /\ AttemptsOf(s) = f[n]
  BY <1>1, AttemptsSummed
<1>3. \A i \in 1 .. Len(t) : t[i].attempts \in Nat
  BY <1>1
<1>4. PICK g \in [0 .. Len(t) -> Nat] : Summing(g, Len(t), t) /\ AttemptsOf(t) = g[Len(t)]
  BY <1>1, <1>3, AttemptsSummed
<1> HIDE DEF t, n
<1>5. Summing(g, n, s)
  <2>1. g[0] = 0 /\ \A k \in 1 .. n + 1 : g[k] = g[k - 1] + t[k].attempts
    BY <1>1, <1>4 DEF Summing
  <2>2. \A k \in 1 .. n : k \in 1 .. n + 1 /\ t[k] = s[k]
    BY <1>1
  <2> QED
    BY <2>1, <2>2 DEF Summing
<1>6. g[n] = f[n]
  BY <1>1, <1>2, <1>5, SummedOnce
<1>7. g[n + 1] = g[n] + x.attempts
  BY <1>1, <1>4 DEF Summing
<1> QED
  BY <1>1, <1>2, <1>4, <1>6, <1>7 DEF t, n

-----------------------------------------------------------------------------
(***************************************************************************)
(* The invariant of the suite.                                             *)
(***************************************************************************)
Unbegun == {"idle", "refused", "prerequisite_rejected"}
Grounded == {"observed", "execution_inconclusive", "suite_comparison_completed"}

\* A plan that was derived and not blocked.
SuiteShaped(p) ==
    /\ IsFiniteSet(p.cases) /\ p.cases # {} /\ p.cases = p.members
    /\ IsFiniteSet(p.seeds) /\ p.seeds # {}
    /\ p.envelope.retries \in Nat /\ p.maxAttempts \in Nat
    /\ WorstCase(p) <= p.maxAttempts
    /\ Blockers(p) = {}
    /\ PolicySound(p)

\* The arms run so far, each with no more attempts than the envelope allows.
Running ==
    /\ SuiteShaped(plan)
    /\ results \in Seq(Observations(plan.oracle))
    /\ \A i \in 1 .. Len(results) :
          /\ results[i].run <=> results[i].result
          /\ results[i].result => DOMAIN results[i].scores = plan.oracle
    /\ tries \in 0 .. plan.envelope.retries /\ made \in Nat
    /\ made = AttemptsOf(results) + tries
    /\ made <= Len(results) * (plan.envelope.retries + 1) + tries
    /\ IF phase = "running" THEN Len(results) < 2 * PlannedCells(plan)
       ELSE Len(results) = 2 * PlannedCells(plan) /\ tries = 0

SuiteInv ==
    /\ phase \in Unbegun \cup {"running"} \cup Grounded
    /\ phase \in Unbegun => tries = 0 /\ made = 0 /\ results = << >>
    /\ phase \notin Unbegun => Running
    /\ ComparisonWhole /\ ClaimsCorrected

\* A plan has at least one cell.
LEMMA CellsCounted ==
  ASSUME NEW p, SuiteShaped(p)
  PROVE  PlannedCells(p) \in Nat /\ PlannedCells(p) >= 1
<1>1. Cardinality(p.cases) \in Nat /\ Cardinality(p.cases) # 0
  BY FS_CardinalityType, FS_EmptySet DEF SuiteShaped
<1>2. Cardinality(p.seeds) \in Nat /\ Cardinality(p.seeds) # 0
  BY FS_CardinalityType, FS_EmptySet DEF SuiteShaped
<1>3. \A a, b \in Nat : a # 0 /\ b # 0 => a * b \in Nat /\ a * b >= 1
  OBVIOUS
<1> QED
  BY <1>1, <1>2, <1>3 DEF PlannedCells

\* A plan filled in with the records at hand keeps what the suite was given.
LEMMA SubmitStep ==
  ASSUME SuiteInv, NEW p \in SuitePlans, NEW payload, Submit(Presented(p, payload))
  PROVE  SuiteInv'
<1> DEFINE filled == {"pinned", "static", "semantic", "synthetic"}
           given == {"cases", "members", "seeds", "envelope", "maxAttempts", "oracle", "policy"}
<1>0. PICK q : q = Presented(p, payload)
  OBVIOUS
<1>1. DOMAIN q = DOMAIN p /\ \A x \in DOMAIN p : x \notin filled => q[x] = p[x]
  BY <1>0 DEF Presented
<1>2. given \subseteq DOMAIN p
  BY PlansAssumption
<1>3. /\ q.cases = p.cases /\ q.members = p.members /\ q.seeds = p.seeds
      /\ q.envelope = p.envelope /\ q.maxAttempts = p.maxAttempts /\ q.policy = p.policy
  BY <1>1, <1>2
<1>4. /\ IsFiniteSet(q.cases) /\ IsFiniteSet(q.seeds) /\ q.seeds # {}
      /\ q.envelope.retries \in Nat /\ q.maxAttempts \in Nat /\ PolicySound(q)
  BY <1>3, PlansAssumption DEF PolicySound, PlannedCells
<1>5. /\ phase = "idle" /\ plan' = q
      /\ phase' = IF ~Derivable(q) THEN "refused"
                  ELSE IF Blockers(q) # {} THEN "prerequisite_rejected" ELSE "running"
      /\ UNCHANGED <<tries, made, results, comparison>>
  BY <1>0 DEF Submit
<1>6. tries = 0 /\ made = 0 /\ results = << >>
  BY <1>5 DEF SuiteInv, Unbegun
<1>7. CASE phase' # "running"
  BY <1>5, <1>6, <1>7 DEF SuiteInv, Unbegun, ComparisonWhole, ClaimsCorrected
<1>8. CASE phase' = "running"
  <2>1. SuiteShaped(q)
    BY <1>4, <1>5, <1>8 DEF SuiteShaped, Derivable
  <2>2. 0 < 2 * PlannedCells(q) /\ Len(<< >>) = 0
    BY <2>1, CellsCounted
  <2>3. << >> \in Seq(Observations(q.oracle)) /\ AttemptsOf(<< >>) = 0
    BY NoAttempts
  <2>4. 0 * (q.envelope.retries + 1) = 0 /\ 0 \in 0 .. q.envelope.retries
    BY <1>4
  <2>5. Running'
    BY <1>5, <1>6, <1>8, <2>1, <2>2, <2>3, <2>4 DEF Running
  <2> QED
    BY <1>8, <2>5 DEF SuiteInv, Unbegun, ComparisonWhole, ClaimsCorrected
<1> QED
  BY <1>7, <1>8

\* What an adapter returns, as the suite keeps it.
LEMMA NormalizedAs ==
  ASSUME NEW raw, NEW n \in Nat
  PROVE  LET replay == Normalize(raw, n)
         IN  replay.ok \in BOOLEAN /\ replay.attempts = n
             /\ replay.error \in ErrorClasses \cup {"none"}
<1>1. CASE raw.kind = "output"
  BY <1>1 DEF Normalize, Success, ErrorClasses
<1>2. CASE raw.kind \in ErrorClasses /\ raw.kind # "output"
  BY <1>2 DEF Normalize, Failure
<1>3. CASE raw.kind \notin ErrorClasses /\ raw.kind # "output"
  BY <1>3 DEF Normalize, Failure, ErrorClasses
<1> QED
  BY <1>1, <1>2, <1>3

LEMMA OneRowMore ==
  ASSUME NEW a \in Nat, NEW b \in Nat
  PROVE  (a + 1) * b = a * b + b /\ a * b \in Nat
OBVIOUS

\* One observation more counts its attempts.
LEMMA AttemptsGrow ==
  ASSUME NEW oracle, NEW s \in Seq(Observations(oracle))
  PROVE  /\ AttemptsOf(s) \in Nat
         /\ \A x \in Observations(oracle) : AttemptsOf(Append(s, x)) = AttemptsOf(s) + x.attempts
<1>1. \A y \in Observations(oracle) : y.attempts \in Nat
  BY DEF Observations
<1>2. Len(s) \in Nat /\ \A i \in 1 .. Len(s) : s[i] \in Observations(oracle)
  OBVIOUS
<1>3. PICK f \in [0 .. Len(s) -> Nat] : Summing(f, Len(s), s) /\ AttemptsOf(s) = f[Len(s)]
  BY <1>1, <1>2, AttemptsSummed
<1>4. Len(s) \in 0 .. Len(s)
  BY <1>2
<1> QED
  BY <1>1, <1>3, <1>4, OneMore

\* One call of the adapter, with what follows it, keeps SuiteInv.
LEMMA AttemptStep ==
  ASSUME SuiteInv, NEW raw, Attempt(raw)
  PROVE  SuiteInv'
<1> DEFINE replay == Normalize(raw, tries + 1)
           over == Settled(replay, plan.envelope)
           seen == Observe(replay, plan.oracle, plan.runner, plan.config)
           c == plan.envelope.retries + 1
           L == Len(results)
           P == PlannedCells(plan)
<1>1. phase = "running" /\ Running
  BY DEF Attempt, SuiteInv, Unbegun
<1>2. /\ SuiteShaped(plan) /\ plan.envelope.retries \in Nat
      /\ tries \in 0 .. plan.envelope.retries /\ made \in Nat
      /\ results \in Seq(Observations(plan.oracle))
      /\ made = AttemptsOf(results) + tries /\ made <= L * c + tries
      /\ L < 2 * P
  BY <1>1 DEF Running, SuiteShaped
<1>3. tries \in Nat /\ L \in Nat /\ P \in Nat /\ c \in Nat
  BY <1>2, CellsCounted
<1>4. replay.ok \in BOOLEAN /\ replay.attempts = tries + 1
      /\ replay.error \in ErrorClasses \cup {"none"}
  BY <1>3, NormalizedAs
<1>5. seen \in Observations(plan.oracle) /\ seen.attempts = tries + 1
      /\ (seen.run <=> seen.result) /\ (seen.result => DOMAIN seen.scores = plan.oracle)
  BY <1>3, <1>4, ObservationKept, ObservedAs
<1>6. /\ made' = made + 1
      /\ tries' = IF over THEN 0 ELSE tries + 1
      /\ results' = IF over THEN Append(results, seen) ELSE results
      /\ phase' = IF Len(results') = 2 * P THEN "observed" ELSE "running"
      /\ plan' = plan
  BY DEF Attempt
<1>7. ~over => tries + 1 <= plan.envelope.retries
  BY <1>3, <1>4, <1>2 DEF Settled
<1> HIDE DEF replay, over, seen
<1>8. phase' \in {"observed", "running"}
  BY <1>6
<1>9. Running'
  <2>1. CASE ~over
    <3>1. tries' = tries + 1 /\ results' = results /\ phase' = "running"
      BY <1>2, <1>3, <1>6, <2>1
    <3>2. L * c \in Nat
      BY <1>3
    <3>3. made + 1 = AttemptsOf(results) + (tries + 1) /\ made + 1 <= L * c + (tries + 1)
      <4>1. AttemptsOf(results) \in Nat
        BY <1>2, AttemptsGrow
      <4>2. \A x \in Nat : made <= x + tries => made + 1 <= x + (tries + 1)
        BY <1>2, <1>3
      <4>3. made + 1 <= L * c + (tries + 1)
        BY <1>2, <3>2, <4>2
      <4>4. made + 1 = AttemptsOf(results) + (tries + 1)
        BY <1>2, <1>3, <4>1
      <4> QED
        BY <4>3, <4>4
    <3>4. tries + 1 \in 0 .. plan.envelope.retries /\ made + 1 \in Nat
      BY <1>2, <1>3, <1>7, <2>1
    <3> QED
      BY <1>1, <1>2, <1>6, <3>1, <3>3, <3>4 DEF Running
  <2>2. CASE over
    <3>1. tries' = 0 /\ results' = Append(results, seen)
      BY <1>6, <2>2
    <3>2. /\ results' \in Seq(Observations(plan.oracle)) /\ Len(results') = L + 1
          /\ results'[L + 1] = seen /\ \A i \in 1 .. L : results'[i] = results[i]
      BY <1>2, <1>5, <3>1
    <3>3. \A i \in 1 .. L + 1 :
             /\ results'[i].run <=> results'[i].result
             /\ results'[i].result => DOMAIN results'[i].scores = plan.oracle
      <4> SUFFICES ASSUME NEW i \in 1 .. L + 1
                   PROVE  /\ results'[i].run <=> results'[i].result
                          /\ results'[i].result => DOMAIN results'[i].scores = plan.oracle
        OBVIOUS
      <4>1. CASE i = L + 1
        BY <1>5, <3>2, <4>1
      <4>2. CASE i # L + 1
        <5>1. i \in 1 .. L
          BY <1>3, <4>2
        <5> QED
          BY <1>1, <3>2, <5>1 DEF Running
      <4> QED
        BY <4>1, <4>2
    <3>4. AttemptsOf(results') = AttemptsOf(results) + (tries + 1) /\ AttemptsOf(results) \in Nat
      BY <1>2, <1>5, <3>1, AttemptsGrow
    <3>5. made + 1 = AttemptsOf(results') + 0
      BY <1>2, <1>3, <3>4
    <3>6. made + 1 <= (L + 1) * c + 0
      <4>1. (L + 1) * c = L * c + c /\ L * c \in Nat
        BY <1>3, OneRowMore
      <4>2. tries + 1 <= c
        BY <1>2
      <4>3. \A x \in Nat : made <= x + tries => made + 1 <= x + c + 0
        <5>1. made \in Nat /\ tries \in Nat /\ c \in Nat
          BY <1>2, <1>3
        <5> HIDE DEF c
        <5> QED
          BY <4>2, <5>1
      <4>4. made + 1 <= L * c + c + 0
        BY <1>2, <4>1, <4>3
      <4> QED
        BY <4>1, <4>4
    <3>7. IF phase' = "running" THEN L + 1 < 2 * P ELSE L + 1 = 2 * P
      BY <1>2, <1>3, <1>6, <3>2
    <3>8. 0 \in 0 .. plan.envelope.retries /\ made + 1 \in Nat
      BY <1>2
    <3> QED
      BY <1>2, <1>6, <3>1, <3>2, <3>3, <3>5, <3>6, <3>7, <3>8 DEF Running
  <2> QED
    BY <2>1, <2>2
<1> QED
  BY <1>8, <1>9 DEF SuiteInv, Unbegun, Grounded, ComparisonWhole, ClaimsCorrected

-----------------------------------------------------------------------------
(***************************************************************************)
(* The comparison of a whole grid.                                         *)
(***************************************************************************)
LEMMA ExtremeCounts ==
  ASSUME NEW n \in Nat, NEW d, DOMAIN d = 1 .. n
  PROVE  Extreme(d) \in Nat
<1> DEFINE far == {S \in SUBSET DOMAIN d :
                      Magnitude(Total(d, S) - Total(d, DOMAIN d \ S)) >= Magnitude(Total(d, DOMAIN d))}
<1>1. IsFiniteSet(SUBSET DOMAIN d)
  <2>1. IsFiniteSet(DOMAIN d)
    BY FS_Interval
  <2> QED
    BY <2>1, FS_SUBSET
<1>2. far \in SUBSET (SUBSET DOMAIN d)
  OBVIOUS
<1>3. Extreme(d) = Cardinality(far)
  BY DEF Extreme
<1> HIDE DEF far
<1>4. IsFiniteSet(far)
  BY <1>1, <1>2, FS_Subset
<1> QED
  BY <1>3, <1>4, FS_CardinalityType

\* The sign assignments of the exact test are finite in number.
LEMMA AssignmentsCount ==
  ASSUME NEW n \in Nat
  PROVE  SignAssignments(n) \in Nat
<1>1. IsFiniteSet(SUBSET (1 .. n))
  <2>1. IsFiniteSet(1 .. n)
    BY FS_Interval
  <2> QED
    BY <2>1, FS_SUBSET
<1> QED
  BY <1>1, FS_CardinalityType DEF SignAssignments

\* A claim needs a sample of the frozen size and a p-value that survives the
\* correction.
LEMMA ClaimNeeds ==
  ASSUME NEW metric, metric.role \in {"primary", "guardrail"},
         NEW pairs \in Nat, NEW low, NEW high, NEW adjusted, NEW policy,
         policy.minimumPairs \in Nat,
         NEW said, said = InferenceStatus(metric, pairs, low, high, adjusted, policy)
  PROVE  /\ said # "insufficient_pairs" => pairs >= policy.minimumPairs
         /\ said = "improvement_supported"
            \/ (said = "regression_supported" /\ metric.role = "primary") =>
               adjusted <= policy.error
<1>1. CASE pairs < policy.minimumPairs
  <2>1. said = "insufficient_pairs"
    BY <1>1 DEF InferenceStatus
  <2> QED
    BY <2>1
<1>2. CASE pairs >= policy.minimumPairs /\ metric.role = "guardrail"
  <2>1. said \in {"noninferior", "regression_supported", "inconclusive"}
    BY <1>2 DEF InferenceStatus
  <2> QED
    BY <1>2, <2>1
<1>3. CASE pairs >= policy.minimumPairs /\ metric.role = "primary"
  <2>1. said = CASE low > metric.rope * pairs /\ adjusted <= policy.error ->
                         "improvement_supported"
                   [] high < -metric.rope * pairs /\ adjusted <= policy.error ->
                         "regression_supported"
                   [] OTHER -> "inconclusive"
    BY <1>3 DEF InferenceStatus
  <2> QED
    BY <1>3, <2>1
<1> QED
  BY <1>1, <1>2, <1>3

\* The two arms in one row are the observations, each once.
LEMMA ArmsInRow ==
  ASSUME NEW S, results \in Seq(S), NEW P \in Nat, Len(results) = 2 * P
  PROVE  /\ Len(Baseline) = P /\ Len(Candidate) = P /\ Len(results) \div 2 = P
         /\ Len(Baseline \o Candidate) = 2 * P
         /\ \A i \in 1 .. 2 * P : \E k \in 1 .. 2 * P : (Baseline \o Candidate)[i] = results[k]
         /\ \A k \in 1 .. 2 * P : \E i \in 1 .. 2 * P : (Baseline \o Candidate)[i] = results[k]
         /\ \A k \in 1 .. 2 * P : \E c \in 1 .. P : results[k] \in {Baseline[c], Candidate[c]}
<1>1. Len(results) \div 2 = P
  OBVIOUS
<1>2. /\ Baseline = [c \in 1 .. P |-> results[2 * c - 1]]
      /\ Candidate = [c \in 1 .. P |-> results[2 * c]]
  <2>1. \A c \in 1 .. P : 2 * c - 0 = 2 * c
    OBVIOUS
  <2> QED
    BY <1>1, <2>1 DEF Baseline, Candidate, Arm
<1>3. \A c \in 1 .. P : 2 * c - 1 \in 1 .. 2 * P /\ 2 * c \in 1 .. 2 * P
  OBVIOUS
<1>4. \A k \in 1 .. 2 * P : results[k] \in S
  OBVIOUS
<1>5. Baseline \in [1 .. P -> S] /\ Candidate \in [1 .. P -> S]
  BY <1>2, <1>3, <1>4
<1>6. Baseline \in Seq(S) /\ Candidate \in Seq(S) /\ Len(Baseline) = P /\ Len(Candidate) = P
  BY <1>5
<1> DEFINE row == Baseline \o Candidate
<1>7. /\ Len(row) = 2 * P
      /\ \A i \in 1 .. P : row[i] = Baseline[i]
      /\ \A i \in 1 .. P : row[P + i] = Candidate[i]
  BY <1>6
<1>8. \A k \in 1 .. 2 * P : \E c \in 1 .. P : k = 2 * c - 1 \/ k = 2 * c
  <2> SUFFICES ASSUME NEW k \in 1 .. 2 * P PROVE \E c \in 1 .. P : k = 2 * c - 1 \/ k = 2 * c
    OBVIOUS
  <2>1. (k + 1) \div 2 \in 1 .. P /\ (k = 2 * ((k + 1) \div 2) - 1 \/ k = 2 * ((k + 1) \div 2))
    OBVIOUS
  <2> QED
    BY <2>1
<1> HIDE DEF row
<1>9. \A i \in 1 .. 2 * P : \E k \in 1 .. 2 * P : row[i] = results[k]
  <2> SUFFICES ASSUME NEW i \in 1 .. 2 * P PROVE \E k \in 1 .. 2 * P : row[i] = results[k]
    OBVIOUS
  <2>1. CASE i <= P
    <3>1. i \in 1 .. P /\ row[i] = results[2 * i - 1]
      BY <1>2, <1>7, <2>1
    <3> QED
      BY <1>3, <3>1
  <2>2. CASE i > P
    <3>1. i - P \in 1 .. P /\ i = P + (i - P)
      BY <2>2
    <3>2. row[P + (i - P)] = results[2 * (i - P)]
      BY <1>2, <1>7, <3>1
    <3>3. row[i] = results[2 * (i - P)]
      BY <3>1, <3>2
    <3> QED
      BY <1>3, <3>1, <3>3
  <2> QED
    BY <2>1, <2>2
<1>10. \A k \in 1 .. 2 * P : \E i \in 1 .. 2 * P : row[i] = results[k]
  <2> SUFFICES ASSUME NEW k \in 1 .. 2 * P PROVE \E i \in 1 .. 2 * P : row[i] = results[k]
    OBVIOUS
  <2>1. PICK c \in 1 .. P : k = 2 * c - 1 \/ k = 2 * c
    BY <1>8
  <2>2. c \in 1 .. 2 * P /\ P + c \in 1 .. 2 * P
    OBVIOUS
  <2>3. row[c] = results[2 * c - 1] /\ row[P + c] = results[2 * c]
    BY <1>2, <1>7
  <2> QED
    BY <2>1, <2>2, <2>3
<1>11. \A k \in 1 .. 2 * P : \E c \in 1 .. P : results[k] \in {Baseline[c], Candidate[c]}
  BY <1>2, <1>8
<1> QED
  BY <1>1, <1>6, <1>7, <1>9, <1>10, <1>11 DEF row

\* What a comparison is computed from, field by field.
LEMMA CompareSays ==
  ASSUME NEW champion, NEW challenger, NEW ends, NEW policy
  PROVE  LET said == Compare(champion, challenger, ends, policy)
         IN  /\ said.pairs = Len(champion)
             /\ said.gates = FoldManyGates(champion \o challenger)
             /\ DOMAIN said.raw = DOMAIN policy.metrics
             /\ \A m \in DOMAIN policy.metrics :
                   \E d : DOMAIN d = 1 .. Len(champion) /\ said.raw[m] = Extreme(d)
             /\ \A m \in DOMAIN policy.metrics :
                   said.inference[m] = InferenceStatus(policy.metrics[m], Len(champion),
                       ends[m][1], ends[m][2],
                       HolmAdjust(said.raw, SignAssignments(Len(champion)))[m], policy)
<1> DEFINE diffs(m) == [i \in 1 .. Len(champion) |->
              policy.metrics[m].sign * (challenger[i].scores[policy.metrics[m].dimension]
                                        - champion[i].scores[policy.metrics[m].dimension])]
           raw == [m \in DOMAIN policy.metrics |-> Extreme(diffs(m))]
           said == Compare(champion, challenger, ends, policy)
<1>1. /\ said.pairs = Len(champion) /\ said.raw = raw
      /\ said.gates = FoldManyGates(champion \o challenger)
      /\ said.inference = [m \in DOMAIN policy.metrics |->
            InferenceStatus(policy.metrics[m], Len(champion), ends[m][1], ends[m][2],
                            HolmAdjust(raw, SignAssignments(Len(champion)))[m], policy)]
  BY DEF Compare
<1>2. \A m \in DOMAIN policy.metrics :
         DOMAIN diffs(m) = 1 .. Len(champion) /\ raw[m] = Extreme(diffs(m))
  OBVIOUS
<1>3. DOMAIN raw = DOMAIN policy.metrics
  OBVIOUS
<1> HIDE DEF said, raw, diffs
<1> QED
  BY <1>1, <1>2, <1>3 DEF said

\* A supported primary claim has its sample and survives the correction.
LEMMA ClaimsHold ==
  ASSUME SuiteShaped(plan), NEW P \in Nat, P = PlannedCells(plan),
         NEW champion, NEW challenger, NEW ends, Len(champion) = P,
         phase' = "suite_comparison_completed", plan' = plan,
         comparison' = Compare(champion, challenger, ends, plan.policy)
  PROVE  ClaimsCorrected'
<1> DEFINE metrics == plan.policy.metrics
           raw == comparison'.raw
           unit == SignAssignments(P)
           error == plan.policy.error
<1>1. /\ comparison'.pairs = P /\ DOMAIN raw = DOMAIN metrics
      /\ \A m \in DOMAIN metrics : \E d : DOMAIN d = 1 .. P /\ raw[m] = Extreme(d)
      /\ \A m \in DOMAIN metrics : \E low, high :
            comparison'.inference[m] = InferenceStatus(metrics[m], P, low, high,
                                                       HolmAdjust(raw, unit)[m], plan.policy)
  BY CompareSays
<1>2. /\ IsFiniteSet(DOMAIN raw) /\ DOMAIN raw \subseteq Nat
      /\ error \in Nat /\ plan.policy.minimumPairs \in Nat /\ error < unit
      /\ \A m \in DOMAIN metrics : metrics[m].role \in {"primary", "guardrail"}
  BY <1>1 DEF SuiteShaped, PolicySound
<1>3. \A m \in DOMAIN raw : raw[m] \in Nat
  BY <1>1, ExtremeCounts
<1>4. unit \in Nat
  BY AssignmentsCount
<1> HIDE DEF raw, unit
<1>5. ASSUME NEW m \in DOMAIN metrics
      PROVE  LET said == comparison'.inference[m]
             IN  /\ said # "insufficient_pairs" => P >= plan.policy.minimumPairs
                 /\ said = "improvement_supported"
                    \/ (said = "regression_supported" /\ metrics[m].role = "primary") =>
                       \A S \in SUBSET DOMAIN metrics :
                           m \in S => \E k \in S : Cardinality(S) * raw[k] <= error
  <2> DEFINE said == comparison'.inference[m]
  <2>1. PICK low, high : said = InferenceStatus(metrics[m], P, low, high,
                                                HolmAdjust(raw, unit)[m], plan.policy)
    BY <1>1
  <2>2. /\ said # "insufficient_pairs" => P >= plan.policy.minimumPairs
        /\ said = "improvement_supported"
           \/ (said = "regression_supported" /\ metrics[m].role = "primary") =>
              HolmAdjust(raw, unit)[m] <= error
    BY <1>2, <2>1, ClaimNeeds
  <2>3. ASSUME HolmAdjust(raw, unit)[m] <= error, NEW S \in SUBSET DOMAIN metrics, m \in S
        PROVE  \E k \in S : Cardinality(S) * raw[k] <= error
    BY <1>1, <1>2, <1>3, <1>4, <2>3, HolmCorrects
  <2> HIDE DEF said
  <2> QED
    BY <2>2, <2>3 DEF said
<1> QED
  BY <1>1, <1>5 DEF ClaimsCorrected, raw

\* What ComparisonWhole says of the observations, the comparison and the plan.
WholeGrid(done, said, p) ==
    /\ said.pairs = Cardinality(p.members) * Cardinality(p.seeds)
    /\ Len(done) = 2 * said.pairs
    /\ \A i \in DOMAIN done : done[i].result /\ DOMAIN done[i].scores = p.oracle
    /\ DOMAIN said.gates = {g \in Gates : {done[i].gates[g] : i \in DOMAIN done} # {"not_applicable"}}
    /\ \A g \in DOMAIN said.gates :
          said.gates[g] = "fail" <=> "fail" \in {done[i].gates[g] : i \in DOMAIN done}

\* ComparisonWhole and WholeGrid are one thing, now and after a step.
LEMMA WholeNow ==
  ComparisonWhole <=> (phase = "suite_comparison_completed" => WholeGrid(results, comparison, plan))
BY DEF ComparisonWhole, WholeGrid

LEMMA WholeThen ==
  ComparisonWhole' <=> (phase' = "suite_comparison_completed" => WholeGrid(results', comparison', plan'))
BY DEF ComparisonWhole, WholeGrid

\* A completed comparison stands on the whole grid.
LEMMA GridHolds ==
  ASSUME Running, phase = "observed", GridComplete, NEW ends,
         phase' = "suite_comparison_completed", plan' = plan, results' = results,
         comparison' = Compare(Baseline, Candidate, ends, plan.policy)
  PROVE  ComparisonWhole'
<1> DEFINE P == PlannedCells(plan)
           row == Baseline \o Candidate
           S == Observations(plan.oracle)
           gate(g) == {results[i].gates[g] : i \in DOMAIN results}
<1>1. /\ SuiteShaped(plan) /\ results \in Seq(S) /\ Len(results) = 2 * P
      /\ P \in Nat /\ P >= 1
      /\ \A i \in 1 .. Len(results) :
            /\ results[i].run <=> results[i].result
            /\ results[i].result => DOMAIN results[i].scores = plan.oracle
  BY CellsCounted DEF Running
<1> HIDE DEF P
<1>2. /\ Len(Baseline) = P /\ Len(results) \div 2 = P
      /\ Len(row) = 2 * P
      /\ \A i \in 1 .. 2 * P : \E k \in 1 .. 2 * P : row[i] = results[k]
      /\ \A k \in 1 .. 2 * P : \E i \in 1 .. 2 * P : row[i] = results[k]
      /\ \A k \in 1 .. 2 * P : \E c \in 1 .. P : results[k] \in {Baseline[c], Candidate[c]}
  BY <1>1, ArmsInRow
<1>3. \A i \in 1 .. 2 * P : results[i].result /\ DOMAIN results[i].scores = plan.oracle
  <2>1. \A c \in 1 .. P : Baseline[c].run /\ Candidate[c].run
    BY <1>2 DEF GridComplete
  <2> QED
    BY <1>1, <1>2, <2>1
<1>4. /\ comparison'.pairs = P /\ comparison'.gates = FoldManyGates(row)
  BY <1>2, CompareSays
<1> HIDE DEF row
<1>5. \A i \in 1 .. 2 * P : results[i].gates \in [Gates -> Statuses]
  <2>1. \A i \in 1 .. 2 * P : results[i] \in Observations(plan.oracle)
    BY <1>1
  <2> QED
    BY <2>1 DEF Observations
<1>6. \A i \in 1 .. 2 * P : row[i].gates \in GateMaps
  BY <1>2, <1>5 DEF GateMaps
<1>7. /\ FoldManyGates(row) \in GateMaps
      /\ \A g \in Gates :
            /\ g \in DOMAIN FoldManyGates(row) <=> \E i \in 1 .. 2 * P : Judges(row[i].gates, g)
            /\ Fails(FoldManyGates(row), g) <=> \E i \in 1 .. 2 * P : Fails(row[i].gates, g)
  <2>1. 2 * P \in Nat /\ 2 * P >= 2
    BY <1>1
  <2> QED
    BY <1>2, <1>6, <2>1, FoldManySays
<1>8. DOMAIN results = 1 .. 2 * P
  BY <1>1
<1>9. ASSUME NEW g \in Gates
      PROVE  /\ g \in DOMAIN FoldManyGates(row) <=> gate(g) # {"not_applicable"}
             /\ Fails(FoldManyGates(row), g) <=> "fail" \in gate(g)
  <2>1. (\E i \in 1 .. 2 * P : Judges(row[i].gates, g))
        <=> (\E k \in 1 .. 2 * P : results[k].gates[g] \in {"pass", "fail"})
    BY <1>2, <1>5 DEF Judges
  <2>2. (\E i \in 1 .. 2 * P : Fails(row[i].gates, g))
        <=> (\E k \in 1 .. 2 * P : results[k].gates[g] = "fail")
    <3>1. \A k \in 1 .. 2 * P : Fails(results[k].gates, g) <=> results[k].gates[g] = "fail"
      BY <1>5 DEF Fails
    <3>2. (\E i \in 1 .. 2 * P : Fails(row[i].gates, g))
          <=> (\E k \in 1 .. 2 * P : Fails(results[k].gates, g))
      BY <1>2
    <3> QED
      BY <3>1, <3>2
  <2>3. \A k \in 1 .. 2 * P : results[k].gates[g] \in Statuses
    BY <1>5
  <2>4. 1 \in 1 .. 2 * P
    BY <1>1
  <2>5. (gate(g) # {"not_applicable"})
        <=> (\E k \in 1 .. 2 * P : results[k].gates[g] \in {"pass", "fail"})
    BY <1>8, <2>3, <2>4 DEF Statuses
  <2>6. "fail" \in gate(g) <=> \E k \in 1 .. 2 * P : results[k].gates[g] = "fail"
    BY <1>8
  <2> QED
    BY <1>7, <2>1, <2>2, <2>5, <2>6
<1>10. DOMAIN FoldManyGates(row) \subseteq Gates
  BY <1>7 DEF GateMaps
<1>11. /\ DOMAIN comparison'.gates = {g \in Gates : gate(g) # {"not_applicable"}}
       /\ \A g \in DOMAIN comparison'.gates : comparison'.gates[g] = "fail" <=> "fail" \in gate(g)
  BY <1>4, <1>9, <1>10 DEF Fails
<1>12. P = Cardinality(plan.members) * Cardinality(plan.seeds)
  BY <1>1 DEF SuiteShaped, PlannedCells, P
<1>13. Len(results) = 2 * comparison'.pairs
  BY <1>1, <1>4
<1>14. /\ plan' = plan /\ results' = results
       /\ comparison'.pairs = Cardinality(plan.members) * Cardinality(plan.seeds)
       /\ Len(results) = 2 * comparison'.pairs
       /\ \A i \in DOMAIN results : results[i].result /\ DOMAIN results[i].scores = plan.oracle
  BY <1>3, <1>4, <1>8, <1>12, <1>13
<1>15. WholeGrid(results, comparison', plan)
  BY <1>11, <1>14 DEF WholeGrid
<1> QED
  BY <1>14, <1>15, WholeThen

\* Every step of the pipeline keeps SuiteInv.
LEMMA SuiteStep == SuiteInv /\ [Next]_vars => SuiteInv'
<1> SUFFICES ASSUME SuiteInv, [Next]_vars PROVE SuiteInv'
  OBVIOUS
<1>1. ASSUME UNCHANGED suiteVars PROVE SuiteInv'
  <2>1. (phase \notin Unbegun => Running)'
    BY <1>1 DEF suiteVars, SuiteInv, Running
  <2>2. ComparisonWhole'
    <3>1. /\ phase' = phase /\ plan' = plan /\ results' = results /\ comparison' = comparison
          /\ ComparisonWhole
      BY <1>1 DEF suiteVars, SuiteInv
    <3> QED
      BY <3>1, WholeNow, WholeThen
  <2>3. ClaimsCorrected'
    BY <1>1 DEF suiteVars, SuiteInv, ClaimsCorrected
  <2> QED
    BY <1>1, <2>1, <2>2, <2>3 DEF suiteVars, SuiteInv
<1>2. CASE Suiting
  <2>1. ASSUME NEW raw, Attempt(raw) PROVE SuiteInv'
    BY <2>1, AttemptStep
  <2>2. CASE ConcludeIncomplete
    <3>1. Running' /\ phase' = "execution_inconclusive"
      BY <2>2 DEF ConcludeIncomplete, SuiteInv, Unbegun, Running
    <3> QED
      BY <3>1 DEF SuiteInv, Unbegun, Grounded, ComparisonWhole, ClaimsCorrected
  <2>3. CASE ConcludeCompared
    <3>1. PICK ends \in IntervalEnds(Baseline, Candidate, plan.policy) :
             comparison' = Compare(Baseline, Candidate, ends, plan.policy)
      BY <2>3 DEF ConcludeCompared
    <3>2. /\ Running /\ phase = "observed" /\ GridComplete
          /\ phase' = "suite_comparison_completed" /\ UNCHANGED <<plan, tries, made, results>>
      BY <2>3 DEF ConcludeCompared, SuiteInv, Unbegun
    <3>3. /\ SuiteShaped(plan) /\ Len(results) = 2 * PlannedCells(plan)
          /\ PlannedCells(plan) \in Nat /\ results \in Seq(Observations(plan.oracle))
      BY <3>2, CellsCounted DEF Running
    <3>4. Len(Baseline) = PlannedCells(plan)
      BY <3>3, ArmsInRow
    <3>5. ClaimsCorrected'
      BY <3>1, <3>2, <3>3, <3>4, ClaimsHold
    <3>6. ComparisonWhole'
      BY <3>1, <3>2, GridHolds
    <3>7. Running'
      BY <3>2 DEF Running
    <3> QED
      BY <3>2, <3>5, <3>6, <3>7 DEF SuiteInv, Unbegun, Grounded
  <2> QED
    BY <1>2, <2>1, <2>2, <2>3 DEF Suiting
<1>3. CASE Collecting
  BY <1>3 DEF Collecting, Collect, SuiteInv, Unbegun, ComparisonWhole, ClaimsCorrected
<1>4. CASE ToSuite
  BY <1>4, SubmitStep DEF ToSuite
<1>5. CASE StepJob \/ Capturing \/ Proposing \/ Trying \/ Reviewing \/ Contexts
  BY <1>1, <1>5 DEF StepJob, Capturing, Proposing, Trying, Jobs, Reviewing, Contexts, Desk
<1>6. CASE ToProposal \/ ToReview \/ ToTrial \/ Evaluating \/ Tracing
  BY <1>1, <1>6 DEF ToProposal, ToReview, ToTrial, Fresh, Evaluating, Tracing
<1>7. CASE UNCHANGED vars
  BY <1>1, <1>7 DEF vars
<1> QED
  BY <1>2, <1>3, <1>4, <1>5, <1>6, <1>7 DEF Next

\* The attempts a suite reports are the calls its adapter received.
LEMMA Accounted == SuiteInv => AttemptsAccounted
<1> SUFFICES ASSUME SuiteInv PROVE AttemptsAccounted
  OBVIOUS
<1>1. CASE phase \in Unbegun
  BY <1>1, NoAttempts DEF SuiteInv, AttemptsAccounted, ObservedAttempts, Unbegun
<1>2. CASE phase \notin Unbegun
  <2> DEFINE c == plan.envelope.retries + 1
             L == Len(results)
             P == PlannedCells(plan)
  <2>1. Running
    BY <1>2 DEF SuiteInv
  <2>2. /\ L \in Nat /\ P \in Nat /\ c \in Nat /\ tries \in Nat /\ made \in Nat
        /\ plan.maxAttempts \in Nat
        /\ made = AttemptsOf(results) + tries /\ made <= L * c + tries
        /\ Blockers(plan) = {} /\ P * 2 * c <= plan.maxAttempts
    <3>1. SuiteShaped(plan) /\ plan.envelope.retries \in Nat /\ plan.maxAttempts \in Nat
          /\ Blockers(plan) = {}
      BY <2>1 DEF Running, SuiteShaped
    <3>2. P \in Nat
      BY <3>1, CellsCounted
    <3>3. WorstCase(plan) <= plan.maxAttempts
      BY <3>1 DEF SuiteShaped
    <3>4. L \in Nat /\ c \in Nat /\ tries \in Nat /\ made \in Nat
          /\ made = AttemptsOf(results) + tries /\ made <= L * c + tries
      BY <2>1, <3>1 DEF Running
    <3> QED
      BY <3>1, <3>2, <3>3, <3>4 DEF WorstCase
  <2>3. \/ L + 1 <= 2 * P /\ tries <= c
        \/ L = 2 * P /\ tries = 0
    <3>1. plan.envelope.retries \in Nat /\ tries \in 0 .. plan.envelope.retries
      BY <2>1 DEF Running, SuiteShaped
    <3>2. IF phase = "running" THEN L < 2 * P ELSE L = 2 * P /\ tries = 0
      BY <2>1 DEF Running
    <3>3. L \in Nat /\ P \in Nat
      BY <2>2
    <3> HIDE DEF L, P
    <3> QED
      BY <3>1, <3>2, <3>3
  <2> HIDE DEF c, L, P
  <2>4. made <= (2 * P) * c
    <3>1. CASE L + 1 <= 2 * P /\ tries <= c
      <4>1. (L + 1) * c <= (2 * P) * c
        BY <2>2, <3>1, TimesMonotone
      <4>2. (L + 1) * c = L * c + c /\ L * c \in Nat
        BY <2>2, OneRowMore
      <4>3. made <= L * c + c
        BY <2>2, <3>1, <4>2
      <4>4. (2 * P) * c \in Nat
        BY <2>2
      <4> QED
        BY <2>2, <4>1, <4>2, <4>3, <4>4
    <3>2. CASE L = 2 * P /\ tries = 0
      <4>1. L * c = (2 * P) * c /\ L * c \in Nat
        BY <2>2, <3>2
      <4> QED
        BY <2>2, <3>2, <4>1
    <3> QED
      BY <2>3, <3>1, <3>2
  <2>5. (2 * P) * c = P * 2 * c /\ (2 * P) * c \in Nat
    BY <2>2
  <2>6. made <= plan.maxAttempts
    BY <2>2, <2>4, <2>5
  <2>7. phase \notin {"refused", "prerequisite_rejected"}
    BY <1>2 DEF Unbegun
  <2> QED
    BY <2>2, <2>6, <2>7 DEF AttemptsAccounted, ObservedAttempts
<1> QED
  BY <1>1, <1>2

\* Neither a replay nor either kind of forward test claims more than its runs show:
\* a run exists exactly when a result does; a suite calls its adapter within the
\* frozen budget and counts every call; a comparison stands on the whole grid; and a
\* supported claim survives the correction for several metrics
\* (evaluate_case, run_agent_skill_forward_trial, run_skill_forward_suite).
THEOREM TrialsAreJustified == Spec => []TrialsJustified
<1>1. Init => SuiteInv /\ EvaluationConsistent
  BY DEF Init, SuiteInit, SuiteInv, Unbegun, ComparisonWhole, ClaimsCorrected,
     EvaluationInit, EvaluationConsistent
<1>2. (SuiteInv /\ EvaluationConsistent) /\ [Next]_vars => (SuiteInv /\ EvaluationConsistent)'
  BY SuiteStep, EvaluationStep
<1>3. SuiteInv => SuiteJustified
  BY Accounted DEF SuiteInv, SuiteJustified
<1> QED
  BY <1>1, <1>2, <1>3, SmokesAreJustified, PTL DEF Spec, TrialsJustified
=============================================================================
