-------------------------- MODULE InterruptionProofs --------------------------
(***************************************************************************)
(* Theorems about checkpoint recovery and its controlled interruption, for *)
(* any number of calls that share the directory, with whatever orphans the *)
(* ones that crashed have left in it, and for any fixtures.                *)
(***************************************************************************)
EXTENDS Interruption, TLAPS

-----------------------------------------------------------------------------
(* The inductive invariant: shapes.  Who deviates is part of them: what a  *)
(* stage can have produced carries the roles of that stage and of those    *)
(* before it.                                                              *)

Roles == {"source", "resume", "control"}
By(roles) == SUBSET (Calls \X roles)
Models(roles) == [fixture : Fixtures, steps : Nat, deviants : By(roles)]
SourceModel == Models({"source"})
ResumedModel == Models({"source", "resume"})
ControlModel == Models({"control"})

Contents == [by : Calls, model : SourceModel, whole : BOOLEAN]
Receipts == Contents \cup {Absent}
Signals == [by : Calls, receipt : Contents]
Results(models) == [by : Calls, ok : BOOLEAN, model : models, receipt : Receipts]

FilesShape ==
    /\ DOMAIN files = FileNames /\ files = [n \in FileNames |-> files[n]]
    /\ \A n \in {"checkpoint", "pending", "tmp"} : files[n] \in Receipts
    /\ \A n \in {"signal", "signal_pending"} : files[n] \in Signals \cup {Absent}
    /\ files["source_result"] \in Results(SourceModel) \cup {Absent}
    /\ files["source_result"].by # 0 /\ files["source_result"].ok =>
           files["source_result"].receipt \in Contents
    /\ files["resume_result"] \in Results(ResumedModel) \cup {Absent}
    /\ files["control_result"] \in Results(ControlModel) \cup {Absent}

Received == {"saved", "placed", "committed", "announcing", "signalled"}
Living == {"training", "trained", "saving"} \cup Received
LivingChild == [pc : Living, fixture : Fixtures, model : SourceModel, receipt : Receipts,
                asked : BOOLEAN, killed : BOOLEAN]
DeadChild == [pc : {"dead"}, reached : Living, asked : BOOLEAN, killed : BOOLEAN]

ChildShape(p) ==
    /\ p \in {NotStarted} \cup LivingChild \cup DeadChild
    /\ p.pc \in Living =>
          /\ p.model.fixture = p.fixture
          /\ p.pc # "training" => p.model.steps = CheckpointStep[p.fixture]
          /\ p.pc \in Received => p.receipt \in Contents

Working == {"running", "saved", "placed", "hashed", "loaded"}
LivingWorker == [pc : Working, role : Roles, fixture : Fixtures, model : SourceModel,
                 expected : Receipts, ok : BOOLEAN]
DoneWorker == [pc : {"done"}, role : Roles, ok : BOOLEAN]
DeadWorker == [pc : {"dead"}, ok : BOOLEAN]

WorkerShape(w) ==
    /\ w \in {NotStarted} \cup LivingWorker \cup DoneWorker \cup DeadWorker
    /\ w.pc \in Working => w.model.fixture = w.fixture
    /\ w.pc \in {"saved", "placed"} =>
          w.role = "source" /\ w.model.steps = CheckpointStep[w.fixture]
    /\ w.pc \in {"hashed", "loaded"} => w.role = "resume"

ChildShapes == child \in [Calls -> {NotStarted} \cup LivingChild \cup DeadChild]
               /\ \A c \in Calls : ChildShape(child[c])
WorkerShapes == worker \in [Calls -> {NotStarted} \cup LivingWorker \cup DoneWorker \cup DeadWorker]
                /\ \A c \in Calls : WorkerShape(worker[c])

SourcePcs == {"request", "spawn", "waiting", "identify", "verify", "terminate", "await",
              "cleanup", "reap", "kill", "unlink", "recheck"}
StagePcs == {"stage", "working", "killing", "compare"}
CallRecords == [id : Calls, kind : {"recovery", "interruption"}, fixture : Fixtures,
                pc : SourcePcs \cup StagePcs, role : Roles, late : BOOLEAN, failed : BOOLEAN,
                alone : BOOLEAN, signal : Signals \cup {Absent}, receipt : Receipts,
                resumed : ResumedModel, control : ControlModel]
CallShape == call \in CallRecords \cup {Idle}

EndedShape ==
    /\ DOMAIN ended = Calls
    /\ \A c \in Calls : \/ ended[c] = NotEnded
                        \/ ended[c].how \in {"refused", "failed", "crashed", "completed"}

Shapes == FilesShape /\ ChildShapes /\ WorkerShapes /\ CallShape /\ EndedShape

-----------------------------------------------------------------------------
(* The calls take turns: only the one under way and those that crashed     *)
(* have anything running.                                                  *)

Ordered ==
    /\ Self \in Calls => ended[Self] = NotEnded
    /\ \A b, d \in Calls :
          b < d /\ (ended[d] # NotEnded \/ d = Self) => ended[b] # NotEnded
    /\ \A b \in Calls : b # Self /\ ended[b] = NotEnded =>
          child[b] = NotStarted /\ worker[b] = NotStarted

LeftBehind ==
    \A c \in Calls : ended[c].how \in {"refused", "failed", "completed"} =>
        /\ ~Alive(worker[c])
        /\ Alive(child[c]) => child[c].killed /\ ~Completed(c)

-----------------------------------------------------------------------------
(* Where the parent stands, and with it its child and its worker.          *)

ParentAt == call # Idle =>
    /\ call.kind = "recovery" => call.pc \in {"recheck"} \cup StagePcs /\ child[Self].pc = "none"
    /\ call.kind = "interruption" /\ call.pc \in StagePcs => call.role # "source"
    /\ call.pc \in SourcePcs => call.role = "source"
    /\ call.pc = "compare" => call.role = "control"

ChildAt == call # Idle =>
    /\ call.pc \in {"request", "spawn"} => child[Self].pc = "none"
    /\ call.pc \in {"waiting", "identify", "verify", "terminate", "await", "cleanup", "reap", "kill"}
           => child[Self].pc # "none"
    /\ Alive(child[Self]) =>
          /\ child[Self].fixture = call.fixture
          /\ call.pc \notin {"recheck"} \cup StagePcs
          /\ call.pc \in {"kill", "unlink"} => child[Self].killed

WorkerAt == call # Idle /\ Alive(worker[Self]) =>
    /\ call.pc \in {"working", "killing"}
    /\ worker[Self].role = call.role
    /\ worker[Self].fixture = call.fixture
    /\ call.role = "resume" => worker[Self].expected = call.receipt

\* How far a child has come, or had come when it died.
Reach(p) == IF p.pc = "dead" THEN p.reached ELSE p.pc
Announced(c) == c \in Calls /\ Reach(child[c]) \in {"announcing", "signalled"}

\* A signal means that the child it names was about to rename it, or has.
SignalsAnnounced ==
    /\ \A n \in {"signal", "signal_pending"} : Exists(n) => Announced(files[n].by)
    /\ call # Idle =>
          /\ call.signal # Absent => Announced(call.signal.by)
          /\ call.pc = "identify" => call.signal # Absent
          /\ call.pc \in {"verify", "terminate", "await"} => call.signal.by = Self
          /\ call.pc = "await" => child[Self].asked

\* The source is over, and well.
SourceOver ==
    \/ call.pc \in {"recheck", "compare"}
    \/ call.pc \in {"stage", "working", "killing"} /\ call.role # "source"
    \/ call.pc \in {"cleanup", "reap", "kill", "unlink"} /\ ~call.failed

Interrupted == call # Idle /\ SourceOver /\ call.kind = "interruption" =>
    /\ child[Self].pc = "dead" /\ child[Self].asked
    /\ Announced(Self)
    /\ call.alone => child[Self].reached = "signalled"

-----------------------------------------------------------------------------
(* A result under the name of a stage is of this call, or of the worker of *)
(* a call that crashed.                                                    *)

AnsweredBefore(role) ==
    \E a \in Calls : /\ a # Self /\ ended[a].how = "crashed"
                     /\ worker[a].pc = "done" /\ worker[a].role = role

ResultsNamed == call # Idle =>
    \A role \in Roles : LET result == files[ResultOf[role]] IN
        result # Absent =>
            IF result.by = Self THEN result.model.fixture = call.fixture
            ELSE /\ ended[result.by].how = "crashed"
                 /\ worker[result.by].pc = "done" /\ worker[result.by].role = role

AnswersNamed == call # Idle =>
    /\ call.resumed.fixture # call.fixture => ~call.alone /\ AnsweredBefore("resume")
    /\ call.control.fixture # call.fixture => ~call.alone /\ AnsweredBefore("control")

-----------------------------------------------------------------------------
(* A call that began with no orphan around has the directory to itself.    *)

Apart == call # Idle /\ call.alone

\* A checkpoint of the model the source of this call has to save.
Proper(model) == model.fixture = call.fixture /\ model.steps = CheckpointStep[call.fixture]
ProperReceipt(r) == r.by = Self /\ Proper(r.model)

AloneWriting == Apart =>
    /\ \A b \in Calls : b # Self => ~Alive(child[b]) /\ ~Alive(worker[b])
    /\ \A n \in FileNames : files[n].by \in {0, Self}

AloneSaving == Apart =>
    /\ \A n \in {"checkpoint", "pending", "tmp"} : Exists(n) => Proper(files[n].model)
    /\ child[Self].pc \in Received => ProperReceipt(child[Self].receipt)
    /\ Exists("source_result") /\ files["source_result"].ok =>
           ProperReceipt(files["source_result"].receipt)

AloneSignals == Apart =>
    /\ \A n \in {"signal", "signal_pending"} : Exists(n) => ProperReceipt(files[n].receipt)
    /\ call.signal # Absent => /\ ProperReceipt(call.signal.receipt)
                               /\ Reach(child[Self]) = "signalled"
    /\ Exists("signal") => Reach(child[Self]) = "signalled"
    /\ SourceOver => ProperReceipt(call.receipt)

\* Whatever deviated before the checkpoint shows in everything resumed from it.
AloneResuming == Apart =>
    /\ call.role = "source" => ~Exists("resume_result")
    /\ worker[Self].pc = "hashed" => files["checkpoint"].model = call.receipt.model
    /\ worker[Self].pc = "loaded" => call.receipt.model.deviants \subseteq worker[Self].model.deviants
    /\ Exists("resume_result") /\ files["resume_result"].ok =>
           call.receipt.model.deviants \subseteq files["resume_result"].model.deviants
    /\ call.role = "control" => call.receipt.model.deviants \subseteq call.resumed.deviants

IInv ==
    /\ Shapes
    /\ Ordered /\ LeftBehind
    /\ ParentAt /\ ChildAt /\ WorkerAt
    /\ SignalsAnnounced /\ Interrupted
    /\ ResultsNamed /\ AnswersNamed
    /\ AloneWriting /\ AloneSaving /\ AloneSignals /\ AloneResuming
    /\ RecoveryExact
-----------------------------------------------------------------------------
(* Models, and what training does to them *)

LEMMA FreshModel ==
    ASSUME NEW f \in Fixtures, NEW roles
    PROVE  /\ Fresh(f) \in Models(roles)
           /\ Fresh(f).fixture = f /\ Fresh(f).steps = 0 /\ Fresh(f).deviants = {}
  BY DEF Fresh, Models, By

\* Training keeps the fixture, adds the steps, and whoever deviated stays.
LEMMA TrainedModel ==
    ASSUME NEW m \in Models(Roles), NEW steps \in Nat, NEW who \in Calls \X Roles,
           NEW t \in Trained(m, steps, who)
    PROVE  \E d \in SUBSET {who} : t = [fixture |-> m.fixture, steps |-> m.steps + steps,
                                        deviants |-> m.deviants \cup d]
<1>1. PICK d \in SUBSET {who} : t = [m EXCEPT !.steps = @ + steps, !.deviants = @ \cup d]
  BY DEF Trained
<1>2. DOMAIN m = {"fixture", "steps", "deviants"}
  BY DEF Models
<1> QED
  BY <1>1, <1>2 DEF Models

LEMMA SourceTrained ==
    ASSUME NEW f \in Fixtures, NEW steps \in Nat, NEW c \in Calls,
           NEW t \in Trained(Fresh(f), steps, <<c, "source">>)
    PROVE  t \in SourceModel /\ t.fixture = f /\ t.steps = steps
<1>1. Fresh(f) \in Models(Roles) /\ <<c, "source">> \in Calls \X Roles
  BY FreshModel DEF Roles
<1>2. PICK d \in SUBSET {<<c, "source">>} :
          t = [fixture |-> Fresh(f).fixture, steps |-> Fresh(f).steps + steps,
               deviants |-> Fresh(f).deviants \cup d]
  BY <1>1, TrainedModel
<1>3. d \in By({"source"})
  BY DEF By
<1> QED
  BY <1>2, <1>3 DEF Fresh, SourceModel, Models

LEMMA ControlTrained ==
    ASSUME NEW f \in Fixtures, NEW steps \in Nat, NEW c \in Calls,
           NEW t \in Trained(Fresh(f), steps, <<c, "control">>)
    PROVE  t \in ControlModel /\ t.fixture = f
<1>1. Fresh(f) \in Models(Roles) /\ <<c, "control">> \in Calls \X Roles
  BY FreshModel DEF Roles
<1>2. PICK d \in SUBSET {<<c, "control">>} :
          t = [fixture |-> Fresh(f).fixture, steps |-> Fresh(f).steps + steps,
               deviants |-> Fresh(f).deviants \cup d]
  BY <1>1, TrainedModel
<1>3. d \in By({"control"})
  BY DEF By
<1> QED
  BY <1>2, <1>3 DEF Fresh, ControlModel, Models

LEMMA ResumeTrained ==
    ASSUME NEW m \in SourceModel, NEW steps \in Nat, NEW c \in Calls,
           NEW t \in Trained(m, steps, <<c, "resume">>)
    PROVE  t \in ResumedModel /\ t.fixture = m.fixture /\ m.deviants \subseteq t.deviants
<1>1. m \in Models(Roles) /\ <<c, "resume">> \in Calls \X Roles
  BY DEF Roles, SourceModel, Models, By
<1>2. PICK d \in SUBSET {<<c, "resume">>} :
          t = [fixture |-> m.fixture, steps |-> m.steps + steps, deviants |-> m.deviants \cup d]
  BY <1>1, TrainedModel
<1>3. m.deviants \cup d \in By({"source", "resume"})
  BY DEF By, SourceModel, Models
<1>4. m.steps + steps \in Nat /\ m.fixture \in Fixtures
  BY DEF SourceModel, Models
<1> QED
  BY <1>2, <1>3, <1>4 DEF ResumedModel, Models

-----------------------------------------------------------------------------
(* What any step of a child does *)

\* All that anybody else can notice of a step of child c.
ChildStep(c) ==
    /\ UNCHANGED <<call, worker, ended>>
    /\ child' \in [Calls -> {NotStarted} \cup LivingChild \cup DeadChild]
    /\ \A b \in Calls : b # c => child'[b] = child[b]
    /\ child[c].pc \in Living /\ child'[c] \in LivingChild \cup DeadChild
    /\ ChildShape(child'[c])
    /\ child'[c].asked = child[c].asked /\ child'[c].killed = child[c].killed
    /\ child'[c].pc \in Living => child'[c].fixture = child[c].fixture
    /\ Reach(child[c]) \in {"announcing", "signalled"} =>
           Reach(child'[c]) \in {"announcing", "signalled"}
    /\ Reach(child[c]) = "signalled" => Reach(child'[c]) = "signalled"

\* The files it writes are its own, or renamed as they are.
ChildWrites(c) ==
    /\ FilesShape'
    /\ \A n \in {"tmp", "source_result", "resume_result", "control_result"} : files'[n] = files[n]
    /\ files'["checkpoint"] \in {files["checkpoint"], files["pending"]}
    /\ \/ files'["pending"] \in {files["pending"], Absent}
       \/ /\ files'["pending"].by = c /\ files'["pending"].model = child[c].model
          /\ child[c].pc # "training"
    /\ \/ files'["signal_pending"] \in {files["signal_pending"], Absent}
       \/ /\ files'["signal_pending"].by = c
          /\ files'["signal_pending"].receipt = child[c].receipt
          /\ child[c].pc \in Received /\ child'[c].pc = "announcing"
    /\ \/ files'["signal"] = files["signal"]
       \/ files'["signal"] = files["signal_pending"] /\ child'[c].pc = "signalled"
    /\ child'[c].pc \in Received =>
          \/ child[c].pc \in Received /\ child'[c].receipt = child[c].receipt
          \/ child'[c].receipt = files'["pending"]

LEMMA ChildGoesOn ==
    ASSUME ChildShapes, NEW c \in Calls, child[c] \in LivingChild, NEW pc \in Living, ChildGoes(c, pc)
    PROVE  /\ child' \in [Calls -> {NotStarted} \cup LivingChild \cup DeadChild]
           /\ \A b \in Calls : b # c => child'[b] = child[b]
           /\ child'[c] \in LivingChild /\ child'[c].pc = pc
           /\ child'[c].fixture = child[c].fixture /\ child'[c].model = child[c].model
           /\ child'[c].receipt = child[c].receipt
           /\ child'[c].asked = child[c].asked /\ child'[c].killed = child[c].killed
<1>1. child' = [child EXCEPT ![c].pc = pc]
  BY DEF ChildGoes
<1>2. [child[c] EXCEPT !.pc = pc] \in LivingChild
  BY DEF LivingChild
<1> QED
  BY <1>1, <1>2 DEF ChildShapes, LivingChild

LEMMA ChildMoves ==
    ASSUME IInv, NEW c \in Calls, Child(c) \/ ChildDies(c)
    PROVE  ChildStep(c) /\ ChildWrites(c)
<1>0. ChildShapes /\ FilesShape
  BY DEF IInv, Shapes
<1>1. /\ child \in [Calls -> {NotStarted} \cup LivingChild \cup DeadChild] /\ ChildShape(child[c])
      /\ FilesShape
  BY <1>0 DEF IInv, ChildShapes
<1>2. child[c].pc \in Living => child[c] \in LivingChild
  BY <1>1 DEF ChildShape, NotStarted, DeadChild, Living, Received
<1>3. child[c] \in LivingChild => Dead(child[c]) \in DeadChild /\ ChildShape(Dead(child[c]))
                                  /\ Reach(Dead(child[c])) = child[c].pc
                                  /\ Dead(child[c]).asked = child[c].asked
                                  /\ Dead(child[c]).killed = child[c].killed
                                  /\ Dead(child[c]).pc \notin Living
  BY <1>1 DEF ChildShape, LivingChild, DeadChild, Dead, Reach, Living, Received
<1>d. ASSUME child[c] \in LivingChild, child' = [child EXCEPT ![c] = Dead(@)],
             files' = files \/ Put("pending", Absent), UNCHANGED <<call, worker, ended>>
      PROVE  ChildStep(c) /\ ChildWrites(c)
  <2>1. /\ child' \in [Calls -> {NotStarted} \cup LivingChild \cup DeadChild]
        /\ \A b \in Calls : b # c => child'[b] = child[b]
        /\ child'[c] = Dead(child[c])
    BY <1>1, <1>3, <1>d
  <2>2. FilesShape'
    BY <1>1, <1>d DEF FilesShape, Receipts, FileNames, Put
  <2>3. ChildWrites(c)
    BY <1>1, <1>3, <1>d, <2>1, <2>2 DEF ChildWrites, Received, FilesShape, FileNames, Put, Dead
  <2> QED
    BY <1>3, <1>d, <2>1, <2>3 DEF ChildStep, LivingChild, Reach, Living, Received
<1>4. CASE ChildTrains(c)
  <2>1. child[c] \in LivingChild
    BY <1>2, <1>4 DEF ChildTrains, Living
  <2>2. CASE child' = [child EXCEPT ![c] = Dead(@)]
    BY <1>4, <1>d, <2>1, <2>2 DEF ChildTrains
  <2>3. CASE \E m \in Trained(Fresh(child[c].fixture), CheckpointStep[child[c].fixture], <<c, "source">>) :
                child' = [child EXCEPT ![c].pc = "trained", ![c].model = m]
    <3>1. PICK m \in Trained(Fresh(child[c].fixture), CheckpointStep[child[c].fixture], <<c, "source">>) :
              child' = [child EXCEPT ![c].pc = "trained", ![c].model = m]
      BY <2>3
    <3>2. child[c].fixture \in Fixtures /\ CheckpointStep[child[c].fixture] \in Nat
      BY <2>1, InterruptionAssumption DEF LivingChild
    <3>4. m \in SourceModel /\ m.fixture = child[c].fixture /\ m.steps = CheckpointStep[child[c].fixture]
      BY <3>1, <3>2, SourceTrained
    <3>5. /\ child'[c] \in LivingChild /\ child'[c].pc = "trained"
          /\ child'[c].model = m /\ child'[c].fixture = child[c].fixture
          /\ child'[c].asked = child[c].asked /\ child'[c].killed = child[c].killed
      BY <1>1, <2>1, <3>1, <3>4 DEF LivingChild, Living
    <3>6. ChildShape(child'[c])
      BY <3>4, <3>5 DEF ChildShape, Living, Received
    <3>7. child' \in [Calls -> {NotStarted} \cup LivingChild \cup DeadChild]
          /\ \A b \in Calls : b # c => child'[b] = child[b]
      BY <1>1, <3>1, <3>5
    <3>8. UNCHANGED <<call, files, worker, ended>> /\ child[c].pc = "training"
      BY <1>4 DEF ChildTrains
    <3> QED
      BY <1>1, <3>5, <3>6, <3>7, <3>8 DEF ChildStep, ChildWrites, Living, Received, FilesShape, Reach
  <2> QED
    BY <1>4, <2>2, <2>3 DEF ChildTrains
<1>5. CASE ChildBeginsSave(c)
  <2>1. child[c] \in LivingChild /\ child[c].pc = "trained"
    BY <1>2, <1>5 DEF ChildBeginsSave, Living
  <2>2. ChildGoes(c, "saving") /\ "saving" \in Living
    BY <1>5 DEF ChildBeginsSave, Living
  <2>3. /\ child' \in [Calls -> {NotStarted} \cup LivingChild \cup DeadChild]
        /\ \A b \in Calls : b # c => child'[b] = child[b]
        /\ child'[c] \in LivingChild /\ child'[c].pc = "saving"
        /\ child'[c].fixture = child[c].fixture /\ child'[c].model = child[c].model
        /\ child'[c].asked = child[c].asked /\ child'[c].killed = child[c].killed
    BY <1>0, <2>1, <2>2, ChildGoesOn
  <2>4. ChildShape(child'[c])
    BY <1>1, <2>1, <2>3 DEF ChildShape, Living, Received
  <2>5. Payload(c, child[c].model, FALSE) \in Contents
    BY <2>1 DEF Payload, Contents, LivingChild
  <2>6. files' = [files EXCEPT !["pending"] = Payload(c, child[c].model, FALSE)]
        /\ UNCHANGED <<call, worker, ended>>
    BY <1>5 DEF ChildBeginsSave, Put
  <2>7. FilesShape'
    BY <1>1, <2>5, <2>6 DEF FilesShape, Receipts, FileNames
  <2>8. ChildWrites(c)
    BY <1>1, <2>1, <2>3, <2>6, <2>7 DEF ChildWrites, Received, FilesShape, FileNames, Payload
  <2> QED
    BY <2>1, <2>3, <2>4, <2>6, <2>8 DEF ChildStep, Living, Reach
<1>6. CASE ChildSaves(c)
  <2>1. child[c] \in LivingChild /\ child[c].pc = "saving"
    BY <1>2, <1>6 DEF ChildSaves, Living
  <2> DEFINE saved == IF files["pending"].by = c THEN Payload(c, child[c].model, TRUE)
                      ELSE files["pending"]
  <2>2. CASE Loadable(saved, child[c].fixture)
    <3>1. child' = [child EXCEPT ![c].pc = "saved", ![c].receipt = saved]
          /\ files' = [files EXCEPT !["pending"] = saved] /\ UNCHANGED <<call, worker, ended>>
      BY <1>6, <2>2 DEF ChildSaves, Put
    <3>2. saved \in Contents
      BY <1>1, <2>1, <2>2 DEF Loadable, Payload, Contents, LivingChild, FilesShape, Receipts
    <3>3. /\ child'[c] \in LivingChild /\ child'[c].pc = "saved"
          /\ child'[c].receipt = saved /\ child'[c].model = child[c].model
          /\ child'[c].fixture = child[c].fixture
          /\ child'[c].asked = child[c].asked /\ child'[c].killed = child[c].killed
      BY <1>1, <2>1, <3>1, <3>2 DEF LivingChild, Living, Received, Receipts
    <3>4. ChildShape(child'[c])
      BY <1>1, <2>1, <3>2, <3>3 DEF ChildShape, Living, Received
    <3>5. child' \in [Calls -> {NotStarted} \cup LivingChild \cup DeadChild]
          /\ \A b \in Calls : b # c => child'[b] = child[b]
      BY <1>1, <3>1, <3>3
    <3>6. FilesShape'
      BY <1>1, <3>1, <3>2 DEF FilesShape, Receipts, FileNames
    <3>7. \/ saved = files["pending"]
          \/ saved.by = c /\ saved.model = child[c].model
      <4>1. CASE files["pending"].by = c
        <5>1. saved = [by |-> c, model |-> child[c].model, whole |-> TRUE]
          BY <4>1 DEF Payload
        <5> HIDE DEF saved
        <5> QED
          BY <5>1
      <4>2. CASE files["pending"].by # c
        BY <4>2
      <4> QED
        BY <4>1, <4>2
    <3>8. ChildWrites(c)
      BY <1>1, <2>1, <3>1, <3>3, <3>6, <3>7 DEF ChildWrites, Received, FilesShape, FileNames
    <3> QED
      BY <2>1, <3>1, <3>3, <3>4, <3>5, <3>8 DEF ChildStep, Living, Reach
  <2>3. CASE ~Loadable(saved, child[c].fixture)
    BY <1>6, <1>d, <2>1, <2>3 DEF ChildSaves, ChildFails
  <2> QED
    BY <2>2, <2>3
<1>7. CASE ChildReplaces(c)
  <2>1. child[c] \in LivingChild /\ child[c].pc = "saved"
    BY <1>2, <1>7 DEF ChildReplaces, Living, Received
  <2>2. CASE Exists("pending")
    <3>1. ChildGoes(c, "placed") /\ "placed" \in Living
      BY <1>7, <2>2 DEF ChildReplaces, Living, Received
    <3>2. /\ child' \in [Calls -> {NotStarted} \cup LivingChild \cup DeadChild]
          /\ \A b \in Calls : b # c => child'[b] = child[b]
          /\ child'[c] \in LivingChild /\ child'[c].pc = "placed"
          /\ child'[c].fixture = child[c].fixture /\ child'[c].model = child[c].model
          /\ child'[c].receipt = child[c].receipt
          /\ child'[c].asked = child[c].asked /\ child'[c].killed = child[c].killed
      BY <1>0, <2>1, <3>1, ChildGoesOn
    <3>3. ChildShape(child'[c])
      BY <1>1, <2>1, <3>2 DEF ChildShape, Living, Received
    <3>4. files' = [files EXCEPT !["checkpoint"] = files["pending"], !["pending"] = Absent]
          /\ UNCHANGED <<call, worker, ended>>
      BY <1>7, <2>2 DEF ChildReplaces
    <3>5. FilesShape'
      BY <1>1, <3>4 DEF FilesShape, Receipts, FileNames
    <3>6. ChildWrites(c)
      BY <1>1, <2>1, <3>2, <3>4, <3>5 DEF ChildWrites, Received, FilesShape, FileNames
    <3> QED
      BY <2>1, <3>2, <3>3, <3>4, <3>6 DEF ChildStep, Living, Received, Reach
  <2>3. CASE ~Exists("pending")
    BY <1>7, <1>d, <2>1, <2>3 DEF ChildReplaces, ChildFails
  <2> QED
    BY <2>2, <2>3
<1>8. CASE ChildVerifies(c)
  <2>1. child[c] \in LivingChild /\ child[c].pc = "placed"
    BY <1>2, <1>8 DEF ChildVerifies, Living, Received
  <2>2. CASE SameContent(files["checkpoint"], child[c].receipt)
    <3>1. ChildGoes(c, "committed") /\ "committed" \in Living
      BY <1>8, <2>2 DEF ChildVerifies, Living, Received
    <3>2. /\ child' \in [Calls -> {NotStarted} \cup LivingChild \cup DeadChild]
          /\ \A b \in Calls : b # c => child'[b] = child[b]
          /\ child'[c] \in LivingChild /\ child'[c].pc = "committed"
          /\ child'[c].fixture = child[c].fixture /\ child'[c].model = child[c].model
          /\ child'[c].receipt = child[c].receipt
          /\ child'[c].asked = child[c].asked /\ child'[c].killed = child[c].killed
      BY <1>0, <2>1, <3>1, ChildGoesOn
    <3>3. ChildShape(child'[c])
      BY <1>1, <2>1, <3>2 DEF ChildShape, Living, Received
    <3>4. UNCHANGED <<call, files, worker, ended>>
      BY <1>8, <2>2 DEF ChildVerifies
    <3>5. ChildWrites(c)
      BY <1>1, <2>1, <3>2, <3>4 DEF ChildWrites, Received, FilesShape
    <3> QED
      BY <2>1, <3>2, <3>3, <3>4, <3>5 DEF ChildStep, Living, Received, Reach
  <2>3. CASE ~SameContent(files["checkpoint"], child[c].receipt)
    BY <1>8, <1>d, <2>1, <2>3 DEF ChildVerifies, ChildFails
  <2> QED
    BY <2>2, <2>3
<1>9. CASE ChildAnnounces(c)
  <2>1. child[c] \in LivingChild /\ child[c].pc = "committed"
    BY <1>2, <1>9 DEF ChildAnnounces, Living, Received
  <2>a. ChildGoes(c, "announcing") /\ "announcing" \in Living
    BY <1>9 DEF ChildAnnounces, Living, Received
  <2>2. /\ child' \in [Calls -> {NotStarted} \cup LivingChild \cup DeadChild]
        /\ \A b \in Calls : b # c => child'[b] = child[b]
        /\ child'[c] \in LivingChild /\ child'[c].pc = "announcing"
        /\ child'[c].fixture = child[c].fixture /\ child'[c].model = child[c].model
        /\ child'[c].receipt = child[c].receipt
        /\ child'[c].asked = child[c].asked /\ child'[c].killed = child[c].killed
    BY <1>0, <2>1, <2>a, ChildGoesOn
  <2>3. ChildShape(child'[c])
    BY <1>1, <2>1, <2>2 DEF ChildShape, Living, Received
  <2>4. [by |-> c, receipt |-> child[c].receipt] \in Signals
    BY <1>1, <2>1 DEF ChildShape, Living, Received, Signals
  <2>5. files' = [files EXCEPT !["signal_pending"] = [by |-> c, receipt |-> child[c].receipt]]
        /\ UNCHANGED <<call, worker, ended>>
    BY <1>9 DEF ChildAnnounces, Put
  <2>6. FilesShape'
    BY <1>1, <2>4, <2>5 DEF FilesShape, FileNames
  <2>7. ChildWrites(c)
    BY <1>1, <2>1, <2>2, <2>5, <2>6 DEF ChildWrites, Received, FilesShape, FileNames
  <2> QED
    BY <2>1, <2>2, <2>3, <2>5, <2>7 DEF ChildStep, Living, Received, Reach
<1>10. CASE ChildSignals(c)
  <2>1. child[c] \in LivingChild /\ child[c].pc = "announcing"
    BY <1>2, <1>10 DEF ChildSignals, Living, Received
  <2>2. CASE Exists("signal_pending")
    <3>1. ChildGoes(c, "signalled") /\ "signalled" \in Living
      BY <1>10, <2>2 DEF ChildSignals, Living, Received
    <3>2. /\ child' \in [Calls -> {NotStarted} \cup LivingChild \cup DeadChild]
          /\ \A b \in Calls : b # c => child'[b] = child[b]
          /\ child'[c] \in LivingChild /\ child'[c].pc = "signalled"
          /\ child'[c].fixture = child[c].fixture /\ child'[c].model = child[c].model
          /\ child'[c].receipt = child[c].receipt
          /\ child'[c].asked = child[c].asked /\ child'[c].killed = child[c].killed
      BY <1>0, <2>1, <3>1, ChildGoesOn
    <3>3. ChildShape(child'[c])
      BY <1>1, <2>1, <3>2 DEF ChildShape, Living, Received
    <3>4. files' = [files EXCEPT !["signal"] = files["signal_pending"], !["signal_pending"] = Absent]
          /\ UNCHANGED <<call, worker, ended>>
      BY <1>10, <2>2 DEF ChildSignals
    <3>5. FilesShape'
      BY <1>1, <3>4 DEF FilesShape, FileNames
    <3>6. ChildWrites(c)
      BY <1>1, <2>1, <3>2, <3>4, <3>5 DEF ChildWrites, Received, FilesShape, FileNames
    <3> QED
      BY <2>1, <3>2, <3>3, <3>4, <3>6 DEF ChildStep, Living, Received, Reach
  <2>3. CASE ~Exists("signal_pending")
    BY <1>10, <1>d, <2>1, <2>3 DEF ChildSignals
  <2> QED
    BY <2>2, <2>3
<1>11. CASE ChildDies(c)
  <2>1. child[c] \in LivingChild
    BY <1>1, <1>11 DEF ChildDies, Alive, NotStarted, DeadChild
  <2> QED
    BY <1>11, <1>d, <2>1 DEF ChildDies
<1> QED
  BY <1>4, <1>5, <1>6, <1>7, <1>8, <1>9, <1>10, <1>11 DEF Child

LEMMA AliveChild ==
    ASSUME NEW p \in {NotStarted} \cup LivingChild \cup DeadChild
    PROVE  /\ Alive(p) <=> p.pc \in Living
           /\ Alive(p) <=> p \in LivingChild
           /\ p.pc = "none" <=> p = NotStarted
           /\ p.pc = "dead" <=> p \in DeadChild
  BY DEF NotStarted, LivingChild, DeadChild, Living, Received, Alive

LEMMA AliveWorker ==
    ASSUME NEW w \in {NotStarted} \cup LivingWorker \cup DoneWorker \cup DeadWorker
    PROVE  /\ Alive(w) <=> w.pc \in Working
           /\ Alive(w) <=> w \in LivingWorker
           /\ w.pc = "done" <=> w \in DoneWorker
           /\ w.pc = "none" <=> w = NotStarted
  BY DEF NotStarted, LivingWorker, DoneWorker, DeadWorker, Working, Alive

LEMMA SelfIsCall == CallShape /\ call # Idle => call \in CallRecords /\ Self \in Calls
  BY DEF CallShape, CallRecords, Self

LEMMA NoSelf == CallShape /\ Self \in Calls => call # Idle
  BY DEF CallShape, Idle, Self, Calls

LEMMA ChildKeeps ==
    ASSUME IInv, NEW c \in Calls, ChildStep(c), ChildWrites(c)
    PROVE  IInv'
<1>1. /\ Shapes /\ Ordered /\ LeftBehind /\ ParentAt /\ ChildAt /\ WorkerAt
      /\ SignalsAnnounced /\ Interrupted /\ ResultsNamed /\ AnswersNamed
      /\ AloneWriting /\ AloneSaving /\ AloneSignals /\ AloneResuming /\ RecoveryExact
  BY DEF IInv
<1>2. /\ UNCHANGED <<call, worker, ended>> /\ Self' = Self
      /\ \A b \in Calls : b # c => child'[b] = child[b]
      /\ child[c] \in LivingChild /\ Alive(child[c])
      /\ Reach(child[c]) = child[c].pc
  BY <1>1, AliveChild DEF ChildStep, Shapes, ChildShapes, Self, Reach, Living, Received
<1>3. \A b \in Calls : Announced(b) => Announced(b)'
  BY <1>2 DEF ChildStep, Announced
<1>4. \A b \in Calls : ~Alive(child[b]) => child'[b] = child[b]
  BY <1>2
<1>5. /\ child' \in [Calls -> {NotStarted} \cup LivingChild \cup DeadChild]
      /\ child'[c].asked = child[c].asked /\ child'[c].killed = child[c].killed
      /\ child'[c].pc # "none"
      /\ Alive(child'[c]) => child'[c].fixture = child[c].fixture
      /\ Reach(child[c]) = "signalled" => Reach(child'[c]) = "signalled"
  BY <1>2, AliveChild DEF ChildStep, LivingChild, DeadChild, Living, Received
<1>s. call # Idle => Self \in Calls
  BY <1>1, SelfIsCall DEF Shapes
<1> USE <1>1, <1>2
<1>6. Shapes'
  <2>1. ChildShapes'
    BY DEF ChildStep, Shapes, ChildShapes
  <2> QED
    BY <2>1 DEF ChildWrites, Shapes, WorkerShapes, CallShape, EndedShape
<1>7. Ordered'
  BY DEF Ordered, NotStarted, LivingChild, Living, Received
<1>8. LeftBehind'
  BY <1>5 DEF LeftBehind, Completed
<1>9. ParentAt'
  BY <1>4, <1>s DEF ParentAt, Alive
<1>10. ChildAt'
  <2> SUFFICES ASSUME call # Idle PROVE ChildAt'
    BY DEF ChildAt
  <2>1. CASE c = Self
    BY <1>5, <2>1 DEF ChildAt, Living, Received, Alive
  <2>2. CASE c # Self
    BY <1>s, <2>2 DEF ChildAt
  <2> QED
    BY <2>1, <2>2
<1>11. WorkerAt'
  BY DEF WorkerAt
<1>12. SignalsAnnounced'
  <2>1. Announced(c)' <=> Reach(child'[c]) \in {"announcing", "signalled"}
    BY DEF Announced
  <2>2. Exists("signal_pending")' => Announced(files["signal_pending"].by)'
    <3>1. CASE files'["signal_pending"] \in {files["signal_pending"], Absent}
      <4> SUFFICES ASSUME files["signal_pending"] # Absent,
                          files'["signal_pending"] = files["signal_pending"]
                   PROVE  Announced(files["signal_pending"].by)'
        BY <3>1 DEF Exists
      <4>1. Announced(files["signal_pending"].by) /\ files["signal_pending"].by \in Calls
        BY DEF SignalsAnnounced, Announced, Exists
      <4> QED
        BY <1>3, <4>1 DEF Announced
    <3>2. CASE files'["signal_pending"].by = c /\ child'[c].pc = "announcing"
      BY <2>1, <3>2 DEF Reach, Announced
    <3> QED
      BY <3>1, <3>2 DEF ChildWrites
  <2>3. Exists("signal")' => Announced(files["signal"].by)'
    <3>1. \A n \in {"signal", "signal_pending"} : Exists(n) => Announced(files[n].by) /\ files[n].by \in Calls
      BY DEF SignalsAnnounced, Announced
    <3>2. files'["signal"] \in {files["signal"], files["signal_pending"]}
      BY DEF ChildWrites
    <3> QED
      BY <1>3, <3>1, <3>2 DEF Exists, Announced
  <2>4. call # Idle /\ call.signal # Absent => Announced(call.signal.by)'
    BY <1>3 DEF SignalsAnnounced, Announced
  <2>5. call # Idle /\ call.pc = "await" => child'[Self].asked
    BY <1>5, <1>s DEF SignalsAnnounced
  <2> QED
    BY <2>2, <2>3, <2>4, <2>5 DEF SignalsAnnounced, Exists
<1>13. Interrupted'
  BY <1>3, <1>4, SelfIsCall DEF Interrupted, Announced, SourceOver, Alive, Shapes
<1>14. ResultsNamed'
  BY DEF ResultsNamed, ChildWrites, ResultOf, Roles
<1>15. AnswersNamed'
  BY DEF AnswersNamed, AnsweredBefore
<1>16. Apart => c = Self
  BY DEF Apart, AloneWriting
<1>17. AloneWriting'
  BY <1>16 DEF AloneWriting, Apart, ChildWrites, FileNames, Absent
<1>18. AloneSaving'
  <2> SUFFICES ASSUME Apart PROVE AloneSaving'
    BY DEF AloneSaving, Apart
  <2>1. c = Self /\ child[Self].fixture = call.fixture
    BY <1>16 DEF Apart, ChildAt
  <2>2. child[Self].pc # "training" => Proper(child[Self].model)
    BY <2>1 DEF Proper, Shapes, ChildShapes, ChildShape, LivingChild
  <2>3. \A n \in {"checkpoint", "pending", "tmp"} : Exists(n)' => Proper(files'[n].model)
    BY <2>1, <2>2 DEF AloneSaving, ChildWrites, Exists, Proper, Absent
  <2>4. child'[Self].pc \in Received => ProperReceipt(child'[Self].receipt)
    <3> SUFFICES ASSUME child'[Self].pc \in Received PROVE ProperReceipt(child'[Self].receipt)
      OBVIOUS
    <3>1. child'[Self].receipt \in Contents
      BY <2>1 DEF ChildStep, ChildShape, Living
    <3>2. CASE child'[Self].receipt = files'["pending"]
      BY <1>17, <2>1, <2>3, <3>1, <3>2 DEF AloneWriting, Apart, ProperReceipt, Exists, Contents, Absent,
                                     FileNames, Calls
    <3> QED
      BY <2>1, <3>2 DEF ChildWrites, AloneSaving
  <2> QED
    BY <2>3, <2>4 DEF AloneSaving, ChildWrites, Exists, ProperReceipt, Proper
<1>19. AloneSignals'
  <2> SUFFICES ASSUME Apart PROVE AloneSignals'
    BY DEF AloneSignals, Apart
  <2>1. c = Self
    BY <1>16
  <2>2. \A n \in {"signal", "signal_pending"} : Exists(n)' => ProperReceipt(files'[n].receipt)
    BY <2>1 DEF ChildWrites, AloneSaving, AloneSignals, Exists, Absent
  <2>3. Exists("signal")' => Reach(child'[Self]) = "signalled"
    BY <1>5, <2>1 DEF ChildWrites, AloneSignals, Exists, Reach
  <2> QED
    BY <1>5, <2>1, <2>2, <2>3 DEF AloneSignals, ProperReceipt, Proper, SourceOver
<1>20. AloneResuming'
  <2> SUFFICES ASSUME Apart PROVE AloneResuming'
    BY DEF AloneResuming, Apart
  <2>1. ~Alive(worker[Self])
    BY <1>16, <1>s DEF Apart, ChildAt, WorkerAt, StagePcs
  <2> QED
    BY <2>1 DEF AloneResuming, ChildWrites, Exists, Alive
<1>21. RecoveryExact'
  BY <1>4 DEF RecoveryExact, Completed, LeftBehind
<1> QED
  BY <1>6, <1>7, <1>8, <1>9, <1>10, <1>11, <1>12, <1>13, <1>14, <1>15, <1>17, <1>18, <1>19,
     <1>20, <1>21 DEF IInv

-----------------------------------------------------------------------------
(* What any step of a stage worker does *)

\* All that anybody else can notice of a step of the worker of call c.
WorkerStep(c) ==
    /\ UNCHANGED <<call, child, ended>>
    /\ worker' \in [Calls -> {NotStarted} \cup LivingWorker \cup DoneWorker \cup DeadWorker]
    /\ \A b \in Calls : b # c => worker'[b] = worker[b]
    /\ worker[c].pc \in Working /\ WorkerShape(worker'[c])
    /\ worker'[c].pc \in Working => /\ worker'[c].role = worker[c].role
                                    /\ worker'[c].fixture = worker[c].fixture
                                    /\ worker'[c].expected = worker[c].expected
    /\ worker'[c].pc # "none"
    /\ worker'[c].pc = "hashed" => files["checkpoint"].model = worker[c].expected.model
    /\ worker'[c].pc = "loaded" => /\ worker[c].pc = "hashed"
                                   /\ worker'[c].model = files["checkpoint"].model

Answered(c) == worker'[c].pc = "done" /\ worker'[c].role = worker[c].role

\* It writes the result of its own role, and a source its checkpoint.
WorkerWrites(c) ==
    /\ FilesShape'
    /\ \A n \in {"pending", "signal", "signal_pending"} : files'[n] = files[n]
    /\ files'["checkpoint"] \in {files["checkpoint"], files["tmp"]}
    /\ worker'[c].pc \in {"hashed", "loaded"} => files' = files
    /\ \/ files'["tmp"] \in {files["tmp"], Absent}
       \/ /\ files'["tmp"].by = c /\ files'["tmp"].model.fixture = worker[c].fixture
          /\ files'["tmp"].model.steps = CheckpointStep[worker[c].fixture]
          /\ worker[c].role = "source"
    /\ \A role \in Roles : LET n == ResultOf[role] IN
          \/ files'[n] = files[n]
          \/ /\ role = worker[c].role /\ Answered(c)
             /\ files'[n].by = c /\ files'[n].model.fixture = worker[c].fixture
    /\ \/ files'["source_result"] = files["source_result"]
       \/ files'["source_result"].ok =>
             Exists("checkpoint") /\ files'["source_result"].receipt = files["checkpoint"]
    /\ \/ files'["resume_result"] = files["resume_result"]
       \/ files'["resume_result"].ok =>
             /\ worker[c].pc = "loaded"
             /\ worker[c].model.deviants \subseteq files'["resume_result"].model.deviants

LEMMA WorkerGoesOn ==
    ASSUME WorkerShapes, NEW c \in Calls, worker[c] \in LivingWorker, NEW pc \in Working,
           WorkerGoes(c, pc)
    PROVE  /\ worker' \in [Calls -> {NotStarted} \cup LivingWorker \cup DoneWorker \cup DeadWorker]
           /\ \A b \in Calls : b # c => worker'[b] = worker[b]
           /\ worker'[c] \in LivingWorker /\ worker'[c].pc = pc
           /\ worker'[c].role = worker[c].role /\ worker'[c].fixture = worker[c].fixture
           /\ worker'[c].model = worker[c].model /\ worker'[c].expected = worker[c].expected
<1>1. worker' = [worker EXCEPT ![c].pc = pc]
  BY DEF WorkerGoes
<1>2. [worker[c] EXCEPT !.pc = pc] \in LivingWorker
  BY DEF LivingWorker
<1> QED
  BY <1>1, <1>2 DEF WorkerShapes, LivingWorker

ModelsOf == [source |-> SourceModel, resume |-> ResumedModel, control |-> ControlModel]

\* A worker that answers, well or badly.
LEMMA WorkerEnds ==
    ASSUME WorkerShapes, FilesShape, NEW c \in Calls, worker[c] \in LivingWorker,
           UNCHANGED <<call, child, ended>>, NEW ok \in BOOLEAN,
           NEW model \in ModelsOf[worker[c].role], model.fixture = worker[c].fixture,
           NEW receipt \in Receipts,
           ok /\ worker[c].role = "source" => Exists("checkpoint") /\ receipt = files["checkpoint"],
           ok /\ worker[c].role = "resume" =>
               worker[c].pc = "loaded" /\ worker[c].model.deviants \subseteq model.deviants,
           WorkerAnswers(c, ok, model, receipt)
    PROVE  WorkerStep(c) /\ WorkerWrites(c)
<1> DEFINE answer == [by |-> c, ok |-> ok, model |-> model, receipt |-> receipt]
           done == [pc |-> "done", role |-> worker[c].role, ok |-> ok]
<1>1. /\ files' = [files EXCEPT ![ResultOf[worker[c].role]] = answer]
      /\ worker' = [worker EXCEPT ![c] = done]
  BY DEF WorkerAnswers, Put
<1>2. worker[c].role \in Roles /\ worker[c].pc \in Working
  BY DEF LivingWorker
<1>3. done \in DoneWorker
  BY <1>2 DEF DoneWorker
<1>4. WorkerShape(done)
  BY <1>3 DEF WorkerShape, Working
<1>5. WorkerStep(c)
  BY <1>1, <1>2, <1>3, <1>4 DEF WorkerStep, WorkerShapes, Working
<1>6. Answered(c)
  BY <1>1 DEF Answered, WorkerShapes
<1>7. CASE worker[c].role = "source"
  <2>1. answer \in Results(SourceModel) /\ (ok => receipt \in Contents)
    BY <1>7 DEF Results, ModelsOf, Receipts, Exists
  <2>2. files' = [files EXCEPT !["source_result"] = answer]
    BY <1>1, <1>7 DEF ResultOf
  <2>3. FilesShape'
    BY <2>1, <2>2 DEF FilesShape, FileNames
  <2> QED
    BY <1>1, <1>5, <1>6, <1>7, <2>2, <2>3 DEF WorkerWrites, FilesShape, FileNames, ResultOf, Roles,
       WorkerShapes
<1>8. CASE worker[c].role = "resume"
  <2>1. answer \in Results(ResumedModel)
    BY <1>8 DEF Results, ModelsOf
  <2>2. files' = [files EXCEPT !["resume_result"] = answer]
    BY <1>1, <1>8 DEF ResultOf
  <2>3. FilesShape'
    BY <2>1, <2>2 DEF FilesShape, FileNames
  <2> QED
    BY <1>1, <1>5, <1>6, <1>8, <2>2, <2>3 DEF WorkerWrites, FilesShape, FileNames, ResultOf, Roles,
       WorkerShapes
<1>9. CASE worker[c].role = "control"
  <2>1. answer \in Results(ControlModel)
    BY <1>9 DEF Results, ModelsOf
  <2>2. files' = [files EXCEPT !["control_result"] = answer]
    BY <1>1, <1>9 DEF ResultOf
  <2>3. FilesShape'
    BY <2>1, <2>2 DEF FilesShape, FileNames
  <2> QED
    BY <1>1, <1>5, <1>6, <1>9, <2>2, <2>3 DEF WorkerWrites, FilesShape, FileNames, ResultOf, Roles,
       WorkerShapes
<1> QED
  BY <1>2, <1>7, <1>8, <1>9 DEF Roles

LEMMA WorkerMoves ==
    ASSUME IInv, NEW c \in Calls, WorkerSteps(c) \/ WorkerDies(c)
    PROVE  WorkerStep(c) /\ WorkerWrites(c)
<1>1. WorkerShapes /\ FilesShape
  BY DEF IInv, Shapes
<1>2. /\ worker \in [Calls -> {NotStarted} \cup LivingWorker \cup DoneWorker \cup DeadWorker]
      /\ WorkerShape(worker[c])
      /\ worker[c].pc \in Working => worker[c] \in LivingWorker
  BY <1>1 DEF WorkerShapes, NotStarted, DoneWorker, DeadWorker, Working
<1>f. ASSUME worker[c].pc \in Working, WorkerFails(c), UNCHANGED <<call, child, ended>>
      PROVE  WorkerStep(c) /\ WorkerWrites(c)
  <2>1. worker[c] \in LivingWorker /\ worker[c].fixture \in Fixtures /\ worker[c].role \in Roles
    BY <1>2, <1>f DEF LivingWorker
  <2>2. Fresh(worker[c].fixture) \in ModelsOf[worker[c].role]
        /\ Fresh(worker[c].fixture).fixture = worker[c].fixture
    BY <2>1, FreshModel DEF ModelsOf, Roles, SourceModel, ResumedModel, ControlModel
  <2>3. Absent \in Receipts /\ FALSE \in BOOLEAN
    BY DEF Receipts
  <2> QED
    BY <1>1, <1>f, <2>1, <2>2, <2>3, WorkerEnds DEF WorkerFails
<1>3. CASE SourceSaves(c)
  <2>1. PICK m \in Trained(Fresh(worker[c].fixture), CheckpointStep[worker[c].fixture], <<c, "source">>) :
            /\ Put("tmp", Payload(c, m, TRUE))
            /\ worker' = [worker EXCEPT ![c].pc = "saved", ![c].model = m]
    BY <1>3 DEF SourceSaves
  <2>2. worker[c] \in LivingWorker /\ worker[c].pc = "running" /\ worker[c].role = "source"
        /\ UNCHANGED <<call, child, ended>>
    BY <1>2, <1>3 DEF SourceSaves, Working
  <2>3. worker[c].fixture \in Fixtures /\ CheckpointStep[worker[c].fixture] \in Nat
    BY <2>2, InterruptionAssumption DEF LivingWorker
  <2>4. m \in SourceModel /\ m.fixture = worker[c].fixture /\ m.steps = CheckpointStep[worker[c].fixture]
    BY <2>1, <2>3, SourceTrained
  <2>5. /\ worker'[c] \in LivingWorker /\ worker'[c].pc = "saved" /\ worker'[c].model = m
        /\ worker'[c].role = worker[c].role /\ worker'[c].fixture = worker[c].fixture
        /\ worker'[c].expected = worker[c].expected
    BY <1>2, <2>1, <2>2, <2>4 DEF LivingWorker, Working
  <2>6. WorkerShape(worker'[c])
    BY <2>2, <2>4, <2>5 DEF WorkerShape, Working
  <2>7. Payload(c, m, TRUE) \in Contents /\ Payload(c, m, TRUE).by = c /\ Payload(c, m, TRUE).model = m
    BY <2>4 DEF Payload, Contents
  <2>8. files' = [files EXCEPT !["tmp"] = Payload(c, m, TRUE)]
    BY <2>1 DEF Put
  <2>9. FilesShape'
    BY <1>1, <2>7, <2>8 DEF FilesShape, FileNames, Receipts
  <2>10. /\ files'["tmp"].by = c /\ files'["tmp"].model = m
         /\ \A n \in FileNames \ {"tmp"} : files'[n] = files[n]
    BY <1>1, <2>7, <2>8 DEF FilesShape, FileNames
  <2>11. WorkerWrites(c)
    BY <2>2, <2>4, <2>5, <2>9, <2>10 DEF WorkerWrites, FileNames, ResultOf, Roles
  <2> QED
    BY <1>2, <2>1, <2>2, <2>5, <2>6, <2>11 DEF WorkerStep, Working
<1>4. CASE SourceReplaces(c)
  <2>1. worker[c] \in LivingWorker /\ worker[c].pc = "saved" /\ UNCHANGED <<call, child, ended>>
    BY <1>2, <1>4 DEF SourceReplaces, Working
  <2>2. CASE Exists("tmp")
    <3>1. WorkerGoes(c, "placed") /\ "placed" \in Working
          /\ files' = [files EXCEPT !["checkpoint"] = files["tmp"], !["tmp"] = Absent]
      BY <1>4, <2>2 DEF SourceReplaces, Working
    <3>2. /\ worker' \in [Calls -> {NotStarted} \cup LivingWorker \cup DoneWorker \cup DeadWorker]
          /\ \A b \in Calls : b # c => worker'[b] = worker[b]
          /\ worker'[c] \in LivingWorker /\ worker'[c].pc = "placed"
          /\ worker'[c].role = worker[c].role /\ worker'[c].fixture = worker[c].fixture
          /\ worker'[c].model = worker[c].model /\ worker'[c].expected = worker[c].expected
      BY <1>1, <2>1, <3>1, WorkerGoesOn
    <3>3. WorkerShape(worker'[c])
      BY <1>2, <2>1, <3>2 DEF WorkerShape, Working
    <3>4. FilesShape'
      BY <1>1, <3>1 DEF FilesShape, FileNames, Receipts
    <3>5. WorkerWrites(c)
      BY <1>1, <3>1, <3>2, <3>4 DEF WorkerWrites, FilesShape, FileNames, ResultOf, Roles
    <3> QED
      BY <2>1, <3>2, <3>3, <3>5 DEF WorkerStep, Working
  <2>3. CASE ~Exists("tmp")
    BY <1>4, <1>f, <2>1, <2>3 DEF SourceReplaces, Working
  <2> QED
    BY <2>2, <2>3
<1>5. CASE SourceReads(c)
  <2>1. worker[c] \in LivingWorker /\ worker[c].pc = "placed" /\ UNCHANGED <<call, child, ended>>
        /\ worker[c].role = "source" /\ worker[c].model.fixture = worker[c].fixture
    BY <1>2, <1>5 DEF SourceReads, WorkerShape, Working
  <2>2. CASE Exists("checkpoint")
    <3>1. WorkerAnswers(c, TRUE, worker[c].model, files["checkpoint"])
      BY <1>5, <2>2 DEF SourceReads
    <3>2. worker[c].model \in ModelsOf[worker[c].role] /\ files["checkpoint"] \in Receipts
      BY <1>1, <2>1 DEF ModelsOf, LivingWorker, FilesShape
    <3> QED
      BY <1>1, <2>1, <2>2, <3>1, <3>2, WorkerEnds
  <2>3. CASE ~Exists("checkpoint")
    BY <1>5, <1>f, <2>1, <2>3 DEF SourceReads, Working
  <2> QED
    BY <2>2, <2>3
<1>6. CASE ResumeHashes(c)
  <2>1. worker[c] \in LivingWorker /\ worker[c].pc = "running" /\ UNCHANGED <<call, child, ended>>
        /\ worker[c].role = "resume"
    BY <1>2, <1>6 DEF ResumeHashes, Working
  <2>2. CASE SameContent(files["checkpoint"], worker[c].expected)
    <3>1. WorkerGoes(c, "hashed") /\ "hashed" \in Working /\ files' = files
      BY <1>6, <2>2 DEF ResumeHashes, Working
    <3>2. /\ worker' \in [Calls -> {NotStarted} \cup LivingWorker \cup DoneWorker \cup DeadWorker]
          /\ \A b \in Calls : b # c => worker'[b] = worker[b]
          /\ worker'[c] \in LivingWorker /\ worker'[c].pc = "hashed"
          /\ worker'[c].role = worker[c].role /\ worker'[c].fixture = worker[c].fixture
          /\ worker'[c].model = worker[c].model /\ worker'[c].expected = worker[c].expected
      BY <1>1, <2>1, <3>1, WorkerGoesOn
    <3>3. WorkerShape(worker'[c])
      BY <1>2, <2>1, <3>2 DEF WorkerShape, Working
    <3>4. WorkerWrites(c)
      BY <1>1, <3>1, <3>2 DEF WorkerWrites, FilesShape
    <3> QED
      BY <2>1, <2>2, <3>2, <3>3, <3>4 DEF WorkerStep, Working, SameContent
  <2>3. CASE ~SameContent(files["checkpoint"], worker[c].expected)
    BY <1>6, <1>f, <2>1, <2>3 DEF ResumeHashes, Working
  <2> QED
    BY <2>2, <2>3
<1>7. CASE ResumeLoads(c)
  <2>1. worker[c] \in LivingWorker /\ worker[c].pc = "hashed" /\ UNCHANGED <<call, child, ended>>
        /\ worker[c].role = "resume"
    BY <1>2, <1>7 DEF ResumeLoads, Working, WorkerShape
  <2>2. CASE Loadable(files["checkpoint"], worker[c].fixture)
    <3>1. /\ worker' = [worker EXCEPT ![c].pc = "loaded", ![c].model = files["checkpoint"].model]
          /\ files' = files
      BY <1>7, <2>2 DEF ResumeLoads
    <3>2. files["checkpoint"].model \in SourceModel
          /\ files["checkpoint"].model.fixture = worker[c].fixture
      BY <1>1, <2>2 DEF FilesShape, Receipts, Contents, Loadable
    <3>3. /\ worker'[c] \in LivingWorker /\ worker'[c].pc = "loaded"
          /\ worker'[c].model = files["checkpoint"].model
          /\ worker'[c].role = worker[c].role /\ worker'[c].fixture = worker[c].fixture
          /\ worker'[c].expected = worker[c].expected
      BY <1>2, <2>1, <3>1, <3>2 DEF LivingWorker, Working
    <3>4. WorkerShape(worker'[c])
      BY <2>1, <3>2, <3>3 DEF WorkerShape, Working
    <3>5. WorkerWrites(c)
      BY <1>1, <3>1, <3>3 DEF WorkerWrites, FilesShape
    <3> QED
      BY <1>2, <2>1, <3>1, <3>3, <3>4, <3>5 DEF WorkerStep, Working
  <2>3. CASE ~Loadable(files["checkpoint"], worker[c].fixture)
    BY <1>7, <1>f, <2>1, <2>3 DEF ResumeLoads, Working
  <2> QED
    BY <2>2, <2>3
<1>t. ASSUME worker[c] \in LivingWorker
      PROVE  /\ worker[c].fixture \in Fixtures /\ RequestedSteps[worker[c].fixture] \in Nat
             /\ RequestedSteps[worker[c].fixture] - CheckpointStep[worker[c].fixture] \in Nat
  BY <1>t, InterruptionAssumption DEF LivingWorker
<1>8. CASE ResumeTrains(c)
  <2>1. worker[c] \in LivingWorker /\ worker[c].pc = "loaded" /\ UNCHANGED <<call, child, ended>>
        /\ worker[c].role = "resume" /\ worker[c].model.fixture = worker[c].fixture
        /\ worker[c].model \in SourceModel
    BY <1>2, <1>8 DEF ResumeTrains, Working, WorkerShape, LivingWorker
  <2>2. PICK m \in Trained(worker[c].model,
                           RequestedSteps[worker[c].fixture] - CheckpointStep[worker[c].fixture],
                           <<c, "resume">>) : WorkerAnswers(c, TRUE, m, Absent)
    BY <1>8 DEF ResumeTrains
  <2>3. m \in ResumedModel /\ m.fixture = worker[c].fixture /\ worker[c].model.deviants \subseteq m.deviants
    BY <1>t, <2>1, <2>2, ResumeTrained
  <2>4. m \in ModelsOf[worker[c].role] /\ Absent \in Receipts
    BY <2>1, <2>3 DEF ModelsOf, Receipts
  <2> QED
    BY <1>1, <2>1, <2>2, <2>3, <2>4, WorkerEnds
<1>9. CASE ControlTrains(c)
  <2>1. worker[c] \in LivingWorker /\ worker[c].role = "control" /\ UNCHANGED <<call, child, ended>>
    BY <1>2, <1>9 DEF ControlTrains, Working
  <2>2. PICK m \in Trained(Fresh(worker[c].fixture), RequestedSteps[worker[c].fixture],
                           <<c, "control">>) : WorkerAnswers(c, TRUE, m, Absent)
    BY <1>9 DEF ControlTrains
  <2>3. m \in ControlModel /\ m.fixture = worker[c].fixture
    BY <1>t, <2>1, <2>2, ControlTrained
  <2>4. m \in ModelsOf[worker[c].role] /\ Absent \in Receipts
    BY <2>1, <2>3 DEF ModelsOf, Receipts
  <2> QED
    BY <1>1, <2>1, <2>2, <2>3, <2>4, WorkerEnds
<1>10. CASE WorkerDies(c)
  <2>1. worker[c] \in LivingWorker /\ worker[c].pc \in Working
    BY <1>2, <1>10, AliveWorker DEF WorkerDies
  <2>2. worker' = [worker EXCEPT ![c] = [pc |-> "dead", ok |-> FALSE]]
        /\ UNCHANGED <<call, files, child, ended>>
    BY <1>10 DEF WorkerDies
  <2>3. [pc |-> "dead", ok |-> FALSE] \in DeadWorker /\ WorkerShape([pc |-> "dead", ok |-> FALSE])
    BY DEF DeadWorker, WorkerShape, Working
  <2>4. worker'[c] = [pc |-> "dead", ok |-> FALSE]
    BY <1>2, <2>2
  <2>5. WorkerWrites(c)
    BY <1>1, <2>2, <2>4 DEF WorkerWrites, FilesShape
  <2> QED
    BY <1>2, <2>1, <2>2, <2>3, <2>4, <2>5 DEF WorkerStep, Working
<1> QED
  BY <1>3, <1>4, <1>5, <1>6, <1>7, <1>8, <1>9, <1>10 DEF WorkerSteps

LEMMA WorkerKeeps ==
    ASSUME IInv, NEW c \in Calls, WorkerStep(c), WorkerWrites(c)
    PROVE  IInv'
<1>1. /\ Shapes /\ Ordered /\ LeftBehind /\ ParentAt /\ ChildAt /\ WorkerAt
      /\ SignalsAnnounced /\ Interrupted /\ ResultsNamed /\ AnswersNamed
      /\ AloneWriting /\ AloneSaving /\ AloneSignals /\ AloneResuming /\ RecoveryExact
  BY DEF IInv
<1>2. /\ UNCHANGED <<call, child, ended>> /\ Self' = Self
      /\ \A b \in Calls : b # c => worker'[b] = worker[b]
      /\ worker[c] \in LivingWorker /\ Alive(worker[c])
      /\ worker[c] # NotStarted /\ worker[c].pc # "done"
  BY <1>1, AliveWorker DEF WorkerStep, Shapes, WorkerShapes, Self, Working, NotStarted
<1>s. call # Idle => Self \in Calls
  BY <1>1, SelfIsCall DEF Shapes
<1>3. \A b \in Calls : ~Alive(worker[b]) => worker'[b] = worker[b]
  BY <1>2
<1>4. Alive(worker'[c]) => /\ worker'[c].role = worker[c].role
                           /\ worker'[c].fixture = worker[c].fixture
                           /\ worker'[c].expected = worker[c].expected
  BY <1>2, AliveWorker DEF WorkerStep
<1>5. ended[c] # NotEnded /\ c # Self => ended[c].how = "crashed"
  BY <1>1, <1>2 DEF LeftBehind, Shapes, EndedShape
<1> USE <1>1, <1>2
<1>6. Shapes'
  <2>1. WorkerShapes'
    BY DEF WorkerStep, Shapes, WorkerShapes
  <2> QED
    BY <2>1 DEF WorkerWrites, Shapes, ChildShapes, CallShape, EndedShape
<1>7. Ordered'
  BY DEF Ordered
<1>8. LeftBehind'
  BY <1>3 DEF LeftBehind, Completed
<1>9. ParentAt'
  BY DEF ParentAt
<1>10. ChildAt'
  BY DEF ChildAt
<1>11. WorkerAt'
  <2> SUFFICES ASSUME call # Idle, Alive(worker'[Self]) PROVE WorkerAt'
    BY DEF WorkerAt
  <2>1. Alive(worker[Self])
    BY <1>3, <1>s
  <2>2. /\ worker'[Self].role = worker[Self].role /\ worker'[Self].fixture = worker[Self].fixture
        /\ worker'[Self].expected = worker[Self].expected
    BY <1>4, <1>s
  <2> QED
    BY <2>1, <2>2 DEF WorkerAt
<1>12. SignalsAnnounced'
  BY DEF SignalsAnnounced, WorkerWrites, Exists, Announced
<1>13. Interrupted'
  BY DEF Interrupted, Announced, SourceOver
<1>14. ResultsNamed'
  <2> SUFFICES ASSUME call # Idle, NEW role \in Roles, files'[ResultOf[role]] # Absent
               PROVE  LET result == files'[ResultOf[role]] IN
                      IF result.by = Self THEN result.model.fixture = call.fixture
                      ELSE /\ ended[result.by].how = "crashed"
                           /\ worker'[result.by].pc = "done" /\ worker'[result.by].role = role
    BY DEF ResultsNamed
  <2> DEFINE result == files'[ResultOf[role]]
  <2>1. CASE result = files[ResultOf[role]]
    <3>1. files[ResultOf[role]].by \in Calls
      BY <2>1 DEF Shapes, FilesShape, Roles, ResultOf, Results
    <3>2. \A b \in Calls : worker[b].pc = "done" => worker'[b] = worker[b]
      OBVIOUS
    <3> QED
      BY <2>1, <3>1, <3>2 DEF ResultsNamed
  <2>2. CASE /\ role = worker[c].role /\ Answered(c)
             /\ result.by = c /\ result.model.fixture = worker[c].fixture
    <3>1. CASE c = Self
      BY <2>2, <3>1 DEF WorkerAt
    <3>2. CASE c # Self
      <4>1. ended[c] # NotEnded
        BY <3>2 DEF Ordered
      <4> QED
        BY <1>5, <2>2, <3>2, <4>1 DEF Answered
    <3> QED
      BY <3>1, <3>2
  <2> QED
    BY <2>1, <2>2 DEF WorkerWrites
<1>15. AnswersNamed'
  BY DEF AnswersNamed, AnsweredBefore
<1>16. Apart => c = Self
  BY DEF Apart, AloneWriting
<1>17. AloneWriting'
  <2> SUFFICES ASSUME Apart PROVE AloneWriting'
    BY DEF AloneWriting, Apart
  <2>1. \A n \in FileNames : \/ files'[n] \in {files[n], files["tmp"], Absent}
                             \/ files'[n].by = c
    BY DEF WorkerWrites, FileNames, ResultOf, Roles
  <2> QED
    BY <1>16, <2>1 DEF AloneWriting, Apart, FileNames, Absent
<1>18. AloneSaving'
  <2> SUFFICES ASSUME Apart PROVE AloneSaving'
    BY DEF AloneSaving, Apart
  <2>1. c = Self /\ worker[Self].fixture = call.fixture
    BY <1>16 DEF Apart, WorkerAt
  <2>2. \A n \in {"checkpoint", "pending", "tmp"} : Exists(n)' => Proper(files'[n].model)
    BY <2>1 DEF AloneSaving, WorkerWrites, Exists, Proper, Absent
  <2>3. Exists("source_result")' /\ files'["source_result"].ok =>
            ProperReceipt(files'["source_result"].receipt)
    <3>1. Exists("checkpoint") => ProperReceipt(files["checkpoint"])
      BY DEF AloneSaving, AloneWriting, ProperReceipt, Exists, Shapes, FilesShape, FileNames,
             Receipts, Contents, Calls
    <3> QED
      BY <3>1 DEF WorkerWrites, AloneSaving, Exists
  <2> QED
    BY <2>2, <2>3 DEF AloneSaving, ProperReceipt, Proper
<1>19. AloneSignals'
  BY DEF AloneSignals, WorkerWrites, Apart, Exists, ProperReceipt, Proper, SourceOver
<1>20. AloneResuming'
  <2> SUFFICES ASSUME Apart PROVE AloneResuming'
    BY DEF AloneResuming, Apart
  <2>1. /\ c = Self /\ worker[Self].role = call.role
        /\ call.role = "resume" => worker[Self].expected = call.receipt
    BY <1>16 DEF Apart, WorkerAt
  <2>2. worker[c].pc \in {"hashed", "loaded"} => worker[c].role = "resume"
    BY DEF Shapes, WorkerShapes, WorkerShape
  <2>3. call.role = "source" => ~Exists("resume_result")'
    BY <2>1 DEF AloneResuming, WorkerWrites, Exists, Roles, ResultOf
  <2>4. worker'[Self].pc \in {"hashed", "loaded"} => worker[Self].role = "resume"
    BY <2>1 DEF WorkerStep, WorkerShape, Working
  <2>5. worker'[Self].pc = "hashed" => files'["checkpoint"].model = call.receipt.model
    BY <2>1, <2>4 DEF WorkerStep, WorkerWrites
  <2>6. worker'[Self].pc = "loaded" => call.receipt.model.deviants \subseteq worker'[Self].model.deviants
    BY <2>1 DEF WorkerStep, AloneResuming
  <2>7. Exists("resume_result")' /\ files'["resume_result"].ok =>
            call.receipt.model.deviants \subseteq files'["resume_result"].model.deviants
    BY <2>1 DEF AloneResuming, WorkerWrites, Exists
  <2> QED
    BY <2>3, <2>5, <2>6, <2>7 DEF AloneResuming
<1>21. RecoveryExact'
  BY DEF RecoveryExact, Completed
<1> QED
  BY <1>6, <1>7, <1>8, <1>9, <1>10, <1>11, <1>12, <1>13, <1>14, <1>15, <1>17, <1>18, <1>19,
     <1>20, <1>21 DEF IInv

-----------------------------------------------------------------------------
(* Steps of the parent *)

\* At most what was asked of the child of this call has changed.
Marked ==
    /\ ChildShapes'
    /\ \A b \in Calls : b # Self => child'[b] = child[b]
    /\ child'[Self].pc = child[Self].pc /\ Reach(child'[Self]) = Reach(child[Self])
    /\ Alive(child[Self]) => child'[Self].fixture = child[Self].fixture
    /\ child[Self].pc \in Received => child'[Self].receipt = child[Self].receipt

\* The call goes on, with what it has learned so far.
GoesOn ==
    /\ call # Idle /\ call' \in CallRecords
    /\ call'.id = call.id /\ call'.kind = call.kind /\ call'.fixture = call.fixture
    /\ call'.alone = call.alone
    /\ call'.resumed = call.resumed /\ call'.control = call.control

LEMMA Unmarked ==
    ASSUME Shapes, UNCHANGED child
    PROVE  Marked
  BY DEF Marked, Shapes, ChildShapes

LEMMA MarkedAs ==
    ASSUME Shapes, call # Idle, NEW x \in BOOLEAN,
           \/ child' = [child EXCEPT ![Self].asked = x]
           \/ child' = [child EXCEPT ![Self].killed = x]
    PROVE  /\ Marked
           /\ child[Self].pc # "none" =>
                 /\ child' = [child EXCEPT ![Self].asked = x] =>
                       child'[Self].asked = x /\ child'[Self].killed = child[Self].killed
                 /\ child' = [child EXCEPT ![Self].killed = x] =>
                       child'[Self].killed = x /\ child'[Self].asked = child[Self].asked
<1>1. Self \in Calls /\ ChildShapes
  BY SelfIsCall DEF Shapes
<1>2. child[Self] \in {NotStarted} \cup LivingChild \cup DeadChild /\ ChildShape(child[Self])
  BY <1>1 DEF ChildShapes
<1>3. CASE child[Self] = NotStarted
  <2>1. [child[Self] EXCEPT !.asked = x] = child[Self] /\ [child[Self] EXCEPT !.killed = x] = child[Self]
    BY <1>3 DEF NotStarted
  <2>2. child' = child
    BY <1>1, <2>1 DEF ChildShapes
  <2> QED
    BY <1>3, <2>2, Unmarked DEF NotStarted
<1>4. CASE child[Self] \in LivingChild
  <2>1. /\ child'[Self] \in LivingChild
        /\ child'[Self].pc = child[Self].pc /\ child'[Self].fixture = child[Self].fixture
        /\ child'[Self].model = child[Self].model /\ child'[Self].receipt = child[Self].receipt
        /\ child' = [child EXCEPT ![Self].asked = x] =>
              child'[Self].asked = x /\ child'[Self].killed = child[Self].killed
        /\ child' = [child EXCEPT ![Self].killed = x] =>
              child'[Self].killed = x /\ child'[Self].asked = child[Self].asked
    BY <1>1, <1>4 DEF ChildShapes, LivingChild
  <2>2. ChildShape(child'[Self])
    BY <1>2, <2>1 DEF ChildShape
  <2>3. ChildShapes' /\ \A b \in Calls : b # Self => child'[b] = child[b]
    BY <1>1, <2>1, <2>2 DEF ChildShapes
  <2> QED
    BY <1>4, <2>1, <2>3 DEF Marked, Reach, LivingChild, Living, Received
<1>5. CASE child[Self] \in DeadChild
  <2>1. /\ child'[Self] \in DeadChild
        /\ child'[Self].pc = child[Self].pc /\ child'[Self].reached = child[Self].reached
        /\ child' = [child EXCEPT ![Self].asked = x] =>
              child'[Self].asked = x /\ child'[Self].killed = child[Self].killed
        /\ child' = [child EXCEPT ![Self].killed = x] =>
              child'[Self].killed = x /\ child'[Self].asked = child[Self].asked
    BY <1>1, <1>5 DEF ChildShapes, DeadChild
  <2>2. ChildShape(child'[Self])
    BY <2>1 DEF ChildShape, DeadChild, Living, Received
  <2>3. ChildShapes' /\ \A b \in Calls : b # Self => child'[b] = child[b]
    BY <1>1, <2>1, <2>2 DEF ChildShapes
  <2> QED
    BY <1>5, <2>1, <2>3 DEF Marked, Reach, DeadChild, Alive, Received
<1> QED
  BY <1>2, <1>3, <1>4, <1>5

\* What holds whenever the call goes on and nothing but its record changes.
LEMMA Framed ==
    ASSUME IInv, GoesOn, Marked, UNCHANGED <<files, worker, ended>>
    PROVE  /\ Shapes' /\ Ordered' /\ LeftBehind' /\ ResultsNamed' /\ AnswersNamed'
           /\ AloneWriting' /\ AloneSaving' /\ RecoveryExact'
<1>1. /\ Shapes /\ Ordered /\ LeftBehind /\ ResultsNamed /\ AnswersNamed
      /\ AloneWriting /\ AloneSaving /\ RecoveryExact
  BY DEF IInv
<1>2. Self' = Self /\ Self \in Calls /\ call' # Idle
  BY <1>1, SelfIsCall DEF GoesOn, Self, Shapes, CallRecords, Idle, Calls
<1>3. ended[Self] = NotEnded
  BY <1>1, <1>2 DEF Ordered
<1> USE <1>1, <1>2
<1>4. Shapes'
  BY DEF Shapes, FilesShape, WorkerShapes, CallShape, EndedShape, GoesOn, Marked
<1>5. Ordered'
  BY DEF Ordered, Marked
<1>6. LeftBehind'
  BY <1>3 DEF LeftBehind, Marked, Completed, NotEnded
<1>7. ResultsNamed'
  BY DEF ResultsNamed, GoesOn
<1>8. AnswersNamed'
  BY DEF AnswersNamed, AnsweredBefore, GoesOn
<1>9. AloneWriting'
  BY DEF AloneWriting, Apart, Alive, Marked, GoesOn
<1>10. AloneSaving'
  BY DEF AloneSaving, Apart, Marked, GoesOn, Proper, ProperReceipt, Exists
<1>11. RecoveryExact'
  BY <1>3 DEF RecoveryExact, Completed, NotEnded, Marked
<1> QED
  BY <1>4, <1>5, <1>6, <1>7, <1>8, <1>9, <1>10, <1>11

\* On to the finally clause with an exception.
LEMMA FailingKeeps ==
    ASSUME IInv, call # Idle, call.pc \in {"waiting", "identify", "verify", "terminate", "await"},
           call' = Failing, Marked, UNCHANGED <<files, worker, ended>>
    PROVE  IInv'
<1>1. /\ Shapes /\ ParentAt /\ ChildAt /\ WorkerAt /\ SignalsAnnounced /\ Interrupted
      /\ AloneWriting /\ AloneSignals /\ AloneResuming
  BY DEF IInv
<1>2. call \in CallRecords /\ Self \in Calls
  BY <1>1, SelfIsCall DEF Shapes
<1>3. /\ GoesOn /\ call'.pc = "cleanup" /\ call'.failed /\ call'.signal = Absent
      /\ call'.role = call.role /\ call'.receipt = call.receipt
  BY <1>2 DEF GoesOn, Failing, CallRecords, SourcePcs, StagePcs
<1>4. Self' = Self /\ call' # Idle
  BY <1>3 DEF GoesOn, Self, CallRecords, Idle, Calls
<1> USE <1>1, <1>2, <1>3, <1>4
<1>5. ParentAt'
  BY DEF ParentAt, GoesOn, StagePcs, SourcePcs
<1>6. ChildAt'
  BY DEF ChildAt, GoesOn, Marked, Alive, StagePcs
<1>7. WorkerAt'
  BY DEF WorkerAt
<1>8. SignalsAnnounced'
  BY DEF SignalsAnnounced, Announced, Exists, Marked
<1>9. Interrupted' /\ ~SourceOver'
  BY DEF Interrupted, SourceOver
<1>10. AloneSignals'
  BY <1>9 DEF AloneSignals, Apart, GoesOn, Marked, Exists, ProperReceipt, Proper
<1>11. AloneResuming'
  BY DEF AloneResuming, Apart, GoesOn, Exists
<1> QED
  BY <1>5, <1>6, <1>7, <1>8, <1>9, <1>10, <1>11, Framed DEF IInv

LEMMA RequestWrittenKeeps ==
    ASSUME IInv, call # Idle, call.pc = "request", Goes("spawn"),
           UNCHANGED <<files, child, worker, ended>>
    PROVE  IInv'
<1>1. /\ Shapes /\ ParentAt /\ ChildAt /\ WorkerAt /\ SignalsAnnounced /\ Interrupted
      /\ AloneWriting /\ AloneSaving /\ AloneSignals /\ AloneResuming
  BY DEF IInv
<1>2. call \in CallRecords /\ Self \in Calls
  BY <1>1, SelfIsCall DEF Shapes
<1>3. /\ GoesOn /\ call'.pc = "spawn" /\ call'.failed = call.failed
      /\ call'.role = call.role /\ call'.receipt = call.receipt /\ call'.signal = call.signal
      /\ UNCHANGED <<files, worker, ended>> /\ UNCHANGED child
  BY <1>2 DEF Goes, GoesOn, CallRecords, SourcePcs
<1>4. Self' = Self /\ call' # Idle /\ Marked
  BY <1>1, <1>3, Unmarked DEF GoesOn, Self, CallRecords, Idle, Calls
<1> USE <1>1, <1>2, <1>3, <1>4
<1>5. ParentAt'
  BY DEF ParentAt, GoesOn, StagePcs, SourcePcs, Marked
<1>6. ChildAt'
  BY DEF ChildAt, GoesOn, Marked, Alive, StagePcs
<1>7. WorkerAt'
  BY DEF WorkerAt, GoesOn
<1>8. SignalsAnnounced'
  BY DEF SignalsAnnounced, Announced, Exists, Marked
<1>9. Interrupted'
  BY DEF Interrupted, SourceOver, Announced, GoesOn, Marked, Reach
<1>10. AloneSignals'
  BY DEF AloneSignals, SourceOver, Apart, GoesOn, Marked, Exists, ProperReceipt, Proper
<1>11. AloneResuming'
  BY DEF AloneResuming, Apart, GoesOn, Exists
<1> QED
  BY <1>5, <1>6, <1>7, <1>8, <1>9, <1>10, <1>11, Framed DEF IInv

LEMMA NotSpawnedKeeps ==
    ASSUME IInv, call # Idle, call.pc = "spawn",
           call' = [call EXCEPT !.pc = "unlink", !.failed = TRUE],
           UNCHANGED <<files, child, worker, ended>>
    PROVE  IInv'
<1>1. /\ Shapes /\ ParentAt /\ ChildAt /\ WorkerAt /\ SignalsAnnounced /\ Interrupted
      /\ AloneWriting /\ AloneSaving /\ AloneSignals /\ AloneResuming
  BY DEF IInv
<1>2. call \in CallRecords /\ Self \in Calls
  BY <1>1, SelfIsCall DEF Shapes
<1>3. /\ GoesOn /\ call'.pc = "unlink" /\ call'.failed
      /\ call'.role = call.role /\ call'.receipt = call.receipt /\ call'.signal = call.signal
      /\ UNCHANGED <<files, worker, ended>> /\ UNCHANGED child
  BY <1>2 DEF GoesOn, CallRecords, SourcePcs
<1>4. Self' = Self /\ call' # Idle /\ Marked
  BY <1>1, <1>3, Unmarked DEF GoesOn, Self, CallRecords, Idle, Calls
<1> USE <1>1, <1>2, <1>3, <1>4
<1>5. ParentAt'
  BY DEF ParentAt, GoesOn, StagePcs, SourcePcs, Marked
<1>6. ChildAt'
  BY DEF ChildAt, GoesOn, Marked, Alive, StagePcs
<1>7. WorkerAt'
  BY DEF WorkerAt, GoesOn
<1>8. SignalsAnnounced'
  BY DEF SignalsAnnounced, Announced, Exists, Marked
<1>9. Interrupted'
  BY DEF Interrupted, SourceOver, Announced, GoesOn, Marked, Reach
<1>10. AloneSignals'
  BY DEF AloneSignals, SourceOver, Apart, GoesOn, Marked, Exists, ProperReceipt, Proper
<1>11. AloneResuming'
  BY DEF AloneResuming, Apart, GoesOn, Exists
<1> QED
  BY <1>5, <1>6, <1>7, <1>8, <1>9, <1>10, <1>11, Framed DEF IInv

LEMMA TimeRunsOutKeeps ==
    ASSUME IInv, call # Idle, TimeRunsOut
    PROVE  IInv'
<1>1. /\ Shapes /\ ParentAt /\ ChildAt /\ WorkerAt /\ SignalsAnnounced /\ Interrupted
      /\ AloneWriting /\ AloneSaving /\ AloneSignals /\ AloneResuming
  BY DEF IInv
<1>2. call \in CallRecords /\ Self \in Calls
  BY <1>1, SelfIsCall DEF Shapes
<1>3. /\ GoesOn /\ call'.pc = call.pc /\ call'.failed = call.failed
      /\ call'.role = call.role /\ call'.receipt = call.receipt /\ call'.signal = call.signal
      /\ UNCHANGED <<files, worker, ended>> /\ UNCHANGED child
  BY <1>2 DEF TimeRunsOut, GoesOn, CallRecords
<1>4. Self' = Self /\ call' # Idle /\ Marked
  BY <1>1, <1>3, Unmarked DEF GoesOn, Self, CallRecords, Idle, Calls
<1> USE <1>1, <1>2, <1>3, <1>4
<1>5. ParentAt'
  BY DEF ParentAt, GoesOn, StagePcs, SourcePcs, Marked
<1>6. ChildAt'
  BY DEF ChildAt, GoesOn, Marked, Alive, StagePcs
<1>7. WorkerAt'
  BY DEF WorkerAt, GoesOn
<1>8. SignalsAnnounced'
  BY DEF SignalsAnnounced, Announced, Exists, Marked
<1>9. Interrupted'
  BY DEF Interrupted, SourceOver, Announced, GoesOn, Marked, Reach
<1>10. AloneSignals'
  BY DEF AloneSignals, SourceOver, Apart, GoesOn, Marked, Exists, ProperReceipt, Proper
<1>11. AloneResuming'
  BY DEF AloneResuming, Apart, GoesOn, Exists
<1> QED
  BY <1>5, <1>6, <1>7, <1>8, <1>9, <1>10, <1>11, Framed DEF IInv

LEMMA KillWorkerKeeps ==
    ASSUME IInv, call # Idle, KillWorker
    PROVE  IInv'
<1>1. /\ Shapes /\ ParentAt /\ ChildAt /\ WorkerAt /\ SignalsAnnounced /\ Interrupted
      /\ AloneWriting /\ AloneSaving /\ AloneSignals /\ AloneResuming
  BY DEF IInv
<1>2. call \in CallRecords /\ Self \in Calls
  BY <1>1, SelfIsCall DEF Shapes
<1>3. /\ GoesOn /\ call.pc = "working" /\ call'.pc = "killing" /\ call'.failed = call.failed
      /\ call'.role = call.role /\ call'.receipt = call.receipt /\ call'.signal = call.signal
      /\ UNCHANGED <<files, worker, ended>> /\ UNCHANGED child
  BY <1>2 DEF KillWorker, Goes, GoesOn, CallRecords, StagePcs
<1>4. Self' = Self /\ call' # Idle /\ Marked
  BY <1>1, <1>3, Unmarked DEF GoesOn, Self, CallRecords, Idle, Calls
<1> USE <1>1, <1>2, <1>3, <1>4
<1>5. ParentAt'
  BY DEF ParentAt, GoesOn, StagePcs, SourcePcs, Marked
<1>6. ChildAt'
  BY DEF ChildAt, GoesOn, Marked, Alive, StagePcs
<1>7. WorkerAt'
  BY DEF WorkerAt, GoesOn
<1>8. SignalsAnnounced'
  BY DEF SignalsAnnounced, Announced, Exists, Marked
<1>9. Interrupted'
  BY DEF Interrupted, SourceOver, Announced, GoesOn, Marked, Reach
<1>10. AloneSignals'
  BY DEF AloneSignals, SourceOver, Apart, GoesOn, Marked, Exists, ProperReceipt, Proper
<1>11. AloneResuming'
  BY DEF AloneResuming, Apart, GoesOn, Exists
<1> QED
  BY <1>5, <1>6, <1>7, <1>8, <1>9, <1>10, <1>11, Framed DEF IInv

LEMMA LeaveChildKeeps ==
    ASSUME IInv, call # Idle, LeaveChild
    PROVE  IInv'
<1>1. /\ Shapes /\ ParentAt /\ ChildAt /\ WorkerAt /\ SignalsAnnounced /\ Interrupted
      /\ AloneWriting /\ AloneSaving /\ AloneSignals /\ AloneResuming
  BY DEF IInv
<1>2. call \in CallRecords /\ Self \in Calls
  BY <1>1, SelfIsCall DEF Shapes
<1>3. /\ GoesOn /\ call.pc = "kill" /\ call'.pc = "unlink" /\ call'.failed = call.failed
      /\ call'.role = call.role /\ call'.receipt = call.receipt /\ call'.signal = call.signal
      /\ UNCHANGED <<files, worker, ended>> /\ UNCHANGED child
  BY <1>2 DEF LeaveChild, Goes, GoesOn, CallRecords, SourcePcs
<1>4. Self' = Self /\ call' # Idle /\ Marked
  BY <1>1, <1>3, Unmarked DEF GoesOn, Self, CallRecords, Idle, Calls
<1> USE <1>1, <1>2, <1>3, <1>4
<1>5. ParentAt'
  BY DEF ParentAt, GoesOn, StagePcs, SourcePcs, Marked
<1>6. ChildAt'
  BY DEF ChildAt, GoesOn, Marked, Alive, StagePcs
<1>7. WorkerAt'
  BY DEF WorkerAt, GoesOn
<1>8. SignalsAnnounced'
  BY DEF SignalsAnnounced, Announced, Exists, Marked
<1>9. Interrupted'
  BY DEF Interrupted, SourceOver, Announced, GoesOn, Marked, Reach
<1>10. AloneSignals'
  BY DEF AloneSignals, SourceOver, Apart, GoesOn, Marked, Exists, ProperReceipt, Proper
<1>11. AloneResuming'
  BY DEF AloneResuming, Apart, GoesOn, Exists
<1> QED
  BY <1>5, <1>6, <1>7, <1>8, <1>9, <1>10, <1>11, Framed DEF IInv

LEMMA PollKeeps ==
    ASSUME IInv, call # Idle, call.pc = "waiting", Exists("signal"),
           call' = [call EXCEPT !.pc = "identify", !.signal = files["signal"]],
           UNCHANGED <<files, child, worker, ended>>
    PROVE  IInv'
<1>1. /\ Shapes /\ ParentAt /\ ChildAt /\ WorkerAt /\ SignalsAnnounced /\ Interrupted
      /\ AloneWriting /\ AloneSaving /\ AloneSignals /\ AloneResuming
  BY DEF IInv
<1>2. call \in CallRecords /\ Self \in Calls
  BY <1>1, SelfIsCall DEF Shapes
<1>3. /\ GoesOn /\ call.pc = "waiting" /\ call'.pc = "identify" /\ call'.failed = call.failed
      /\ call'.role = call.role /\ call'.receipt = call.receipt
      /\ call'.signal = files["signal"] /\ Exists("signal")
      /\ UNCHANGED <<files, worker, ended>> /\ UNCHANGED child
  BY <1>1, <1>2 DEF GoesOn, CallRecords, SourcePcs, Shapes, FilesShape
<1>4. Self' = Self /\ call' # Idle /\ Marked
  BY <1>1, <1>3, Unmarked DEF GoesOn, Self, CallRecords, Idle, Calls
<1> USE <1>1, <1>2, <1>3, <1>4
<1>5. ParentAt'
  BY DEF ParentAt, GoesOn, StagePcs, SourcePcs, Marked
<1>6. ChildAt'
  BY DEF ChildAt, GoesOn, Marked, Alive, StagePcs
<1>7. WorkerAt'
  BY DEF WorkerAt, GoesOn
<1>8. SignalsAnnounced'
  BY DEF SignalsAnnounced, Announced, Exists, Marked
<1>9. Interrupted'
  BY DEF Interrupted, SourceOver, Announced, GoesOn, Marked, Reach
<1>10. AloneSignals'
  BY DEF AloneSignals, SourceOver, Apart, GoesOn, Marked, Exists, ProperReceipt, Proper
<1>11. AloneResuming'
  BY DEF AloneResuming, Apart, GoesOn, Exists
<1> QED
  BY <1>5, <1>6, <1>7, <1>8, <1>9, <1>10, <1>11, Framed DEF IInv

LEMMA IdentifyKeeps ==
    ASSUME IInv, call # Idle, call.pc = "identify", Identified,
           call' = [call EXCEPT !.pc = "verify"], UNCHANGED <<files, child, worker, ended>>
    PROVE  IInv'
<1>1. /\ Shapes /\ ParentAt /\ ChildAt /\ WorkerAt /\ SignalsAnnounced /\ Interrupted
      /\ AloneWriting /\ AloneSaving /\ AloneSignals /\ AloneResuming
  BY DEF IInv
<1>2. call \in CallRecords /\ Self \in Calls
  BY <1>1, SelfIsCall DEF Shapes
<1>3. /\ GoesOn /\ call'.pc = "verify" /\ call'.failed = call.failed
      /\ call'.role = call.role /\ call'.receipt = call.receipt /\ call'.signal = call.signal
      /\ UNCHANGED <<files, worker, ended>> /\ UNCHANGED child
  BY <1>2 DEF GoesOn, CallRecords, SourcePcs
<1>4. Self' = Self /\ call' # Idle /\ Marked
  BY <1>1, <1>3, Unmarked DEF GoesOn, Self, CallRecords, Idle, Calls
<1> USE <1>1, <1>2, <1>3, <1>4
<1>5. ParentAt'
  BY DEF ParentAt, GoesOn, StagePcs, SourcePcs, Marked
<1>6. ChildAt'
  BY DEF ChildAt, GoesOn, Marked, Alive, StagePcs
<1>7. WorkerAt'
  BY DEF WorkerAt, GoesOn
<1>8. SignalsAnnounced'
  BY DEF SignalsAnnounced, Announced, Exists, Identified, Self
<1>9. Interrupted'
  BY DEF Interrupted, SourceOver, Announced, GoesOn, Marked, Reach
<1>10. AloneSignals'
  BY DEF AloneSignals, SourceOver, Apart, GoesOn, Marked, Exists, ProperReceipt, Proper
<1>11. AloneResuming'
  BY DEF AloneResuming, Apart, GoesOn, Exists
<1> QED
  BY <1>5, <1>6, <1>7, <1>8, <1>9, <1>10, <1>11, Framed DEF IInv

LEMMA VerifyKeeps ==
    ASSUME IInv, call # Idle, call.pc = "verify",
           call' = [call EXCEPT !.pc = "terminate"], UNCHANGED <<files, child, worker, ended>>
    PROVE  IInv'
<1>1. /\ Shapes /\ ParentAt /\ ChildAt /\ WorkerAt /\ SignalsAnnounced /\ Interrupted
      /\ AloneWriting /\ AloneSaving /\ AloneSignals /\ AloneResuming
  BY DEF IInv
<1>2. call \in CallRecords /\ Self \in Calls
  BY <1>1, SelfIsCall DEF Shapes
<1>3. /\ GoesOn /\ call'.pc = "terminate" /\ call'.failed = call.failed
      /\ call'.role = call.role /\ call'.receipt = call.receipt /\ call'.signal = call.signal
      /\ UNCHANGED <<files, worker, ended>> /\ UNCHANGED child
  BY <1>2 DEF GoesOn, CallRecords, SourcePcs
<1>4. Self' = Self /\ call' # Idle /\ Marked
  BY <1>1, <1>3, Unmarked DEF GoesOn, Self, CallRecords, Idle, Calls
<1> USE <1>1, <1>2, <1>3, <1>4
<1>5. ParentAt'
  BY DEF ParentAt, GoesOn, StagePcs, SourcePcs, Marked
<1>6. ChildAt'
  BY DEF ChildAt, GoesOn, Marked, Alive, StagePcs
<1>7. WorkerAt'
  BY DEF WorkerAt, GoesOn
<1>8. SignalsAnnounced'
  BY DEF SignalsAnnounced, Announced, Exists, Marked
<1>9. Interrupted'
  BY DEF Interrupted, SourceOver, Announced, GoesOn, Marked, Reach
<1>10. AloneSignals'
  BY DEF AloneSignals, SourceOver, Apart, GoesOn, Marked, Exists, ProperReceipt, Proper
<1>11. AloneResuming'
  BY DEF AloneResuming, Apart, GoesOn, Exists
<1> QED
  BY <1>5, <1>6, <1>7, <1>8, <1>9, <1>10, <1>11, Framed DEF IInv

LEMMA TerminateKeeps ==
    ASSUME IInv, call # Idle, call.pc = "terminate", Alive(child[Self]),
           call' = [call EXCEPT !.pc = "await"], child' = [child EXCEPT ![Self].asked = TRUE],
           UNCHANGED <<files, worker, ended>>
    PROVE  IInv'
<1>1. /\ Shapes /\ ParentAt /\ ChildAt /\ WorkerAt /\ SignalsAnnounced /\ Interrupted
      /\ AloneWriting /\ AloneSaving /\ AloneSignals /\ AloneResuming
  BY DEF IInv
<1>2. call \in CallRecords /\ Self \in Calls
  BY <1>1, SelfIsCall DEF Shapes
<1>3. /\ GoesOn /\ call'.pc = "await" /\ call'.failed = call.failed
      /\ call'.role = call.role /\ call'.receipt = call.receipt /\ call'.signal = call.signal
      /\ UNCHANGED <<files, worker, ended>> /\ Marked
      /\ child[Self].pc # "none" /\ child'[Self].asked
  BY <1>1, <1>2, MarkedAs DEF GoesOn, CallRecords, SourcePcs, Alive
<1>4. Self' = Self /\ call' # Idle /\ Marked
  BY <1>1, <1>3 DEF GoesOn, Self, CallRecords, Idle, Calls
<1> USE <1>1, <1>2, <1>3, <1>4
<1>5. ParentAt'
  BY DEF ParentAt, GoesOn, StagePcs, SourcePcs, Marked
<1>6. ChildAt'
  BY DEF ChildAt, GoesOn, Marked, Alive, StagePcs
<1>7. WorkerAt'
  BY DEF WorkerAt, GoesOn
<1>8. SignalsAnnounced'
  <2>1. \A b \in Calls : Reach(child'[b]) = Reach(child[b])
    BY DEF Marked
  <2>2. ASSUME NEW n \in {"signal", "signal_pending"}, Exists(n)'
        PROVE  Announced(files[n].by)'
    <3>1. files' = files /\ Exists(n)
      BY <2>2 DEF Exists
    <3>2. Announced(files[n].by)
      BY <3>1 DEF SignalsAnnounced
    <3> QED
      BY <2>1, <3>1, <3>2 DEF Announced
  <2>3. call'.signal # Absent => Announced(call.signal.by)'
    BY <2>1 DEF SignalsAnnounced, Announced
  <2>4. call'.signal.by = Self'
    BY DEF SignalsAnnounced
  <2> QED
    BY <2>2, <2>3, <2>4 DEF SignalsAnnounced
<1>9. Interrupted'
  BY DEF Interrupted, SourceOver, Announced, GoesOn, Marked, Reach
<1>10. AloneSignals'
  BY DEF AloneSignals, SourceOver, Apart, GoesOn, Marked, Exists, ProperReceipt, Proper
<1>11. AloneResuming'
  BY DEF AloneResuming, Apart, GoesOn, Exists
<1> QED
  BY <1>5, <1>6, <1>7, <1>8, <1>9, <1>10, <1>11, Framed DEF IInv

LEMMA ExitSeenKeeps ==
    ASSUME IInv, call # Idle, call.pc = "await", ~Alive(child[Self]),
           call' = [call EXCEPT !.pc = "cleanup", !.signal = Absent, !.receipt = call.signal.receipt],
           UNCHANGED <<files, child, worker, ended>>
    PROVE  IInv'
<1>1. /\ Shapes /\ ParentAt /\ ChildAt /\ WorkerAt /\ SignalsAnnounced /\ Interrupted
      /\ AloneWriting /\ AloneSaving /\ AloneSignals /\ AloneResuming
  BY DEF IInv
<1>2. call \in CallRecords /\ Self \in Calls
  BY <1>1, SelfIsCall DEF Shapes
<1>a. /\ call.signal.by = Self /\ call.signal \in Signals /\ call.signal # Absent
      /\ child[Self].pc = "dead" /\ child[Self].asked
      /\ Announced(Self) /\ call.role = "source"
  <2>1. call.signal.by = Self
    BY <1>1 DEF SignalsAnnounced
  <2>2. call.signal \in Signals /\ call.signal # Absent
    BY <1>2, <2>1 DEF CallRecords, Absent, Calls
  <2>3. child[Self].pc # "none" /\ ~Alive(child[Self])
    BY <1>1 DEF ChildAt
  <2>4. child[Self].pc = "dead"
    BY <1>1, <1>2, <2>3 DEF Shapes, ChildShapes, NotStarted, LivingChild, DeadChild, Living, Received, Alive
  <2> QED
    BY <1>1, <2>1, <2>2, <2>4 DEF SignalsAnnounced, ParentAt, SourcePcs
<1>b. call.signal.receipt \in Receipts
  BY <1>a DEF Signals, Receipts
<1>3. /\ GoesOn /\ call'.pc = "cleanup" /\ call'.failed = call.failed
      /\ call'.role = call.role /\ call'.receipt = call.signal.receipt /\ call'.signal = Absent
      /\ UNCHANGED <<files, worker, ended>> /\ UNCHANGED child
  BY <1>2, <1>b DEF GoesOn, CallRecords, SourcePcs
<1>4. Self' = Self /\ call' # Idle /\ Marked
  BY <1>1, <1>3, Unmarked DEF GoesOn, Self, CallRecords, Idle, Calls
<1> USE <1>1, <1>2, <1>3, <1>4
<1>5. ParentAt'
  BY DEF ParentAt, GoesOn, StagePcs, SourcePcs, Marked
<1>6. ChildAt'
  BY DEF ChildAt, GoesOn, Marked, Alive, StagePcs
<1>7. WorkerAt'
  BY <1>a DEF WorkerAt
<1>8. SignalsAnnounced'
  BY DEF SignalsAnnounced, Announced, Exists, Marked
<1>9. Interrupted'
  BY <1>a DEF Interrupted, SourceOver, Announced, GoesOn, Reach, AloneSignals, Apart
<1>10. AloneSignals'
  BY <1>a DEF AloneSignals, SourceOver, Apart, GoesOn, Exists, ProperReceipt, Proper
<1>11. AloneResuming'
  BY <1>a DEF AloneResuming, WorkerAt, Alive, Apart, GoesOn, Exists
<1> QED
  BY <1>5, <1>6, <1>7, <1>8, <1>9, <1>10, <1>11, Framed DEF IInv

LEMMA CleanUpKeeps ==
    ASSUME IInv, call # Idle, CleanUpChild
    PROVE  IInv'
<1>1. /\ Shapes /\ ParentAt /\ ChildAt /\ WorkerAt /\ SignalsAnnounced /\ Interrupted
      /\ AloneWriting /\ AloneSaving /\ AloneSignals /\ AloneResuming
  BY DEF IInv
<1>2. call \in CallRecords /\ Self \in Calls
  BY <1>1, SelfIsCall DEF Shapes
<1>a. /\ (child[Self].asked \/ Alive(child[Self])) \in BOOLEAN
      /\ child' = [child EXCEPT ![Self].asked = child[Self].asked \/ Alive(child[Self])]
  BY <1>1, <1>2 DEF CleanUpChild, Shapes, ChildShapes
<1>3. /\ GoesOn /\ call.pc = "cleanup" /\ call'.failed = call.failed
      /\ call'.pc = IF Alive(child[Self]) THEN "reap" ELSE "unlink"
      /\ call'.role = call.role /\ call'.receipt = call.receipt /\ call'.signal = call.signal
      /\ UNCHANGED <<files, worker, ended>> /\ Marked
      /\ child[Self].pc # "none"
      /\ child'[Self].killed = child[Self].killed
      /\ child'[Self].asked = (child[Self].asked \/ Alive(child[Self]))
  BY <1>1, <1>2, <1>a, MarkedAs DEF CleanUpChild, Goes, GoesOn, CallRecords, SourcePcs, ChildAt
<1>4. Self' = Self /\ call' # Idle /\ Marked
  BY <1>1, <1>3 DEF GoesOn, Self, CallRecords, Idle, Calls
<1> USE <1>1, <1>2, <1>3, <1>4
<1>5. ParentAt'
  BY DEF ParentAt, GoesOn, StagePcs, SourcePcs, Marked
<1>6. ChildAt'
  BY DEF ChildAt, GoesOn, Marked, Alive, StagePcs
<1>7. WorkerAt'
  BY DEF WorkerAt, GoesOn
<1>8. SignalsAnnounced'
  BY DEF SignalsAnnounced, Announced, Exists, Marked
<1>9. Interrupted'
  BY DEF Interrupted, SourceOver, Announced, GoesOn, Marked, Reach
<1>10. AloneSignals'
  BY DEF AloneSignals, SourceOver, Apart, GoesOn, Marked, Exists, ProperReceipt, Proper
<1>11. AloneResuming'
  BY DEF AloneResuming, Apart, GoesOn, Exists
<1> QED
  BY <1>5, <1>6, <1>7, <1>8, <1>9, <1>10, <1>11, Framed DEF IInv

LEMMA ReapKeeps ==
    ASSUME IInv, call # Idle, ReapChild
    PROVE  IInv'
<1>1. /\ Shapes /\ ParentAt /\ ChildAt /\ WorkerAt /\ SignalsAnnounced /\ Interrupted
      /\ AloneWriting /\ AloneSaving /\ AloneSignals /\ AloneResuming
  BY DEF IInv
<1>2. call \in CallRecords /\ Self \in Calls
  BY <1>1, SelfIsCall DEF Shapes
<1>a. /\ Alive(child[Self]) \in BOOLEAN
      /\ child' = [child EXCEPT ![Self].killed = Alive(child[Self])]
  BY DEF ReapChild, Alive
<1>3. /\ GoesOn /\ call.pc = "reap" /\ call'.failed = call.failed
      /\ call'.pc = IF Alive(child[Self]) THEN "kill" ELSE "unlink"
      /\ call'.role = call.role /\ call'.receipt = call.receipt /\ call'.signal = call.signal
      /\ UNCHANGED <<files, worker, ended>> /\ Marked
      /\ child[Self].pc # "none"
      /\ child'[Self].asked = child[Self].asked
      /\ child'[Self].killed = Alive(child[Self])
  BY <1>1, <1>2, <1>a, MarkedAs DEF ReapChild, Goes, GoesOn, CallRecords, SourcePcs, ChildAt
<1>4. Self' = Self /\ call' # Idle /\ Marked
  BY <1>1, <1>3 DEF GoesOn, Self, CallRecords, Idle, Calls
<1> USE <1>1, <1>2, <1>3, <1>4
<1>5. ParentAt'
  BY DEF ParentAt, GoesOn, StagePcs, SourcePcs, Marked
<1>6. ChildAt'
  BY DEF ChildAt, GoesOn, Marked, Alive, StagePcs
<1>7. WorkerAt'
  BY DEF WorkerAt, GoesOn
<1>8. SignalsAnnounced'
  BY DEF SignalsAnnounced, Announced, Exists, Marked
<1>9. Interrupted'
  BY DEF Interrupted, SourceOver, Announced, GoesOn, Marked, Reach
<1>10. AloneSignals'
  BY DEF AloneSignals, SourceOver, Apart, GoesOn, Marked, Exists, ProperReceipt, Proper
<1>11. AloneResuming'
  BY DEF AloneResuming, Apart, GoesOn, Exists
<1> QED
  BY <1>5, <1>6, <1>7, <1>8, <1>9, <1>10, <1>11, Framed DEF IInv

LEMMA RecheckKeeps ==
    ASSUME IInv, call # Idle, call.pc = "recheck",
           call' = [call EXCEPT !.pc = "stage", !.role = "resume"],
           UNCHANGED <<files, child, worker, ended>>
    PROVE  IInv'
<1>1. /\ Shapes /\ ParentAt /\ ChildAt /\ WorkerAt /\ SignalsAnnounced /\ Interrupted
      /\ AloneWriting /\ AloneSaving /\ AloneSignals /\ AloneResuming
  BY DEF IInv
<1>2. call \in CallRecords /\ Self \in Calls
  BY <1>1, SelfIsCall DEF Shapes
<1>3. /\ GoesOn /\ call'.pc = "stage" /\ call'.failed = call.failed
      /\ call'.role = "resume" /\ call'.receipt = call.receipt /\ call'.signal = call.signal
      /\ UNCHANGED <<files, worker, ended>> /\ UNCHANGED child
  BY <1>2 DEF GoesOn, CallRecords, StagePcs, Roles
<1>4. Self' = Self /\ call' # Idle /\ Marked
  BY <1>1, <1>3, Unmarked DEF GoesOn, Self, CallRecords, Idle, Calls
<1> USE <1>1, <1>2, <1>3, <1>4
<1>5. ParentAt'
  BY DEF ParentAt, GoesOn, StagePcs, SourcePcs, Marked
<1>6. ChildAt'
  BY DEF ChildAt, GoesOn, Marked, Alive, StagePcs
<1>7. WorkerAt'
  BY DEF WorkerAt, GoesOn
<1>8. SignalsAnnounced'
  BY DEF SignalsAnnounced, Announced, Exists, Marked
<1>9. Interrupted'
  BY DEF Interrupted, SourceOver, Announced, GoesOn, Marked, Reach
<1>10. AloneSignals'
  BY DEF AloneSignals, SourceOver, Apart, GoesOn, Marked, Exists, ProperReceipt, Proper
<1>11. AloneResuming'
  BY DEF AloneResuming, ParentAt, SourcePcs, WorkerAt, Alive, Apart, GoesOn, Exists
<1> QED
  BY <1>5, <1>6, <1>7, <1>8, <1>9, <1>10, <1>11, Framed DEF IInv

\* What holds whenever the call goes on and removes a file it has read.
LEMMA Unlinked ==
    ASSUME IInv, call # Idle, call' \in CallRecords,
           call'.id = call.id, call'.fixture = call.fixture, call'.alone = call.alone,
           NEW name \in {"signal", "source_result", "resume_result", "control_result"}, Unlink(name),
           UNCHANGED <<child, worker, ended>>
    PROVE  /\ Self' = Self /\ call' # Idle
           /\ \A n \in FileNames : files'[n] \in {files[n], Absent}
           /\ \A n \in FileNames : n # name => files'[n] = files[n]
           /\ Shapes' /\ Ordered' /\ LeftBehind' /\ ResultsNamed'
           /\ AloneWriting' /\ AloneSaving' /\ RecoveryExact'
<1>1. /\ Shapes /\ Ordered /\ LeftBehind /\ ResultsNamed
      /\ AloneWriting /\ AloneSaving /\ RecoveryExact
  BY DEF IInv
<1>2. Self' = Self /\ Self \in Calls /\ call' # Idle
  BY <1>1, SelfIsCall DEF Self, Shapes, CallRecords, Idle, Calls
<1>3. /\ \A n \in FileNames : files'[n] \in {files[n], Absent}
      /\ \A n \in FileNames : n # name => files'[n] = files[n]
      /\ DOMAIN files' = FileNames /\ files' = [n \in FileNames |-> files'[n]]
  BY <1>1 DEF Shapes, FilesShape, FileNames, Unlink, Put
<1>4. FilesShape'
  <2>1. \A n \in {"checkpoint", "pending", "tmp"} : files'[n] \in Receipts
    BY <1>1, <1>3 DEF Shapes, FilesShape, FileNames, Receipts
  <2>2. \A n \in {"signal", "signal_pending"} : files'[n] \in Signals \cup {Absent}
    BY <1>1, <1>3 DEF Shapes, FilesShape, FileNames
  <2>3. /\ files'["source_result"] \in Results(SourceModel) \cup {Absent}
        /\ files'["source_result"].by # 0 /\ files'["source_result"].ok =>
               files'["source_result"].receipt \in Contents
    BY <1>1, <1>3 DEF Shapes, FilesShape, FileNames, Absent
  <2>4. /\ files'["resume_result"] \in Results(ResumedModel) \cup {Absent}
        /\ files'["control_result"] \in Results(ControlModel) \cup {Absent}
    BY <1>1, <1>3 DEF Shapes, FilesShape, FileNames
  <2> QED
    BY <1>3, <2>1, <2>2, <2>3, <2>4 DEF FilesShape
<1> USE <1>1, <1>2
<1>5. Shapes'
  BY <1>4 DEF Shapes, ChildShapes, WorkerShapes, CallShape, EndedShape
<1>6. Ordered'
  BY DEF Ordered
<1>7. LeftBehind'
  BY DEF LeftBehind, Completed
<1>8. ResultsNamed'
  <2>1. \A role \in Roles : ResultOf[role] \in FileNames
    BY DEF Roles, ResultOf, FileNames
  <2> QED
    BY <1>3, <2>1 DEF ResultsNamed
<1>9. AloneWriting'
  BY <1>3 DEF AloneWriting, Apart, Absent
<1>10. AloneSaving'
  BY <1>3 DEF AloneSaving, Apart, Proper, ProperReceipt, Exists, FileNames
<1>11. RecoveryExact'
  BY DEF RecoveryExact, Completed
<1> QED
  BY <1>3, <1>5, <1>6, <1>7, <1>8, <1>9, <1>10, <1>11

LEMMA UnlinkKeeps ==
    ASSUME IInv, call # Idle, call.pc = "unlink", ~call.failed, Unlink("signal"), Goes("recheck"),
           UNCHANGED <<child, worker, ended>>
    PROVE  IInv'
<1>1. /\ Shapes /\ ParentAt /\ ChildAt /\ WorkerAt /\ SignalsAnnounced /\ Interrupted
      /\ AnswersNamed /\ AloneSignals /\ AloneResuming
  BY DEF IInv
<1>2. call \in CallRecords /\ Self \in Calls
  BY <1>1, SelfIsCall DEF Shapes
<1>3. /\ call' \in CallRecords /\ call'.pc = "recheck"
      /\ call'.id = call.id /\ call'.kind = call.kind /\ call'.fixture = call.fixture
      /\ call'.alone = call.alone /\ call'.role = call.role /\ call'.receipt = call.receipt
      /\ call'.signal = call.signal /\ call'.resumed = call.resumed /\ call'.control = call.control
  BY <1>2 DEF Goes, CallRecords, SourcePcs
<1>4. /\ Self' = Self /\ call' # Idle
      /\ \A n \in FileNames : files'[n] \in {files[n], Absent}
      /\ \A n \in FileNames : n # "signal" => files'[n] = files[n]
      /\ Shapes' /\ Ordered' /\ LeftBehind' /\ ResultsNamed'
      /\ AloneWriting' /\ AloneSaving' /\ RecoveryExact'
  BY <1>3, Unlinked
<1> USE <1>1, <1>2, <1>3, <1>4
<1>5. call.kind = "interruption" /\ SourceOver /\ child[Self].pc = "dead"
  <2>1. call.kind \in {"recovery", "interruption"}
    BY DEF CallRecords
  <2>2. call.kind = "interruption"
    BY <2>1 DEF ParentAt, StagePcs
  <2>3. SourceOver
    BY DEF SourceOver
  <2> QED
    BY <2>2, <2>3 DEF Interrupted
<1>6. ParentAt'
  BY <1>5 DEF ParentAt, SourcePcs, StagePcs
<1>7. ChildAt'
  BY <1>5 DEF ChildAt, Alive
<1>8. WorkerAt'
  BY DEF WorkerAt
<1>9. SignalsAnnounced'
  BY DEF SignalsAnnounced, Announced, Exists, FileNames
<1>10. Interrupted'
  BY <1>5 DEF Interrupted, Announced
<1>11. AnswersNamed'
  BY DEF AnswersNamed, AnsweredBefore
<1>12. AloneSignals'
  BY <1>5 DEF AloneSignals, Apart, Exists, ProperReceipt, Proper, FileNames
<1>13. AloneResuming'
  BY DEF AloneResuming, WorkerAt, Alive, Apart, Exists, FileNames
<1> QED
  BY <1>4, <1>6, <1>7, <1>8, <1>9, <1>10, <1>11, <1>12, <1>13 DEF IInv

LEMMA EndStageKeeps ==
    ASSUME IInv, call # Idle, call.pc = "working", ~Alive(worker[Self]),
           worker[Self].pc = "done",
           NEW name, name = ResultOf[call.role], Exists(name), files[name].ok, Unlink(name),
           call' = [call EXCEPT
               !.pc = Next3[call.role],
               !.role = IF call.role = "resume" THEN "control" ELSE @,
               !.receipt = IF call.role = "source" THEN files[name].receipt ELSE @,
               !.resumed = IF call.role = "resume" THEN files[name].model ELSE @,
               !.control = IF call.role = "control" THEN files[name].model ELSE @],
           UNCHANGED <<child, worker, ended>>
    PROVE  IInv'
<1>1. /\ Shapes /\ ParentAt /\ ChildAt /\ WorkerAt /\ SignalsAnnounced /\ Interrupted
      /\ ResultsNamed /\ AnswersNamed /\ AloneWriting /\ AloneSaving /\ AloneSignals /\ AloneResuming
  BY DEF IInv
<1>2. call \in CallRecords /\ Self \in Calls /\ call.role \in Roles
  BY <1>1, SelfIsCall DEF Shapes, CallRecords
<1>3. /\ call.role = "source" => files[name].receipt \in Receipts
      /\ call.role = "resume" => files[name].model \in ResumedModel
      /\ call.role = "control" => files[name].model \in ControlModel
  BY <1>1, SMTT(30) DEF ResultOf, Shapes, FilesShape, Exists, Results
<1>4. /\ call' \in CallRecords /\ call'.pc = Next3[call.role]
      /\ call'.id = call.id /\ call'.kind = call.kind /\ call'.fixture = call.fixture
      /\ call'.alone = call.alone /\ call'.signal = call.signal
      /\ call'.role = IF call.role = "resume" THEN "control" ELSE call.role
      /\ call'.receipt = IF call.role = "source" THEN files[name].receipt ELSE call.receipt
      /\ call'.resumed = IF call.role = "resume" THEN files[name].model ELSE call.resumed
      /\ call'.control = IF call.role = "control" THEN files[name].model ELSE call.control
  <2>1. CASE call.role = "source"
    <3>1. call' = [call EXCEPT !.pc = "recheck", !.role = @, !.receipt = files[name].receipt,
                               !.resumed = @, !.control = @]
      BY <2>1 DEF Next3
    <3> QED
      BY <1>2, <1>3, <2>1, <3>1, ZenonT(60) DEF CallRecords, SourcePcs, Next3
  <2>2. CASE call.role = "resume"
    <3>1. call' = [call EXCEPT !.pc = "stage", !.role = "control", !.receipt = @,
                               !.resumed = files[name].model, !.control = @]
      BY <2>2 DEF Next3
    <3> QED
      BY <1>2, <1>3, <2>2, <3>1, ZenonT(60) DEF CallRecords, StagePcs, Next3, Roles
  <2>3. CASE call.role = "control"
    <3>1. call' = [call EXCEPT !.pc = "compare", !.role = @, !.receipt = @,
                               !.resumed = @, !.control = files[name].model]
      BY <2>3 DEF Next3
    <3> QED
      BY <1>2, <1>3, <2>3, <3>1, ZenonT(60) DEF CallRecords, StagePcs, Next3
  <2> QED
    BY <1>2, <2>1, <2>2, <2>3 DEF Roles
<1>5. name \in {"signal", "source_result", "resume_result", "control_result"} /\ name # "signal"
  BY <1>2 DEF ResultOf, Roles
<1>6. /\ Self' = Self /\ call' # Idle
      /\ \A n \in FileNames : files'[n] \in {files[n], Absent}
      /\ \A n \in FileNames : n # name => files'[n] = files[n]
      /\ Shapes' /\ Ordered' /\ LeftBehind' /\ ResultsNamed'
      /\ AloneWriting' /\ AloneSaving' /\ RecoveryExact'
  BY <1>4, <1>5, Unlinked
<1> USE <1>1, <1>2, <1>4, <1>6
<1>7. ~Alive(child[Self])
  BY DEF ChildAt, StagePcs
<1>8. ParentAt'
  BY DEF ParentAt, SourcePcs, StagePcs, Next3, Roles
<1>9. ChildAt'
  BY <1>7 DEF ChildAt, Next3, Roles
<1>10. WorkerAt'
  BY DEF WorkerAt
<1>11. SignalsAnnounced'
  BY <1>5 DEF SignalsAnnounced, Announced, Exists, FileNames, Next3, Roles
<1>12. Interrupted'
  BY DEF Interrupted, Announced, SourceOver, ParentAt, StagePcs
<1>13. AnswersNamed'
  <2>1. files[name].model.fixture # call.fixture => ~call.alone /\ AnsweredBefore(call.role)
    <3> SUFFICES ASSUME files[name].model.fixture # call.fixture
                 PROVE  ~call.alone /\ AnsweredBefore(call.role)
      OBVIOUS
    <3>1. files[name].by \in Calls
      BY <1>5 DEF Shapes, FilesShape, Exists, Results
    <3>2. /\ files[name].by # Self /\ ended[files[name].by].how = "crashed"
          /\ worker[files[name].by].pc = "done" /\ worker[files[name].by].role = call.role
      BY DEF ResultsNamed, Exists
    <3>3. ~call.alone
      BY <1>5, <3>1, <3>2, SMTT(30) DEF AloneWriting, Apart, FileNames, Calls
    <3> QED
      BY <3>1, <3>2, <3>3 DEF AnsweredBefore
  <2>2. \A role \in Roles : AnsweredBefore(role)' <=> AnsweredBefore(role)
    BY DEF AnsweredBefore
  <2> QED
    BY <2>1, <2>2 DEF AnswersNamed, Roles
<1>14. AloneSignals'
  <2> SUFFICES ASSUME Apart PROVE AloneSignals'
    BY DEF AloneSignals, Apart
  <2>1. SourceOver' => ProperReceipt(call'.receipt)
    <3>1. CASE call.role = "source"
      BY <1>5, <3>1 DEF AloneSaving, Exists, ResultOf
    <3>2. CASE call.role # "source"
      BY <3>2 DEF AloneSignals, SourceOver
    <3> QED
      BY <3>1, <3>2
  <2>2. \A r : ProperReceipt(r)' <=> ProperReceipt(r)
    BY DEF ProperReceipt, Proper
  <2>3. ASSUME NEW n \in {"signal", "signal_pending"}, Exists(n)'
        PROVE  Exists(n) /\ files'[n] = files[n]
    BY <2>3 DEF Exists, FileNames
  <2>4. /\ \A n \in {"signal", "signal_pending"} : Exists(n)' => ProperReceipt(files'[n].receipt)
        /\ Exists("signal")' => Reach(child[Self]) = "signalled"
        /\ call.signal # Absent => /\ ProperReceipt(call.signal.receipt)
                                   /\ Reach(child[Self]) = "signalled"
    BY <2>3 DEF AloneSignals
  <2> QED
    BY <2>1, <2>2, <2>4 DEF AloneSignals
<1>15. AloneResuming'
  <2> SUFFICES ASSUME Apart PROVE AloneResuming'
    BY DEF AloneResuming, Apart
  <2>1. worker[Self].pc \notin {"hashed", "loaded"}
    OBVIOUS
  <2>2. call'.role = "source" => ~Exists("resume_result")'
    BY DEF AloneResuming, Exists, FileNames
  <2>3. Exists("resume_result")' /\ files'["resume_result"].ok =>
            call'.receipt.model.deviants \subseteq files'["resume_result"].model.deviants
    BY DEF AloneResuming, Exists, FileNames
  <2>4. call'.role = "control" => call'.receipt.model.deviants \subseteq call'.resumed.deviants
    <3>1. CASE call.role = "resume"
      <4>1. name = "resume_result"
        BY <3>1 DEF ResultOf
      <4>2. call.receipt.model.deviants \subseteq files[name].model.deviants
        BY <1>1, <4>1 DEF AloneResuming
      <4>3. call'.receipt = call.receipt /\ call'.resumed = files[name].model
        BY <1>4, <3>1
      <4> QED
        BY <4>2, <4>3
    <3>2. CASE call.role = "control"
      <4>1. call'.receipt = call.receipt /\ call'.resumed = call.resumed
        BY <1>4, <3>2
      <4> QED
        BY <1>1, <3>2, <4>1 DEF AloneResuming
    <3>3. CASE call.role = "source"
      BY <1>4, <3>3
    <3> QED
      BY <1>2, <3>1, <3>2, <3>3 DEF Roles
  <2> QED
    BY <2>1, <2>2, <2>3, <2>4 DEF AloneResuming
<1> QED
  BY <1>6, <1>8, <1>9, <1>10, <1>11, <1>12, <1>13, <1>14, <1>15 DEF IInv

LEMMA SpawnKeeps ==
    ASSUME IInv, call # Idle, call.pc = "spawn", Goes("waiting"),
           child' = [child EXCEPT ![Self] =
                        [pc |-> "training", fixture |-> call.fixture, model |-> Fresh(call.fixture),
                         receipt |-> Absent, asked |-> FALSE, killed |-> FALSE]],
           UNCHANGED <<files, worker, ended>>
    PROVE  IInv'
<1> DEFINE new == [pc |-> "training", fixture |-> call.fixture, model |-> Fresh(call.fixture),
                   receipt |-> Absent, asked |-> FALSE, killed |-> FALSE]
<1>1. /\ Shapes /\ Ordered /\ LeftBehind /\ ParentAt /\ ChildAt /\ WorkerAt
      /\ SignalsAnnounced /\ Interrupted /\ ResultsNamed /\ AnswersNamed
      /\ AloneWriting /\ AloneSaving /\ AloneSignals /\ AloneResuming /\ RecoveryExact
  BY DEF IInv
<1>2. call \in CallRecords /\ Self \in Calls /\ call.fixture \in Fixtures
  BY <1>1, SelfIsCall DEF Shapes, CallRecords
<1>3. /\ GoesOn /\ call'.pc = "waiting" /\ call'.failed = call.failed
      /\ call'.role = call.role /\ call'.receipt = call.receipt /\ call'.signal = call.signal
  BY <1>2 DEF Goes, GoesOn, CallRecords, SourcePcs
<1>4. Self' = Self /\ call' # Idle /\ child[Self].pc = "none" /\ ended[Self] = NotEnded
  BY <1>1, <1>2, <1>3 DEF GoesOn, Self, CallRecords, Idle, Calls, ChildAt, Ordered
<1>5. /\ new \in LivingChild /\ new.pc = "training" /\ ChildShape(new)
      /\ Alive(new) /\ Reach(new) = "training" /\ new.fixture = call.fixture
  <2>1. Fresh(call.fixture) \in SourceModel /\ Fresh(call.fixture).fixture = call.fixture
    BY <1>2, FreshModel DEF SourceModel
  <2>2. new \in LivingChild
    BY <1>2, <2>1 DEF LivingChild, Living, Receipts
  <2> QED
    BY <2>1, <2>2 DEF ChildShape, Received, Alive, Reach
<1>6. /\ child' \in [Calls -> {NotStarted} \cup LivingChild \cup DeadChild]
      /\ child'[Self] = new /\ \A b \in Calls : b # Self => child'[b] = child[b]
  BY <1>1, <1>2, <1>5 DEF Shapes, ChildShapes
<1> HIDE DEF new
<1> USE <1>1, <1>2, <1>3, <1>4
<1>7. \A b : Announced(b) => b # Self /\ Announced(b)'
  BY <1>6 DEF Announced, Reach
<1>8. Shapes'
  <2>1. ChildShapes'
    BY <1>5, <1>6 DEF Shapes, ChildShapes
  <2> QED
    BY <2>1 DEF Shapes, FilesShape, WorkerShapes, CallShape, EndedShape, GoesOn
<1>9. Ordered'
  BY <1>6 DEF Ordered
<1>10. LeftBehind'
  BY <1>6 DEF LeftBehind, Completed, NotEnded
<1>11. ParentAt'
  BY DEF ParentAt, GoesOn, SourcePcs, StagePcs
<1>12. ChildAt'
  BY <1>5, <1>6 DEF ChildAt, StagePcs, GoesOn
<1>13. WorkerAt'
  BY DEF WorkerAt
<1>14. SignalsAnnounced'
  BY <1>7 DEF SignalsAnnounced, Exists
<1>15. Interrupted'
  BY DEF Interrupted, SourceOver
<1>16. ResultsNamed'
  BY DEF ResultsNamed, GoesOn
<1>17. AnswersNamed'
  BY DEF AnswersNamed, AnsweredBefore, GoesOn
<1>18. AloneWriting'
  BY <1>6 DEF AloneWriting, Apart, GoesOn
<1>19. AloneSaving'
  BY <1>5, <1>6 DEF AloneSaving, Apart, GoesOn, Received, Exists, Proper, ProperReceipt
<1>20. AloneSignals'
  BY DEF AloneSignals, Apart, GoesOn, SourceOver, Exists, Proper, ProperReceipt, Reach
<1>21. AloneResuming'
  BY DEF AloneResuming, Apart, GoesOn, Exists
<1>22. RecoveryExact'
  BY <1>6 DEF RecoveryExact, Completed, NotEnded
<1> QED
  BY <1>8, <1>9, <1>10, <1>11, <1>12, <1>13, <1>14, <1>15, <1>16, <1>17, <1>18, <1>19, <1>20,
     <1>21, <1>22 DEF IInv

LEMMA BeginStageKeeps ==
    ASSUME IInv, call # Idle, call.pc = "stage",
           call' = [call EXCEPT !.pc = "working", !.late = FALSE],
           worker' = [worker EXCEPT ![Self] =
                         [pc |-> "running", role |-> call.role, fixture |-> call.fixture,
                          model |-> Fresh(call.fixture), expected |-> call.receipt, ok |-> FALSE]],
           UNCHANGED <<files, child, ended>>
    PROVE  IInv'
<1> DEFINE new == [pc |-> "running", role |-> call.role, fixture |-> call.fixture,
                   model |-> Fresh(call.fixture), expected |-> call.receipt, ok |-> FALSE]
<1>1. /\ Shapes /\ Ordered /\ LeftBehind /\ ParentAt /\ ChildAt /\ WorkerAt
      /\ SignalsAnnounced /\ Interrupted /\ ResultsNamed /\ AnswersNamed
      /\ AloneWriting /\ AloneSaving /\ AloneSignals /\ AloneResuming /\ RecoveryExact
  BY DEF IInv
<1>2. /\ call \in CallRecords /\ Self \in Calls
      /\ call.fixture \in Fixtures /\ call.role \in Roles /\ call.receipt \in Receipts
  BY <1>1, SelfIsCall DEF Shapes, CallRecords
<1>3. /\ GoesOn /\ call'.pc = "working" /\ call'.failed = call.failed
      /\ call'.role = call.role /\ call'.receipt = call.receipt /\ call'.signal = call.signal
  BY <1>2 DEF GoesOn, CallRecords, StagePcs
<1>4. Self' = Self /\ call' # Idle /\ ended[Self] = NotEnded
  BY <1>1, <1>2, <1>3 DEF GoesOn, Self, CallRecords, Idle, Calls, Ordered
<1>5. /\ new \in LivingWorker /\ new.pc = "running" /\ WorkerShape(new)
      /\ new.fixture = call.fixture /\ new.role = call.role /\ new.expected = call.receipt
  <2>1. Fresh(call.fixture) \in SourceModel /\ Fresh(call.fixture).fixture = call.fixture
    BY <1>2, FreshModel DEF SourceModel
  <2>2. new \in LivingWorker
    BY <1>2, <2>1 DEF LivingWorker, Working
  <2> QED
    BY <2>1, <2>2 DEF WorkerShape
<1>6. /\ worker' \in [Calls -> {NotStarted} \cup LivingWorker \cup DoneWorker \cup DeadWorker]
      /\ worker'[Self] = new /\ \A b \in Calls : b # Self => worker'[b] = worker[b]
  BY <1>1, <1>2, <1>5 DEF Shapes, WorkerShapes
<1> HIDE DEF new
<1> USE <1>1, <1>2, <1>3, <1>4
<1>8. Shapes'
  <2>1. WorkerShapes'
    BY <1>5, <1>6 DEF Shapes, WorkerShapes
  <2> QED
    BY <2>1 DEF Shapes, FilesShape, ChildShapes, CallShape, EndedShape, GoesOn
<1>9. Ordered'
  BY <1>6 DEF Ordered
<1>10. LeftBehind'
  BY <1>6 DEF LeftBehind, Completed, NotEnded
<1>11. ParentAt'
  BY DEF ParentAt, GoesOn, SourcePcs, StagePcs
<1>12. ChildAt'
  BY DEF ChildAt, StagePcs, GoesOn
<1>13. WorkerAt'
  BY <1>5, <1>6 DEF WorkerAt, GoesOn
<1>14. SignalsAnnounced'
  BY DEF SignalsAnnounced, Exists, Announced
<1>15. Interrupted'
  BY DEF Interrupted, SourceOver, GoesOn, Announced
<1>16. ResultsNamed'
  <2>1. \A role \in Roles : files[ResultOf[role]] # Absent => files[ResultOf[role]].by \in Calls
    BY DEF Shapes, FilesShape, Results, Roles, ResultOf
  <2> QED
    BY <1>6, <2>1 DEF ResultsNamed, GoesOn
<1>17. AnswersNamed'
  BY <1>6 DEF AnswersNamed, AnsweredBefore, GoesOn
<1>18. AloneWriting'
  BY <1>6 DEF AloneWriting, Apart, GoesOn
<1>19. AloneSaving'
  BY DEF AloneSaving, Apart, GoesOn, Exists, Proper, ProperReceipt
<1>20. AloneSignals'
  BY DEF AloneSignals, Apart, GoesOn, SourceOver, Exists, Proper, ProperReceipt
<1>21. AloneResuming'
  BY <1>5, <1>6 DEF AloneResuming, Apart, GoesOn, Exists
<1>22. RecoveryExact'
  BY DEF RecoveryExact, Completed
<1> QED
  BY <1>8, <1>9, <1>10, <1>11, <1>12, <1>13, <1>14, <1>15, <1>16, <1>17, <1>18, <1>19, <1>20,
     <1>21, <1>22 DEF IInv

\* What a call that completes has in hand is exact.
LEMMA CompletesExactly ==
    ASSUME IInv, call # Idle, call.pc = "compare", Equivalent
    PROVE  /\ call.control = call.resumed /\ call.resumed.deviants = {}
           /\ call.resumed.steps = RequestedSteps[call.fixture]
           /\ CheckpointStep[call.resumed.fixture] = CheckpointStep[call.fixture]
           /\ call.resumed.fixture # call.fixture =>
                 \E a, b \in Calls : /\ a # b /\ a < Self /\ b < Self
                                     /\ ended[a].how = "crashed" /\ ended[b].how = "crashed"
           /\ call.kind = "interruption" =>
                 /\ child[Self].pc = "dead" /\ child[Self].asked
                 /\ child[Self].reached \in {"announcing", "signalled"}
                 /\ call.alone => child[Self].reached = "signalled"
           /\ call.alone =>
                 /\ call.resumed.fixture = call.fixture
                 /\ call.receipt.by = Self
                 /\ call.receipt.model = [fixture |-> call.fixture, deviants |-> {},
                                          steps |-> CheckpointStep[call.fixture]]
<1>1. /\ Shapes /\ Ordered /\ ParentAt /\ Interrupted /\ AnswersNamed
      /\ AloneSignals /\ AloneResuming
  BY DEF IInv
<1>2. /\ call \in CallRecords /\ Self \in Calls /\ SourceOver /\ call.role = "control"
      /\ call.resumed \in ResumedModel /\ call.control \in ControlModel
  BY <1>1, SelfIsCall DEF Shapes, CallRecords, SourceOver, ParentAt
<1>3. /\ call.control = call.resumed /\ call.resumed.steps = RequestedSteps[call.fixture]
      /\ CheckpointStep[call.resumed.fixture] = CheckpointStep[call.fixture]
  <2>1. call.control = call.resumed /\ call.resumed.steps = RequestedSteps[call.fixture]
    BY DEF Equivalent
  <2>2. call.resumed.steps - CheckpointStep[call.resumed.fixture]
           = RequestedSteps[call.fixture] - CheckpointStep[call.fixture]
    BY DEF Equivalent, Segment
  <2>3. call.fixture \in Fixtures /\ call.resumed.fixture \in Fixtures
    BY <1>2 DEF CallRecords, ResumedModel, Models
  <2> HIDE DEF Equivalent
  <2> QED
    BY <2>1, <2>2, <2>3, InterruptionAssumption
<1>4. call.resumed.deviants = {}
  <2>1. call.resumed.deviants \in SUBSET (Calls \X {"source", "resume"})
    BY <1>2 DEF ResumedModel, Models, By
  <2>2. call.resumed.deviants \in SUBSET (Calls \X {"control"})
    BY <1>2, <1>3 DEF ControlModel, Models, By
  <2>3. ASSUME NEW d \in call.resumed.deviants PROVE FALSE
    <3>1. d \in Calls \X {"source", "resume"} /\ d \in Calls \X {"control"}
      BY <2>1, <2>2
    <3> QED
      BY <3>1
  <2> QED
    BY <2>3
<1>5. \A a \in Calls : a # Self /\ ended[a].how = "crashed" => a < Self
  <2> SUFFICES ASSUME NEW a \in Calls, a # Self, ended[a].how = "crashed", Self < a PROVE FALSE
    BY <1>2 DEF Calls
  <2>1. ended[a] # NotEnded /\ ended[Self] = NotEnded
    BY <1>1, <1>2 DEF Ordered, NotEnded
  <2> QED
    BY <1>1, <1>2, <2>1 DEF Ordered
<1>6. ASSUME call.resumed.fixture # call.fixture
      PROVE  \E a, b \in Calls : /\ a # b /\ a < Self /\ b < Self
                                 /\ ended[a].how = "crashed" /\ ended[b].how = "crashed"
  <2>1. AnsweredBefore("resume") /\ AnsweredBefore("control")
    BY <1>1, <1>3, <1>6 DEF AnswersNamed
  <2>2. PICK a \in Calls : a # Self /\ ended[a].how = "crashed" /\ worker[a].role = "resume"
    BY <2>1 DEF AnsweredBefore
  <2>3. PICK b \in Calls : b # Self /\ ended[b].how = "crashed" /\ worker[b].role = "control"
    BY <2>1 DEF AnsweredBefore
  <2> QED
    BY <1>5, <2>2, <2>3
<1>7. ASSUME call.kind = "interruption"
      PROVE  /\ child[Self].pc = "dead" /\ child[Self].asked
             /\ child[Self].reached \in {"announcing", "signalled"}
             /\ call.alone => child[Self].reached = "signalled"
  BY <1>1, <1>2, <1>7 DEF Interrupted, Announced, Reach
<1>8. ASSUME call.alone
      PROVE  /\ call.resumed.fixture = call.fixture
             /\ call.receipt.by = Self
             /\ call.receipt.model = [fixture |-> call.fixture, deviants |-> {},
                                      steps |-> CheckpointStep[call.fixture]]
  <2>1. ProperReceipt(call.receipt) /\ call.receipt.model.deviants \subseteq call.resumed.deviants
    BY <1>1, <1>2, <1>8 DEF AloneSignals, AloneResuming, Apart
  <2>2. call.receipt \in Contents
    BY <1>2, <2>1 DEF CallRecords, Receipts, ProperReceipt, Absent, Calls
  <2>3. call.receipt.model \in Models({"source"}) /\ call.receipt.model.deviants = {}
    BY <1>4, <2>1, <2>2 DEF Contents, SourceModel
  <2> QED
    BY <1>1, <1>8, <2>1, <2>3 DEF AnswersNamed, ProperReceipt, Proper, Models
<1> QED
  BY <1>3, <1>4, <1>6, <1>7, <1>8

\* However a call ends, the next one finds what it may count on.
LEMMA EndsKeeps ==
    ASSUME IInv, call # Idle, NEW how \in {"failed", "crashed", "completed"}, Ends(how),
           UNCHANGED <<child, worker>>, FilesShape',
           \A n \in {"signal", "signal_pending"} : files'[n] \in {files[n], Absent},
           how # "crashed" => ~Alive(worker[Self]),
           how # "crashed" /\ Alive(child[Self]) => child[Self].killed /\ how # "completed",
           how = "completed" => call.pc = "compare" /\ Equivalent
    PROVE  IInv'
<1>1. /\ Shapes /\ Ordered /\ LeftBehind /\ SignalsAnnounced /\ RecoveryExact
  BY DEF IInv
<1>2. /\ call \in CallRecords /\ Self \in Calls /\ ended[Self] = NotEnded
  BY <1>1, SelfIsCall DEF Shapes, Ordered
<1>3. /\ call' = Idle /\ Self' = 0 /\ Self' \notin Calls
  BY DEF Ends, Idle, Self, Calls
<1>4. /\ DOMAIN ended' = Calls /\ \A b \in Calls : b # Self => ended'[b] = ended[b]
      /\ how # "completed" => ended'[Self] = [how |-> how]
      /\ how = "completed" =>
            ended'[Self] = [how |-> how, kind |-> call.kind, fixture |-> call.fixture,
                            alone |-> call.alone, receipt |-> call.receipt,
                            resumed |-> call.resumed, control |-> call.control]
  BY <1>1, <1>2 DEF Ends, Shapes, EndedShape, Self
<1>5. ended'[Self].how = how
  BY <1>4
<1>6. ended'[Self] # NotEnded
  BY <1>5 DEF NotEnded
<1> USE <1>1, <1>2, <1>3
<1>7. Shapes'
  BY <1>4, <1>5 DEF Shapes, ChildShapes, WorkerShapes, CallShape, EndedShape
<1>8. Ordered'
  BY <1>4, <1>6 DEF Ordered
<1>9. LeftBehind'
  BY <1>4, <1>5 DEF LeftBehind, Completed
<1>10. SignalsAnnounced'
  BY DEF SignalsAnnounced, Exists, Announced
<1>11. RecoveryExact'
  <2> SUFFICES ASSUME NEW c \in Calls, Completed(c)'
               PROVE  LET e == ended'[c]
                          died(b) == b < c /\ ended'[b].how = "crashed"
                      IN  /\ e.control = e.resumed /\ e.resumed.deviants = {}
                          /\ e.resumed.steps = RequestedSteps[e.fixture]
                          /\ CheckpointStep[e.resumed.fixture] = CheckpointStep[e.fixture]
                          /\ e.resumed.fixture # e.fixture =>
                                \E a, b \in Calls : a # b /\ died(a) /\ died(b)
                          /\ e.kind = "interruption" =>
                                /\ child'[c].pc = "dead" /\ child'[c].asked
                                /\ child'[c].reached \in {"announcing", "signalled"}
                                /\ e.alone => child'[c].reached = "signalled"
                          /\ e.alone =>
                                /\ e.resumed.fixture = e.fixture
                                /\ e.receipt.by = c
                                /\ e.receipt.model = [fixture |-> e.fixture, deviants |-> {},
                                                      steps |-> CheckpointStep[e.fixture]]
    BY DEF RecoveryExact
  <2>1. \A b \in Calls : ended[b].how = "crashed" => ended'[b] = ended[b]
    BY <1>4 DEF NotEnded
  <2>2. CASE c # Self
    BY <1>4, <2>1, <2>2 DEF RecoveryExact, Completed
  <2>3. CASE c = Self
    <3>1. how = "completed"
      BY <1>5, <2>3 DEF Completed
    <3>2. /\ ended'[c].control = call.control /\ ended'[c].resumed = call.resumed
          /\ ended'[c].fixture = call.fixture /\ ended'[c].kind = call.kind
          /\ ended'[c].alone = call.alone /\ ended'[c].receipt = call.receipt
      BY <1>4, <2>3, <3>1
    <3> QED
      BY <2>1, <2>3, <3>1, <3>2, CompletesExactly
  <2> QED
    BY <2>2, <2>3
<1>12. /\ ParentAt' /\ ChildAt' /\ WorkerAt' /\ Interrupted' /\ ResultsNamed' /\ AnswersNamed'
       /\ AloneWriting' /\ AloneSaving' /\ AloneSignals' /\ AloneResuming'
  BY DEF ParentAt, ChildAt, WorkerAt, Interrupted, ResultsNamed, AnswersNamed, AloneWriting,
         AloneSaving, AloneSignals, AloneResuming, Apart
<1> QED
  BY <1>7, <1>8, <1>9, <1>10, <1>11, <1>12 DEF IInv

LEMMA BeginKeeps ==
    ASSUME IInv, call = Idle, files = EmptyDirectory, NEW c \in Calls,
           NEW kind \in {"recovery", "interruption"}, NEW fixture \in Fixtures,
           ended[c] = NotEnded, \A b \in 1 .. c - 1 : ended[b] # NotEnded,
           call' = [id |-> c, kind |-> kind, fixture |-> fixture,
                    pc |-> IF kind = "recovery" THEN "stage" ELSE "request",
                    role |-> "source", late |-> FALSE, failed |-> FALSE,
                    alone |-> \A b \in Calls : ~Alive(child[b]) /\ ~Alive(worker[b]),
                    signal |-> Absent, receipt |-> Absent,
                    resumed |-> Fresh(fixture), control |-> Fresh(fixture)],
           UNCHANGED <<files, child, worker, ended>>
    PROVE  IInv'
<1>1. Shapes /\ Ordered /\ LeftBehind /\ RecoveryExact
  BY DEF IInv
<1>2. Self = 0 /\ Self' = c /\ c # 0
  BY DEF Self, Idle, Calls
<1>3. child[c] = NotStarted /\ worker[c] = NotStarted
  BY <1>1, <1>2 DEF Ordered
<1>4. /\ \A n \in FileNames : files[n] = Absent
      /\ \A n \in FileNames : ~Exists(n)
  BY DEF EmptyDirectory, Exists
<1>5. /\ Fresh(fixture) \in ResumedModel /\ Fresh(fixture) \in ControlModel
      /\ Fresh(fixture).fixture = fixture
  BY FreshModel DEF ResumedModel, ControlModel
<1>6. call' \in CallRecords
  BY <1>5 DEF CallRecords, StagePcs, SourcePcs, Roles, Receipts
<1>7. /\ call'.kind = kind /\ call'.pc = IF kind = "recovery" THEN "stage" ELSE "request"
      /\ call'.role = "source" /\ call'.fixture = fixture /\ call'.signal = Absent
      /\ call'.resumed = Fresh(fixture) /\ call'.control = Fresh(fixture)
      /\ call'.alone = (\A b \in Calls : ~Alive(child[b]) /\ ~Alive(worker[b]))
  OBVIOUS
<1> USE <1>1, <1>2, <1>3, <1>4, <1>6, <1>7
<1>8. Shapes'
  BY DEF Shapes, FilesShape, ChildShapes, WorkerShapes, CallShape, EndedShape
<1>9. Ordered'
  BY DEF Ordered, Calls
<1>10. LeftBehind' /\ RecoveryExact'
  BY DEF LeftBehind, RecoveryExact, Completed
<1>11. ParentAt'
  BY DEF ParentAt, StagePcs, SourcePcs, NotStarted
<1>12. ChildAt' /\ WorkerAt'
  BY DEF ChildAt, WorkerAt, NotStarted, Alive
<1>13. SignalsAnnounced'
  BY DEF SignalsAnnounced, Exists, FileNames
<1>14. Interrupted' /\ ~SourceOver'
  BY DEF Interrupted, SourceOver
<1>15. ResultsNamed'
  BY DEF ResultsNamed, Roles, ResultOf, FileNames
<1>16. AnswersNamed'
  BY <1>5 DEF AnswersNamed
<1>17. AloneWriting'
  BY DEF AloneWriting, Apart, Absent
<1>18. AloneSaving' /\ AloneSignals' /\ AloneResuming'
  BY <1>14 DEF AloneSaving, AloneSignals, AloneResuming, Exists, FileNames, NotStarted, Received
<1> QED
  BY <1>8, <1>9, <1>10, <1>11, <1>12, <1>13, <1>14, <1>15, <1>16, <1>17, <1>18 DEF IInv

LEMMA RefuseKeeps ==
    ASSUME IInv, call = Idle, NEW c \in Calls,
           ended[c] = NotEnded, \A b \in 1 .. c - 1 : ended[b] # NotEnded,
           ended' = [ended EXCEPT ![c] = [how |-> "refused"]],
           UNCHANGED <<call, files, child, worker>>
    PROVE  IInv'
<1>1. Shapes /\ Ordered /\ LeftBehind /\ SignalsAnnounced /\ RecoveryExact
  BY DEF IInv
<1>2. Self = 0 /\ Self' = 0 /\ 0 \notin Calls
  BY DEF Self, Idle, Calls
<1>3. child[c] = NotStarted /\ worker[c] = NotStarted
  BY <1>1, <1>2 DEF Ordered
<1>4. /\ DOMAIN ended' = Calls /\ ended'[c].how = "refused" /\ ended'[c] # NotEnded
      /\ \A b \in Calls : b # c => ended'[b] = ended[b]
  BY <1>1 DEF Shapes, EndedShape, NotEnded
<1> USE <1>1, <1>2, <1>3, <1>4
<1>5. Shapes'
  BY DEF Shapes, FilesShape, ChildShapes, WorkerShapes, CallShape, EndedShape
<1>6. Ordered'
  BY DEF Ordered, Calls
<1>7. LeftBehind'
  BY DEF LeftBehind, Completed, NotStarted, Alive
<1>8. SignalsAnnounced'
  BY DEF SignalsAnnounced, Exists, Announced
<1>9. RecoveryExact'
  BY DEF RecoveryExact, Completed, NotEnded
<1>10. /\ ParentAt' /\ ChildAt' /\ WorkerAt' /\ Interrupted' /\ ResultsNamed' /\ AnswersNamed'
       /\ AloneWriting' /\ AloneSaving' /\ AloneSignals' /\ AloneResuming'
  BY DEF ParentAt, ChildAt, WorkerAt, Interrupted, ResultsNamed, AnswersNamed, AloneWriting,
         AloneSaving, AloneSignals, AloneResuming, Apart
<1> QED
  BY <1>5, <1>6, <1>7, <1>8, <1>9, <1>10 DEF IInv

LEMMA EmptyKeeps ==
    ASSUME IInv, EmptyTheDirectory
    PROVE  IInv'
<1>1. /\ call' = Idle /\ files' = EmptyDirectory /\ UNCHANGED <<call, child, worker, ended>>
      /\ Self' = Self
  BY DEF EmptyTheDirectory, Self
<1>2. Shapes /\ Ordered /\ LeftBehind /\ RecoveryExact
  BY DEF IInv
<1>3. FilesShape' /\ \A n \in FileNames : ~Exists(n)'
  BY <1>1 DEF FilesShape, EmptyDirectory, Exists, FileNames, Receipts, Absent
<1> USE <1>1, <1>2, <1>3
<1>4. Shapes'
  BY DEF Shapes, ChildShapes, WorkerShapes, CallShape, EndedShape
<1>5. Ordered' /\ LeftBehind' /\ RecoveryExact'
  BY DEF Ordered, LeftBehind, RecoveryExact, Completed
<1>6. SignalsAnnounced'
  BY DEF SignalsAnnounced, FileNames
<1>7. /\ ParentAt' /\ ChildAt' /\ WorkerAt' /\ Interrupted' /\ ResultsNamed' /\ AnswersNamed'
      /\ AloneWriting' /\ AloneSaving' /\ AloneSignals' /\ AloneResuming'
  BY DEF ParentAt, ChildAt, WorkerAt, Interrupted, ResultsNamed, AnswersNamed, AloneWriting,
         AloneSaving, AloneSignals, AloneResuming, Apart
<1> QED
  BY <1>4, <1>5, <1>6, <1>7 DEF IInv

LEMMA ParentKeeps == IInv /\ Parent => IInv'
<1> SUFFICES ASSUME IInv, Parent PROVE IInv'
  OBVIOUS
<1>1. /\ Shapes /\ ParentAt /\ ChildAt /\ WorkerAt /\ Interrupted /\ call # Idle
      /\ call \in CallRecords /\ Self \in Calls
  BY SelfIsCall DEF IInv, Parent, Shapes
<1>2. FilesShape /\ (UNCHANGED files => FilesShape')
  BY <1>1 DEF Shapes, FilesShape
<1>3. UNCHANGED child => Marked
  BY <1>1, Unmarked
<1>4. ASSUME NEW name \in {"signal", "source_result", "resume_result", "control_result"}, Unlink(name)
      PROVE  FilesShape' /\ \A n \in {"signal", "signal_pending"} : files'[n] \in {files[n], Absent}
  <2>1. files' = files \/ files' = [files EXCEPT ![name] = Absent]
    BY <1>4 DEF Unlink, Put
  <2>2. CASE files' = [files EXCEPT ![name] = Absent]
    BY <1>2, <2>2 DEF FilesShape, FileNames, Absent
  <2> QED
    BY <1>2, <2>1, <2>2
<1>5. CASE WriteRequest
  BY <1>1, <1>2, <1>5, RequestWrittenKeeps, EndsKeeps DEF WriteRequest, ChildAt, WorkerAt, Alive
<1>6. CASE Spawn
  BY <1>1, <1>6, SpawnKeeps, NotSpawnedKeeps DEF Spawn
<1>7. CASE PollSignal
  <2>1. CASE call' = Failing
    BY <1>1, <1>3, <1>7, <2>1, FailingKeeps DEF PollSignal
  <2> QED
    BY <1>1, <1>7, <2>1, PollKeeps DEF PollSignal
<1>8. CASE IdentifySignal
  <2>1. CASE Identified
    BY <1>1, <1>8, <2>1, IdentifyKeeps DEF IdentifySignal, Passes
  <2>2. CASE ~Identified
    BY <1>1, <1>3, <1>8, <2>2, FailingKeeps DEF IdentifySignal, Passes
  <2> QED
    BY <2>1, <2>2
<1>9. CASE VerifyCheckpoint
  <2>1. CASE call' = Failing
    BY <1>1, <1>3, <1>9, <2>1, FailingKeeps DEF VerifyCheckpoint
  <2>2. CASE call' = [call EXCEPT !.pc = "terminate"]
    BY <1>1, <1>9, <2>2, VerifyKeeps DEF VerifyCheckpoint
  <2> QED
    BY <1>9, <2>1, <2>2 DEF VerifyCheckpoint, Passes
<1>10. CASE Terminate
  <2>1. CASE Alive(child[Self])
    BY <1>1, <1>10, <2>1, TerminateKeeps DEF Terminate, Passes
  <2>2. CASE ~Alive(child[Self])
    <3>1. child' = [child EXCEPT ![Self].asked = FALSE] /\ call' = Failing
      <4>1. Alive(child[Self]) = FALSE
        BY <2>2 DEF Alive
      <4> QED
        BY <1>10, <4>1 DEF Terminate, Passes
    <3>2. Marked
      BY <1>1, <3>1, MarkedAs
    <3> QED
      BY <1>1, <1>10, <3>1, <3>2, FailingKeeps DEF Terminate
  <2> QED
    BY <2>1, <2>2
<1>11. CASE AwaitExit
  <2>1. CASE call' = Failing
    BY <1>1, <1>3, <1>11, <2>1, FailingKeeps DEF AwaitExit
  <2> QED
    BY <1>1, <1>11, <2>1, ExitSeenKeeps DEF AwaitExit
<1>12. CASE CleanUpChild
  BY <1>1, <1>12, CleanUpKeeps
<1>13. CASE ReapChild
  BY <1>1, <1>13, ReapKeeps
<1>14. CASE LeaveChild
  BY <1>1, <1>14, LeaveChildKeeps
<1>15. CASE UnlinkSignal
  <2>1. CASE call.failed
    <3>1. Ends("failed") /\ Unlink("signal") /\ UNCHANGED <<child, worker>> /\ call.pc = "unlink"
      BY <1>15, <2>1 DEF UnlinkSignal
    <3>2. ~Alive(worker[Self]) /\ (Alive(child[Self]) => child[Self].killed)
      BY <1>1, <3>1 DEF WorkerAt, ChildAt
    <3> QED
      BY <1>1, <1>4, <3>1, <3>2, EndsKeeps
  <2>2. CASE ~call.failed
    BY <1>1, <1>15, <2>2, UnlinkKeeps DEF UnlinkSignal
  <2> QED
    BY <2>1, <2>2
<1>16. CASE RecheckCheckpoint
  <2>1. CASE SameContent(files["checkpoint"], call.receipt)
    BY <1>1, <1>16, <2>1, RecheckKeeps DEF RecheckCheckpoint
  <2>2. CASE ~SameContent(files["checkpoint"], call.receipt)
    <3>1. /\ Ends("failed") /\ UNCHANGED <<files, child, worker>> /\ call.pc = "recheck"
      BY <1>16, <2>2 DEF RecheckCheckpoint
    <3>2. ~Alive(worker[Self]) /\ ~Alive(child[Self])
      BY <1>1, <3>1 DEF WorkerAt, ChildAt
    <3> QED
      BY <1>1, <1>2, <3>1, <3>2, EndsKeeps
  <2> QED
    BY <2>1, <2>2
<1>17. CASE BeginStage
  <2>1. CASE Ends("failed") /\ UNCHANGED worker
    <3>1. /\ UNCHANGED <<files, child, worker>> /\ call.pc = "stage"
      BY <1>17, <2>1 DEF BeginStage
    <3>2. ~Alive(worker[Self]) /\ ~Alive(child[Self])
      BY <1>1, <3>1 DEF WorkerAt, ChildAt, StagePcs
    <3> QED
      BY <1>1, <1>2, <2>1, <3>1, <3>2, EndsKeeps
  <2> QED
    BY <1>1, <1>17, <2>1, BeginStageKeeps DEF BeginStage
<1>18. CASE KillWorker
  BY <1>1, <1>18, KillWorkerKeeps
<1>19. CASE EndStage
  <2> DEFINE name == ResultOf[call.role]
  <2>1. name \in {"signal", "source_result", "resume_result", "control_result"}
    BY <1>1 DEF ResultOf, CallRecords, Roles
  <2>2. /\ Unlink(name) /\ UNCHANGED <<child, worker>> /\ ~Alive(worker[Self])
        /\ call.pc \in {"working", "killing"}
    BY <1>19 DEF EndStage
  <2>3. CASE Ends("failed")
    <3>1. ~Alive(child[Self])
      BY <1>1, <2>2 DEF ChildAt, StagePcs
    <3>2. FilesShape' /\ \A n \in {"signal", "signal_pending"} : files'[n] \in {files[n], Absent}
      BY <1>4, <2>1, <2>2
    <3> QED
      BY <1>1, <2>2, <2>3, <3>1, <3>2, EndsKeeps
  <2>4. CASE ~Ends("failed")
    <3>1. /\ call.pc = "working" /\ worker[Self].pc = "done"
          /\ Exists(name) /\ files[name].ok
          /\ call' = [call EXCEPT
               !.pc = Next3[call.role],
               !.role = IF call.role = "resume" THEN "control" ELSE @,
               !.receipt = IF call.role = "source" THEN files[name].receipt ELSE @,
               !.resumed = IF call.role = "resume" THEN files[name].model ELSE @,
               !.control = IF call.role = "control" THEN files[name].model ELSE @]
          /\ UNCHANGED ended
      BY <1>19, <2>4 DEF EndStage
    <3> HIDE DEF name
    <3> QED
      BY <1>1, <2>2, <3>1, EndStageKeeps DEF name
  <2> QED
    BY <2>3, <2>4
<1>20. CASE Compare
  <2>1. /\ ~Alive(worker[Self]) /\ ~Alive(child[Self])
        /\ UNCHANGED <<files, child, worker>> /\ call.pc = "compare"
    BY <1>1, <1>20 DEF Compare, WorkerAt, ChildAt, StagePcs
  <2>2. CASE Equivalent /\ Ends("completed")
    BY <1>1, <1>2, <2>1, <2>2, EndsKeeps
  <2>3. CASE Ends("failed")
    BY <1>1, <1>2, <2>1, <2>3, EndsKeeps
  <2> QED
    BY <1>20, <2>2, <2>3 DEF Compare
<1> QED
  BY <1>5, <1>6, <1>7, <1>8, <1>9, <1>10, <1>11, <1>12, <1>13, <1>14, <1>15, <1>16, <1>17, <1>18,
     <1>19, <1>20 DEF Parent

LEMMA IInvInit == Init => IInv
<1> SUFFICES ASSUME Init PROVE IInv
  OBVIOUS
<1>1. /\ Self = 0 /\ 0 \notin Calls /\ call = Idle
      /\ \A c \in Calls : child[c] = NotStarted /\ worker[c] = NotStarted /\ ended[c] = NotEnded
      /\ \A n \in FileNames : ~Exists(n)
  BY DEF Init, Self, Idle, Calls, Exists, EmptyDirectory
<1>2. FilesShape
  BY DEF Init, FilesShape, EmptyDirectory, FileNames, Receipts, Absent
<1>3. ChildShape(NotStarted) /\ WorkerShape(NotStarted)
  BY DEF ChildShape, WorkerShape, NotStarted, Living, Received, Working
<1>4. Shapes
  BY <1>1, <1>2, <1>3 DEF Shapes, ChildShapes, WorkerShapes, CallShape, EndedShape, Init
<1>5. Ordered /\ LeftBehind /\ RecoveryExact
  BY <1>1 DEF Ordered, LeftBehind, RecoveryExact, Completed, NotEnded
<1>6. SignalsAnnounced
  BY <1>1 DEF SignalsAnnounced, FileNames
<1>7. /\ ParentAt /\ ChildAt /\ WorkerAt /\ Interrupted /\ ResultsNamed /\ AnswersNamed
      /\ AloneWriting /\ AloneSaving /\ AloneSignals /\ AloneResuming
  BY <1>1 DEF ParentAt, ChildAt, WorkerAt, Interrupted, ResultsNamed, AnswersNamed, AloneWriting,
              AloneSaving, AloneSignals, AloneResuming, Apart
<1> QED
  BY <1>4, <1>5, <1>6, <1>7 DEF IInv

LEMMA IInvStep == IInv /\ [Next]_vars => IInv'
<1> SUFFICES ASSUME IInv, [Next]_vars PROVE IInv'
  OBVIOUS
<1>1. CASE \E kind \in {"recovery", "interruption"}, f \in Fixtures : Begin(kind, f)
  <2>1. PICK kind \in {"recovery", "interruption"}, f \in Fixtures : Begin(kind, f)
    BY <1>1
  <2> QED
    BY <2>1, BeginKeeps, RefuseKeeps DEF Begin
<1>2. CASE Parent
  BY <1>2, ParentKeeps
<1>3. CASE call # Idle /\ TimeRunsOut
  BY <1>3, TimeRunsOutKeeps
<1>4. CASE call # Idle /\ Crash
  <2>1. FilesShape'
    BY <1>4 DEF IInv, Shapes, FilesShape, Crash
  <2> QED
    BY <1>4, <2>1, EndsKeeps DEF Crash
<1>5. CASE EmptyTheDirectory
  BY <1>5, EmptyKeeps
<1>6. CASE \E c \in Calls : Child(c) \/ WorkerSteps(c)
  BY <1>6, ChildMoves, ChildKeeps, WorkerMoves, WorkerKeeps
<1>7. CASE \E c \in {Self} \cap Calls : ChildDies(c) \/ WorkerDies(c)
  BY <1>7, ChildMoves, ChildKeeps, WorkerMoves, WorkerKeeps
<1>8. CASE UNCHANGED vars
  <2>1. UNCHANGED <<call, files, child, worker, ended>> /\ Self' = Self
    BY <1>8 DEF vars, Self
  <2>2. Shapes'
    BY <2>1 DEF IInv, Shapes, FilesShape, ChildShapes, WorkerShapes, CallShape, EndedShape
  <2>3. Ordered' /\ LeftBehind' /\ ParentAt' /\ ChildAt' /\ WorkerAt' /\ RecoveryExact'
    BY <2>1 DEF IInv, Ordered, LeftBehind, Completed, ParentAt, ChildAt, WorkerAt, RecoveryExact
  <2>4. SignalsAnnounced' /\ Interrupted'
    BY <2>1 DEF IInv, SignalsAnnounced, Interrupted, Exists, Announced, SourceOver
  <2>5. ResultsNamed' /\ AnswersNamed'
    BY <2>1 DEF IInv, ResultsNamed, AnswersNamed, AnsweredBefore
  <2>6. AloneWriting' /\ AloneSaving' /\ AloneSignals' /\ AloneResuming'
    BY <2>1 DEF IInv, AloneWriting, AloneSaving, AloneSignals, AloneResuming, Apart, Exists, Proper,
                ProperReceipt, SourceOver
  <2> QED
    BY <2>2, <2>3, <2>4, <2>5, <2>6 DEF IInv
<1> QED
  BY <1>1, <1>2, <1>3, <1>4, <1>5, <1>6, <1>7, <1>8 DEF Next

LEMMA IInvAlways == Spec => []IInv
  BY IInvInit, IInvStep, PTL DEF Spec

-----------------------------------------------------------------------------
(* The results *)

\* Whatever calls shared the directory, in whatever order they crashed and whatever
\* their orphans did there: an observation that completes is exact
\* (run_pytorch_checkpoint_recovery, run_pytorch_controlled_interruption_recovery).
THEOREM RecoveriesAreExact == Spec => []RecoveryExact
<1>1. IInv => RecoveryExact
  BY DEF IInv
<1> QED
  BY <1>1, IInvAlways, PTL

\* A call that returns leaves nothing running but a child that outlived its kill, and
\* has then not completed (_cleanup_spawned_child, _invoke_stage).
THEOREM NothingIsLeftRunning == Spec => []NothingRunsOn
<1>1. IInv => NothingRunsOn
  <2> SUFFICES ASSUME IInv PROVE NothingRunsOn
    OBVIOUS
  <2>1. Shapes /\ LeftBehind
    BY DEF IInv
  <2>2. TypeOK
    <3>1. call.id \in 0 .. MaxCalls
      BY <2>1, InterruptionAssumption DEF Shapes, CallShape, CallRecords, Idle, Calls
    <3>2. DOMAIN files = FileNames
      BY <2>1 DEF Shapes, FilesShape
    <3>3. ASSUME NEW c \in Calls
          PROVE  /\ child[c].pc \in {"none", "training", "trained", "saving", "saved", "placed",
                                     "committed", "announcing", "signalled", "dead"}
                 /\ worker[c].pc \in {"none", "running", "saved", "placed", "hashed", "loaded",
                                      "done", "dead"}
                 /\ ended[c].how \in {"open", "refused", "failed", "crashed", "completed"}
      BY <2>1 DEF Shapes, ChildShapes, WorkerShapes, EndedShape, NotStarted, LivingChild, DeadChild,
                  LivingWorker, DoneWorker, DeadWorker, Living, Received, Working, NotEnded
    <3> QED
      BY <3>1, <3>2, <3>3 DEF TypeOK
  <2> QED
    BY <2>1, <2>2 DEF NothingRunsOn, LeftBehind
<1> QED
  BY <1>1, IInvAlways, PTL
=============================================================================
