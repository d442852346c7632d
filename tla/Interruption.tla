----------------------------- MODULE Interruption -----------------------------
(***************************************************************************)
(* Checkpoint recovery across processes (adapters/deep_learning/           *)
(* pytorch_recovery.py) and its controlled interruption                    *)
(* (pytorch_interruption.py).  A call trains a source up to a checkpoint,  *)
(* either in a worker that ends by itself ("recovery") or in a child that  *)
(* announces its commit and waits to be terminated ("interruption"); then  *)
(* one worker resumes from the checkpoint and another trains without any   *)
(* interruption, and the two must agree exactly.                           *)
(*                                                                         *)
(* Parent, child and workers meet in one directory.  A call may die and    *)
(* leave its child or worker running there, and the caller may empty the   *)
(* directory and call again: `Calls` numbers the calls in that order.      *)
(*                                                                         *)
(* Training is deterministic but for the processes that deviate: the state *)
(* of a model is its fixture, the steps taken and who deviated, and two    *)
(* states have one hash exactly when they are equal.                       *)
(***************************************************************************)
EXTENDS Integers

CONSTANTS MaxCalls,        \* bound on the calls
          Fixtures,        \* the fixtures there are
          Given,           \* the fixtures each call may be given
          CheckpointStep,  \* the step at which each fixture is saved
          RequestedSteps   \* the steps of the whole training

ASSUME InterruptionAssumption ==
    /\ MaxCalls \in Nat /\ Given \in [1 .. MaxCalls -> SUBSET Fixtures]
    /\ CheckpointStep \in [Fixtures -> Nat] /\ RequestedSteps \in [Fixtures -> Nat]
    /\ \A f \in Fixtures : 1 <= CheckpointStep[f] /\ CheckpointStep[f] < RequestedSteps[f]

Calls == 1 .. MaxCalls

VARIABLES call,    \* the call under way (0 for none) and what its parent holds
          files,   \* the directory
          child,   \* the interruptible child of each call
          worker,  \* the stage worker of each call
          ended    \* how each call ended

vars == <<call, files, child, worker, ended>>

\* A request is read by nobody but the process started with it, and left out.
FileNames == {"signal", "signal_pending", "checkpoint", "pending", "tmp",
              "source_result", "resume_result", "control_result"}
ResultOf == [source |-> "source_result", resume |-> "resume_result",
             control |-> "control_result"]
Absent == [by |-> 0]
Exists(name) == files[name] # Absent
EmptyDirectory == [n \in FileNames |-> Absent]

Idle == [id |-> 0]
NotStarted == [pc |-> "none"]
Dead(p) == [pc |-> "dead", reached |-> p.pc, asked |-> p.asked, killed |-> p.killed]
NotEnded == [how |-> "open"]

Init ==
    /\ call = Idle
    /\ files = EmptyDirectory
    /\ child = [c \in Calls |-> NotStarted]
    /\ worker = [c \in Calls |-> NotStarted]
    /\ ended = [c \in Calls |-> NotEnded]

Alive(p) == p.pc \notin {"none", "dead", "done"}

\* A model trained for `steps` more, by a process that deviates or not.
Trained(model, steps, who) ==
    {[model EXCEPT !.steps = @ + steps, !.deviants = @ \cup d] : d \in SUBSET {who}}
Fresh(fixture) == [fixture |-> fixture, steps |-> 0, deviants |-> {}]

\* The payload of a checkpoint file: who wrote it, and whether it is whole.
Payload(c, model, whole) == [by |-> c, model |-> model, whole |-> whole]

\* One content, one hash, whoever wrote it.
SameContent(file, receipt) ==
    file # Absent /\ file.model = receipt.model /\ file.whole = receipt.whole

\* What a load accepts: the fixture's own lineage and progress.
Loadable(file, fixture) ==
    /\ file # Absent /\ file.whole
    /\ file.model.fixture = fixture /\ file.model.steps = CheckpointStep[fixture]

Put(name, content) == files' = [files EXCEPT ![name] = content]

(***************************************************************************)
(* The interruptible child of call c.                                      *)
(***************************************************************************)
ChildGoes(c, pc) == child' = [child EXCEPT ![c].pc = pc]

\* An exception: a payload not yet in place is removed, and the process ends.
ChildFails(c) ==
    /\ child' = [child EXCEPT ![c] = Dead(@)]
    /\ Put("pending", Absent)

ChildTrains(c) ==
    /\ child[c].pc = "training"
    /\ IF Exists("checkpoint") \/ Exists("pending")
       THEN child' = [child EXCEPT ![c] = Dead(@)]
       ELSE \E m \in Trained(Fresh(child[c].fixture), CheckpointStep[child[c].fixture],
                            <<c, "source">>) :
                child' = [child EXCEPT ![c].pc = "trained", ![c].model = m]
    /\ UNCHANGED <<call, files, worker, ended>>

ChildBeginsSave(c) ==
    /\ child[c].pc = "trained"
    /\ Put("pending", Payload(c, child[c].model, FALSE))
    /\ ChildGoes(c, "saving")
    /\ UNCHANGED <<call, worker, ended>>

\* The save ends and what lies under the temporary name is verified.
ChildSaves(c) ==
    /\ child[c].pc = "saving"
    /\ LET saved == IF files["pending"].by = c THEN Payload(c, child[c].model, TRUE)
                    ELSE files["pending"]
       IN  IF Loadable(saved, child[c].fixture)
           THEN /\ child' = [child EXCEPT ![c].pc = "saved", ![c].receipt = saved]
                /\ Put("pending", saved)
           ELSE ChildFails(c)
    /\ UNCHANGED <<call, worker, ended>>

ChildReplaces(c) ==
    /\ child[c].pc = "saved"
    /\ IF Exists("pending")
       THEN /\ files' = [files EXCEPT !["checkpoint"] = files["pending"], !["pending"] = Absent]
            /\ ChildGoes(c, "placed")
       ELSE ChildFails(c)
    /\ UNCHANGED <<call, worker, ended>>

ChildVerifies(c) ==
    /\ child[c].pc = "placed"
    /\ IF SameContent(files["checkpoint"], child[c].receipt)
       THEN ChildGoes(c, "committed") /\ UNCHANGED files
       ELSE ChildFails(c)
    /\ UNCHANGED <<call, worker, ended>>

ChildAnnounces(c) ==
    /\ child[c].pc = "committed"
    /\ Put("signal_pending", [by |-> c, receipt |-> child[c].receipt])
    /\ ChildGoes(c, "announcing")
    /\ UNCHANGED <<call, worker, ended>>

\* The signal is renamed into place; then the child waits for ever.
ChildSignals(c) ==
    /\ child[c].pc = "announcing"
    /\ IF Exists("signal_pending")
       THEN /\ files' = [files EXCEPT !["signal"] = files["signal_pending"],
                                      !["signal_pending"] = Absent]
            /\ ChildGoes(c, "signalled")
       ELSE child' = [child EXCEPT ![c] = Dead(@)] /\ UNCHANGED files
    /\ UNCHANGED <<call, worker, ended>>

\* The child dies, by a signal or by itself, and leaves its files.
ChildDies(c) ==
    /\ Alive(child[c])
    /\ child' = [child EXCEPT ![c] = Dead(@)]
    /\ UNCHANGED <<call, files, worker, ended>>

(***************************************************************************)
(* The stage worker of call c.                                             *)
(***************************************************************************)
WorkerGoes(c, pc) == worker' = [worker EXCEPT ![c].pc = pc]

\* Every worker ends with a result file, of success or of failure.
WorkerAnswers(c, ok, model, receipt) ==
    /\ Put(ResultOf[worker[c].role],
           [by |-> c, ok |-> ok, model |-> model, receipt |-> receipt])
    /\ worker' = [worker EXCEPT ![c] = [pc |-> "done", role |-> worker[c].role, ok |-> ok]]

WorkerFails(c) == WorkerAnswers(c, FALSE, Fresh(worker[c].fixture), Absent)

\* A source worker saves under a temporary name of its own, ...
SourceSaves(c) ==
    /\ worker[c].pc = "running" /\ worker[c].role = "source"
    /\ \E m \in Trained(Fresh(worker[c].fixture), CheckpointStep[worker[c].fixture],
                        <<c, "source">>) :
          /\ Put("tmp", Payload(c, m, TRUE))
          /\ worker' = [worker EXCEPT ![c].pc = "saved", ![c].model = m]
    /\ UNCHANGED <<call, child, ended>>

\* ... renames it, ...
SourceReplaces(c) ==
    /\ worker[c].pc = "saved"
    /\ IF Exists("tmp")
       THEN /\ files' = [files EXCEPT !["checkpoint"] = files["tmp"], !["tmp"] = Absent]
            /\ WorkerGoes(c, "placed")
       ELSE WorkerFails(c)
    /\ UNCHANGED <<call, child, ended>>

\* ... and hashes what it then reads back.
SourceReads(c) ==
    /\ worker[c].pc = "placed"
    /\ IF Exists("checkpoint")
       THEN WorkerAnswers(c, TRUE, worker[c].model, files["checkpoint"])
       ELSE WorkerFails(c)
    /\ UNCHANGED <<call, child, ended>>

\* A resuming worker compares the hash of the file with the receipt's, ...
ResumeHashes(c) ==
    /\ worker[c].pc = "running" /\ worker[c].role = "resume"
    /\ IF SameContent(files["checkpoint"], worker[c].expected)
       THEN WorkerGoes(c, "hashed") /\ UNCHANGED files
       ELSE WorkerFails(c)
    /\ UNCHANGED <<call, child, ended>>

\* ... then loads the file by its name ...
ResumeLoads(c) ==
    /\ worker[c].pc = "hashed"
    /\ IF Loadable(files["checkpoint"], worker[c].fixture)
       THEN /\ worker' = [worker EXCEPT ![c].pc = "loaded", ![c].model = files["checkpoint"].model]
            /\ UNCHANGED files
       ELSE WorkerFails(c)
    /\ UNCHANGED <<call, child, ended>>

\* ... and trains on.
ResumeTrains(c) ==
    /\ worker[c].pc = "loaded"
    /\ LET f == worker[c].fixture
       IN  \E m \in Trained(worker[c].model, RequestedSteps[f] - CheckpointStep[f],
                            <<c, "resume">>) :
               WorkerAnswers(c, TRUE, m, Absent)
    /\ UNCHANGED <<call, child, ended>>

ControlTrains(c) ==
    /\ worker[c].pc = "running" /\ worker[c].role = "control"
    /\ LET f == worker[c].fixture
       IN  \E m \in Trained(Fresh(f), RequestedSteps[f], <<c, "control">>) :
               WorkerAnswers(c, TRUE, m, Absent)
    /\ UNCHANGED <<call, child, ended>>

WorkerDies(c) ==
    /\ Alive(worker[c])
    /\ worker' = [worker EXCEPT ![c] = [pc |-> "dead", ok |-> FALSE]]
    /\ UNCHANGED <<call, files, child, ended>>

WorkerSteps(c) ==
    SourceSaves(c) \/ SourceReplaces(c) \/ SourceReads(c) \/ ResumeHashes(c)
    \/ ResumeLoads(c) \/ ResumeTrains(c) \/ ControlTrains(c)

(***************************************************************************)
(* The parent.                                                             *)
(***************************************************************************)
Goes(pc) == call' = [call EXCEPT !.pc = pc]

\* On to the finally clause with an exception.
Failing == [call EXCEPT !.pc = "cleanup", !.failed = TRUE, !.late = FALSE, !.signal = Absent]
Self == call.id

Ends(how) ==
    /\ call' = Idle
    /\ ended' = [ended EXCEPT ![Self] =
                    IF how # "completed" THEN [how |-> how]
                    ELSE [how |-> how, kind |-> call.kind, fixture |-> call.fixture,
                          alone |-> call.alone, receipt |-> call.receipt,
                          resumed |-> call.resumed, control |-> call.control]]

\* The next call; a directory that is not empty is refused.
Begin(kind, fixture) ==
    /\ call = Idle
    /\ \E c \in Calls :
          /\ fixture \in Given[c]
          /\ ended[c] = NotEnded /\ \A b \in 1 .. c - 1 : ended[b] # NotEnded
          /\ IF files = EmptyDirectory
             THEN /\ call' = [id |-> c, kind |-> kind, fixture |-> fixture,
                              pc |-> IF kind = "recovery" THEN "stage" ELSE "request",
                              role |-> "source", late |-> FALSE, failed |-> FALSE,
                              alone |-> \A b \in Calls : ~Alive(child[b]) /\ ~Alive(worker[b]),
                              signal |-> Absent, receipt |-> Absent,
                              resumed |-> Fresh(fixture), control |-> Fresh(fixture)]
                  /\ UNCHANGED ended
             ELSE /\ ended' = [ended EXCEPT ![c] = [how |-> "refused"]]
                  /\ UNCHANGED call
    /\ UNCHANGED <<files, child, worker>>

\* The request is written outside the try: a failure goes straight to the caller.
WriteRequest ==
    /\ call.pc = "request"
    /\ \/ Goes("spawn") /\ UNCHANGED ended
       \/ Ends("failed")
    /\ UNCHANGED <<files, child, worker>>

Spawn ==
    /\ call.pc = "spawn"
    /\ \/ /\ child' = [child EXCEPT ![Self] =
                          [pc |-> "training", fixture |-> call.fixture, model |-> Fresh(call.fixture),
                           receipt |-> Absent, asked |-> FALSE, killed |-> FALSE]]
          /\ Goes("waiting")
       \/ /\ call' = [call EXCEPT !.pc = "unlink", !.failed = TRUE]
          /\ UNCHANGED child
    /\ UNCHANGED <<files, worker, ended>>

\* The 120 seconds allowed for the commit, or for a stage, are over.
TimeRunsOut ==
    /\ call.pc \in {"waiting", "working"} /\ ~call.late
    /\ call' = [call EXCEPT !.late = TRUE]
    /\ UNCHANGED <<files, child, worker, ended>>

\* Mutant of PollSignal: the deadline is looked at only after a death.
PollWithoutDeadline ==
    /\ call.pc = "waiting"
    /\ \/ /\ Exists("signal")
          /\ call' = [call EXCEPT !.pc = "identify", !.signal = files["signal"]]
       \/ /\ ~Exists("signal") /\ ~Alive(child[Self])
          /\ call' = Failing
    /\ UNCHANGED <<files, child, worker, ended>>

\* One round of the polling loop: the clock first, then the signal, then the
\* child; otherwise the parent sleeps.
PollSignal ==
    /\ call.pc = "waiting"
    /\ \/ /\ ~call.late /\ Exists("signal")
          /\ call' = [call EXCEPT !.pc = "identify", !.signal = files["signal"]]
       \/ /\ call.late \/ (~Exists("signal") /\ ~Alive(child[Self]))
          /\ call' = Failing
    /\ UNCHANGED <<files, child, worker, ended>>

\* Mutant of Identified: any commit signal will do.
IdentifiedAnyNonce == Alive(child[Self])

\* The nonce and the process id are this call's, and the child still runs.
Identified == call.signal.by = call.id /\ Alive(child[Self])

Passes(ok, pc) == call' = IF ok THEN [call EXCEPT !.pc = pc]
                          ELSE Failing

IdentifySignal ==
    /\ call.pc = "identify"
    /\ Passes(Identified, "verify")
    /\ UNCHANGED <<files, child, worker, ended>>

VerifyCheckpoint ==
    /\ call.pc = "verify"
    /\ Passes(SameContent(files["checkpoint"], call.signal.receipt) /\ ~Exists("pending"), "terminate")
    /\ UNCHANGED <<files, child, worker, ended>>

Terminate ==
    /\ call.pc = "terminate"
    /\ Passes(Alive(child[Self]), "await")
    /\ child' = [child EXCEPT ![Self].asked = Alive(child[Self])]
    /\ UNCHANGED <<files, worker, ended>>

\* The child's end is seen, or ten seconds pass without it.
AwaitExit ==
    /\ call.pc = "await"
    /\ \/ /\ ~Alive(child[Self])
          /\ call' = [call EXCEPT !.pc = "cleanup", !.signal = Absent,
                                  !.receipt = call.signal.receipt]
       \/ /\ Alive(child[Self])
          /\ call' = Failing
    /\ UNCHANGED <<files, child, worker, ended>>

\* Mutant of CleanUpChild: a failure to terminate is not followed by a kill.
CleanUpChildOnce ==
    /\ call.pc = "cleanup"
    /\ Goes("unlink")
    /\ child' = IF call.kind = "interruption" /\ Alive(child[Self])
                THEN [child EXCEPT ![Self].asked = TRUE] ELSE child
    /\ UNCHANGED <<files, worker, ended>>

\* The finally clause: a child still running is asked to end, ...
CleanUpChild ==
    /\ call.pc = "cleanup"
    /\ Goes(IF Alive(child[Self]) THEN "reap" ELSE "unlink")
    /\ child' = [child EXCEPT ![Self].asked = @ \/ Alive(child[Self])]
    /\ UNCHANGED <<files, worker, ended>>

\* ... killed after two seconds, ...
ReapChild ==
    /\ call.pc = "reap"
    /\ Goes(IF Alive(child[Self]) THEN "kill" ELSE "unlink")
    /\ child' = [child EXCEPT ![Self].killed = Alive(child[Self])]
    /\ UNCHANGED <<files, worker, ended>>

\* ... and after two more left to itself.
LeaveChild ==
    /\ call.pc = "kill"
    /\ Goes("unlink")
    /\ UNCHANGED <<files, child, worker, ended>>

\* A file is removed if the file system allows it, and otherwise stays.
Unlink(name) == files' = files \/ Put(name, Absent)

UnlinkSignal ==
    /\ call.pc = "unlink"
    /\ Unlink("signal")
    /\ IF call.failed THEN Ends("failed") ELSE Goes("recheck") /\ UNCHANGED ended
    /\ UNCHANGED <<child, worker>>

\* The checkpoint is verified once more before anything resumes from it.
RecheckCheckpoint ==
    /\ call.pc = "recheck"
    /\ IF SameContent(files["checkpoint"], call.receipt)
       THEN call' = [call EXCEPT !.pc = "stage", !.role = "resume"] /\ UNCHANGED ended
       ELSE Ends("failed")
    /\ UNCHANGED <<files, child, worker>>

(***************************************************************************)
(* One stage: a worker is run to its end, or killed when the time is over. *)
(***************************************************************************)
BeginStage ==
    /\ call.pc = "stage"
    /\ \/ /\ worker' = [worker EXCEPT ![Self] =
                           [pc |-> "running", role |-> call.role, fixture |-> call.fixture,
                            model |-> Fresh(call.fixture), expected |-> call.receipt,
                            ok |-> FALSE]]
          /\ call' = [call EXCEPT !.pc = "working", !.late = FALSE]
          /\ UNCHANGED ended
       \/ UNCHANGED worker /\ Ends("failed")
    /\ UNCHANGED <<files, child>>

\* subprocess.run kills a worker that is late and waits for its end.
KillWorker ==
    /\ call.pc = "working" /\ call.late /\ Alive(worker[Self])
    /\ Goes("killing")
    /\ UNCHANGED <<files, child, worker, ended>>

\* Where the parent goes from here with the result of a stage.
Next3 == [source |-> "recheck", resume |-> "stage", control |-> "compare"]

\* The receipt of a source must count the steps up to this fixture's checkpoint.
EndStage ==
    /\ call.pc \in {"working", "killing"} /\ ~Alive(worker[Self])
    /\ LET name == ResultOf[call.role]
           result == files[name]
           good == /\ call.pc = "working" /\ worker[Self].pc = "done" /\ worker[Self].ok
                   /\ Exists(name) /\ result.ok
                   /\ call.role = "source" => result.model.steps = CheckpointStep[call.fixture]
       IN  /\ Unlink(name)
           /\ IF good
              THEN /\ call' = [call EXCEPT
                        !.pc = Next3[call.role],
                        !.role = IF call.role = "resume" THEN "control" ELSE @,
                        !.receipt = IF call.role = "source" THEN result.receipt ELSE @,
                        !.resumed = IF call.role = "resume" THEN result.model ELSE @,
                        !.control = IF call.role = "control" THEN result.model ELSE @]
                   /\ UNCHANGED ended
              ELSE Ends("failed")
    /\ UNCHANGED <<child, worker>>

\* The steps a training took after the checkpoint of its own fixture
Segment(model) == model.steps - CheckpointStep[model.fixture]

\* Model, optimizer and scheduler state and the final loss agree exactly, and the ledger
\* adds up: the control took the steps requested, the resumed worker those that were left.
Equivalent ==
    /\ call.resumed = call.control
    /\ call.control.steps = RequestedSteps[call.fixture]
    /\ Segment(call.resumed) = RequestedSteps[call.fixture] - CheckpointStep[call.fixture]

\* The two must agree; a call over its cost limit fails in spite of that.
Compare ==
    /\ call.pc = "compare"
    /\ \/ Equivalent /\ Ends("completed")
       \/ Ends("failed")
    /\ UNCHANGED <<files, child, worker>>

\* The parent dies and leaves everything where it is.
Crash ==
    /\ call # Idle
    /\ Ends("crashed")
    /\ UNCHANGED <<files, child, worker>>

\* The caller empties the directory after a call that did not complete.
EmptyTheDirectory ==
    /\ call = Idle /\ files # EmptyDirectory
    /\ files' = EmptyDirectory
    /\ UNCHANGED <<call, child, worker, ended>>

Parent ==
    /\ call # Idle
    /\ \/ WriteRequest \/ Spawn \/ PollSignal \/ IdentifySignal \/ VerifyCheckpoint
       \/ Terminate \/ AwaitExit \/ CleanUpChild \/ ReapChild \/ LeaveChild
       \/ UnlinkSignal \/ RecheckCheckpoint \/ BeginStage \/ KillWorker \/ EndStage
       \/ Compare

Child(c) ==
    ChildTrains(c) \/ ChildBeginsSave(c) \/ ChildSaves(c) \/ ChildReplaces(c) \/ ChildVerifies(c)
    \/ ChildAnnounces(c) \/ ChildSignals(c)

\* Nothing is followed beyond the last call, and an orphan that dies is one that
\* takes no step any more.
Next ==
    \/ \E kind \in {"recovery", "interruption"}, f \in Fixtures : Begin(kind, f)
    \/ Parent
    \/ call # Idle /\ (TimeRunsOut \/ Crash)
    \/ EmptyTheDirectory
    \/ \E c \in Calls : ended[MaxCalls] = NotEnded /\ (Child(c) \/ WorkerSteps(c))
    \/ \E c \in {Self} \cap Calls : ChildDies(c) \/ WorkerDies(c)

\* The parent is scheduled and its clock runs; a worker sent a kill dies.
Spec ==
    /\ Init /\ [][Next]_vars
    /\ WF_vars(Parent)
    /\ WF_vars(call # Idle /\ TimeRunsOut)
    /\ WF_vars(call # Idle /\ call.pc = "killing" /\ WorkerDies(Self))
-----------------------------------------------------------------------------
TypeOK ==
    /\ call.id \in 0 .. MaxCalls
    /\ DOMAIN files = FileNames
    /\ \A c \in Calls :
          /\ child[c].pc \in {"none", "training", "trained", "saving", "saved", "placed", "committed",
                              "announcing", "signalled", "dead"}
          /\ worker[c].pc \in {"none", "running", "saved", "placed", "hashed", "loaded",
                               "done", "dead"}
          /\ ended[c].how \in {"open", "refused", "failed", "crashed", "completed"}

Completed(c) == ended[c].how = "completed"

\* A completed observation is exact: the resumed and the uninterrupted model are
\* one undisturbed training of as many steps as this fixture asks for, before
\* and after the checkpoint, and an interrupted source ended only after its commit was in place
\* and announced, asked to by its parent -- whatever orphans of earlier calls do in
\* the same directory.  It is the training of this fixture unless the workers of
\* two calls that died answered for both of its own: a result names no fixture.
\* Where no orphan was left, the receipt too is of that training and of a file this
\* call's source wrote
\* (run_pytorch_controlled_interruption_recovery, _validate_equivalence).
RecoveryExact ==
    \A c \in Calls : Completed(c) =>
        LET e == ended[c]
            died(b) == b < c /\ ended[b].how = "crashed"
        IN  /\ e.control = e.resumed /\ e.resumed.deviants = {}
            /\ e.resumed.steps = RequestedSteps[e.fixture]
            /\ CheckpointStep[e.resumed.fixture] = CheckpointStep[e.fixture]
            /\ e.resumed.fixture # e.fixture =>
                  \E a, b \in Calls : a # b /\ died(a) /\ died(b)
            /\ e.kind = "interruption" =>
                  /\ child[c].pc = "dead" /\ child[c].asked
                  /\ child[c].reached \in {"announcing", "signalled"}
                  /\ e.alone => child[c].reached = "signalled"
            /\ e.alone =>
                  /\ e.resumed.fixture = e.fixture
                  /\ e.receipt.by = c
                  /\ e.receipt.model = [fixture |-> e.fixture, deviants |-> {},
                                        steps |-> CheckpointStep[e.fixture]]

\* A call that returns, well or badly, leaves no process behind but a child that
\* outlived a kill, and a completed one none (_cleanup_spawned_child, the
\* subprocess.run of _invoke_stage); every process stands where its code is.
NothingRunsOn ==
    /\ TypeOK
    /\ \A c \in Calls : ended[c].how \in {"failed", "completed"} =>
          /\ ~Alive(worker[c])
          /\ Alive(child[c]) => child[c].killed /\ ~Completed(c)

\* Every call ends: neither a source that never commits nor one that does not
\* die, nor a worker that hangs, keeps the parent (_wait_for_commit_signal,
\* _terminate_verified_child, _invoke_stage).
CallEnds == (call # Idle) ~> (call = Idle)
=============================================================================
