# A formal model of the research-evolution skill

TLA+ modules, TLC configurations and TLAPS proofs for the program in
`src/src/research_evolution/`: a library that records research (tasks, runs,
claims, cases) in an append-only store, runs agents under containment, and
turns failures into candidate skills that are tested before anybody uses them.
Line numbers and the exact correspondence of every definition to the code are
in the `map` of `PROJECT.json`; this file says what is modelled, why, and what
the checks and the proofs show.

Contents: [the system](#1-the-system) ·
[what is hard about it](#2-what-is-hard-about-it) ·
[the modules](#3-the-modules) ·
[the runs](#4-the-runs) · [bounds](#5-bounds) ·
[fairness](#6-fairness) · [the proofs](#7-the-proofs) ·
[where code and documents disagree](#8-where-the-code-and-its-documents-disagree) ·
[what is not modelled](#9-what-is-not-modelled) · [the plan](#10-the-plan)

## 1. The system

Almost everything in the package is a function from records to records. State
that outlives a call is kept in three kinds of places: a **record store** (a
directory), **values the caller passes on** (patterns, indices, event logs,
checkpoints), and, for the length of one call, **temporary directories and
processes**.

| Component | Code | State | Operations | Talks to |
| --- | --- | --- | --- | --- |
| Record loading | `core/_strict_json.py`, `_schema.py`, `_canonical.py`, `records.py` | none | parse, validate, canonical bytes and hash | everything |
| Record store | `core/_store.py`, `core/publication.py` | `records/`, `manifest.json`, `.tmp/`; a lock per root in the process | `publish_record`, `verify_record_graph` | the file system, other threads and processes |
| Record graph | `core/_graph.py`, `_families.py` | none: judged from the loaded records | reference, lineage, closure and export checks | record store |
| Process containment | `evolution/_process_containment.py` | a process group, two drain threads, a feed thread, deadlines | `run_process_contained` | the operating system |
| Collaboration window | `evolution/collaboration_window.py` | one call's plan, tickets, workspaces, outcomes | `run_collaboration_window` and its adapters | process containment, Codex trace reader |
| Agent forward trial | `evolution/agent_forward_trial.py` | one temporary root, two arms | `run_agent_skill_forward_trial` | process containment, evaluation |
| Skill forward test and suite | `evolution/skill_forward_test.py`, `skill_forward_suite.py` | one call's grid of cells | two arms per case and seed, with retries | worker process, evaluation |
| Evaluation | `evaluation/*.py` | none | replay → score → gates → run; suite comparison | adapters |
| Failure capture, candidate proposal | `evolution/public_failure_capture.py`, `skill_candidate_proposal.py` | one call | baseline failure → case; case → candidate bundle | containment, evaluation, closures |
| Incubator, closures, reviews | `evolution/incubator.py`, `envelope_closure.py`, `skill_*.py`, … | none | receipts that re-derive hashes, orders and findings | each other |
| Research memory | `experience/*.py` | chains of immutable snapshots, indices, hash-chained log | lifecycle transitions, retrieval, clustering | the caller |
| Deep learning fixture runner | `adapters/deep_learning/runner.py` | checkpoints passed from call to call | run, resume, early stop under a budget | evaluation |
| PyTorch recovery, interruption | `adapters/deep_learning/pytorch_*.py` | child processes, files in a temporary root | train, kill, resume, compare | the operating system |
| ML adapter and runner | `adapters/ml` | none: case, contract, evidence and claim are passed in | judge a case and build its contract, run a synthetic experiment, assess a claim | evaluation |
| Mathematics, quant adapters | `adapters/math`, `quant` | none | build a contract, assess a claim | evaluation |

How they interact: adapters and agents produce files and facts under
containment; evaluation turns them into attempts, results and runs; captures
turn genuine failures into cases; the incubator and the review chain turn cases
into candidate bundles; forward tests compare a candidate with its baseline;
every stage emits records that can be published in a store, where the graph
checks hold them together. No component calls another in the background: the
concurrency is that of threads and processes that call the library, of the three
worker threads inside a contained call, and of the children it runs.

What makes each component correct:

- *Record store*: the manifest only grows, lists one content per logical id and
  only records whose file is there; receipts are promises; crashes leave at most
  what one retry heals; damage is reported and never written over.
- *Record graph*: a verdict "ok" means sound lineages, closed packages and
  authorised exports, in whatever order the records came.
- *Containment*: the call returns; its facts are consistent; "cleaned up" and
  "completed" are true when they are said; the first cause is the one reported.
- *Collaboration window*: no ticket runs over the leftovers of another; the
  budget holds over all tickets together; a claim of real execution is earned; a
  failure is a receipt and not a lost call.
- *Forward trials and suites, evaluation*: comparisons only of complete grids;
  numbers of attempts are those made; no verdict without a result.
- *Failure to candidate*: only clean, genuine failures become cases; a candidate
  comes out whole or not at all.
- *Research memory*: snapshots are never changed; forks are noticed; retrieval
  offers nothing superseded or terminal.
- *ML adapter*: nothing is fitted before the split, the final rows decide nothing, and
  a claim is supported only by evidence of its own case.
- *Fixture runner, recovery*: a resumed run equals the uninterrupted one; the
  child is killed only after a checkpoint that can be read.

## 2. What is hard about it

`PROJECT.json` lists every hazard at its line. The families:

- **Two writes that are not one** — the record is linked, then the manifest
  replaced (`core/_store.py`); the first publish makes two directories before
  either; a result file and an exit status; a checkpoint and its signal.
- **Races** — threads under one root lock, processes under two; an editor of the
  files against a publish; the child, three worker threads, two deadlines and an
  operator's Ctrl-C against the cleanup of one contained call.
- **Records judged after they are published** — references may point forward, a
  later record may close a cycle, take an id, or break a pin.
- **Several failures at once** — which one is the cause, and does the receipt of
  the first survive the second?
- **Budgets checked before they are spent**, per ticket and per window, per
  attempt and per suite.
- **Waiting** — joins on pipes an escaped descendant holds, a poll for a file a
  dead child will never rename, callers that retry.

## 3. The modules

```
AppendOnlyRegistry          what publish_record promises (abstract)
RecordStore                 core/_store.py + core/publication.py, one system call a step
 └ RecordStoreOneProcess    the supported setting: one root lock; refines AppendOnlyRegistry
    ├ RecordStoreRetry      callers that retry until answered (liveness)
    └ RecordStoreTampering  somebody edits the files
Lineage                     cycles of a partial function (definitions)
 ├ LineageWalk              core/_graph.py: _find_lineage_cycles, turn by turn
 └ RecordGraph              core/_graph.py + _families.py over an append-only store
MLCase, SplitExecution      adapters/ml/_topology.py, _split_execution.py (definitions)
 └ MLStudy                  adapters/ml/: contracts, synthetic experiments, claims
    └ MCDeclaredGraphs      beside LineageWalk
ProcessContainment          evolution/_process_containment.py, POSIX
CollaborationWindow         evolution/collaboration_window.py
CheckpointedRun             adapters/deep_learning/runner.py, runner 0.2.0
Interruption                adapters/deep_learning/pytorch_recovery.py, pytorch_interruption.py
CaseClustering              experience/clustering.py (definitions)
 └ ResearchMemory           experience/: cases, patterns, index, retrieval
    └ HeuristicRegistry     experience/: heuristics, linter, shadow trial; all of it composed
Evaluation                  evaluation/*.py: scores, gates, verdicts, comparison (definitions)
 ├ CaseEvaluation           evaluation/pipeline.py: evaluate_case
 ├ ForwardSuite             evolution/skill_forward_test.py, skill_forward_suite.py
 └ AgentCall                one agent job, as three modules of evolution/ run it
    ├ FailureToCandidate    public_failure_capture.py, skill_candidate_proposal.py
    └ AgentTrial            agent_forward_trial.py
CandidateReview             evolution/: incubator, eligibility, draft, reviews, closures, contexts
CodexTrace                  evolution/_codex_jsonl.py
 └ SkillPipeline            all of these composed, from a failure to a compared candidate
```

`MC<Module>.tla` and `MC<Module>*.cfg` instantiate them; `<Module>Proofs.tla`
hold theorems. What a module is given from outside (plans, answers, records, events) is
a constant with a named assumption where a theorem rests on it, and a small set of
values in the `MC` module.

### RecordStore

| Variable | Code |
| --- | --- |
| `rootDir`, `recordsDir` | the root and `records/` exist |
| `disk` | the content under each content-derived file name: absent, torn (bytes that do not match the name), intact |
| `manifest` | `manifest.json`: absent, canonical, reformatted (parses, not byte-equal to the rebuild), malformed; its entries |
| `lock` | `lock_for_root`: one `threading.Lock` per lexical root and process |
| `pc`, `op`, `rec`, `snap`, `temp`, `found` | one running call: its step, the manifest text it read, its staged file, its findings |
| `outcome`, `receipts` | what callers were told; every receipt ever returned |
| `faults` | crashes and failed system calls so far |

One action is one system call that others can observe: `Acquire`,
`ReadManifest`/`FreshRoot`, the walk of `records/` with the decision that follows from it
(`Verify`, `Refuse`, `Conflict`, `Replay`, `Admit`), `MakeRoot`, `MakeRecordsDir`, `Stage`
(mkstemp), `Write` (write + fsync), `LinkRecord`/`AdoptRecord` (`os.link` and the comparison
when the name exists), `ReplaceManifest`, `ReturnReceipt`. `IoError` fails any writing step,
`ReadError` makes one record file or the manifest unreadable during the walk, and `Crash`
kills a process between any two steps. `Findings` is `reconcile_store`. A record stands for
its canonical bytes, hash and file name, which is why two contents of one id are two records
with one `IdOf`.

`Domain` and `DomainOf` place threads in processes: `RecordStoreOneProcess`
assumes a single domain (what `_store.py` supports). The first theorems of
`RecordStoreProofs` do not: they hold for any number of processes, which is also
what two spellings of one root amount to. The others are about the supported setting, the
last two with an editor of the files.

`RecordStoreTampering` adds an editor: any record file deleted, corrupted,
restored or planted, any other manifest, and the manual cleanup after an
interrupted first publish. `edits` counts them, and `raced` tells whether one
fell inside a running call; only then can `os.link` meet foreign bytes
(`RejectForeignBytes`).

### LineageWalk and RecordGraph

`LineageWalk` is the walk over `supersedes` edges (`edges`), with its colouring
(`state`), its current `path` and `node`, and the `cycles` named so far; one
action is one turn of a loop. `RecordGraph` has one variable, the set of
published records, and one action, `Publish`; everything else is the verdict:
`Dangling`, `CrossType`, `PinMismatch`, `DuplicateReference`, `DuplicateId`,
`OneWayLink`, `SelfReference`, `OnCycle`, `ScopeMismatch`, `CaseIncomplete`,
`UnauthorizedExport`, each the records one kind of violation names. The
reference table of all families (`_families.py`) is in full. `Edges` keeps the
code's one map for all families, keyed by the bare id.

### ProcessContainment

`proc`, `grouped`, `holding`, `deadly` are the processes, the leader's group, who
holds the pipes and who has been sent SIGKILL; `written`, `unread`, `buffer`
count bytes; `reader` and `feeder` are the worker threads; `cause` is `causes[0]`;
`expired` the deadlines that have passed; `main`, `started`, `cleanup`, `status`
the caller's thread and its result. Processes fork, leave the group (`Escape`),
close the pipes, write, and exit whenever they like; any signal, wait, read or
close may fail once; `Interrupt` is an exception in the poll loop, which still
goes through the `finally` cleanup. Steps of the caller follow
`run_process_contained` and `_cleanup_posix`: poll, clock, terminate, graceful wait,
SIGKILL, reap, wait for the group, kill and wait for the parent, join, alive, result.

### CollaborationWindow

One `run_collaboration_window` call: `BuildPlan` admits the plan or raises, then
per ticket either `Recite` (the deterministic adapter) or `RunLauncher` and
`CollectOutput` (the process adapter: the contained call, then the trace, the
final output, the ordered failure tests `FirstFailure`, the removal of the
workspace and the rewriting of the observation, `Observed`), and then
`AcceptObservation`, `RejectScope` or `RaiseInvalid` (`_validate_observation` and
`_build_outcome`). `AdapterRaises` is an exception of the adapter. `workspaces`
and `survivors` are the world: what is really left behind. What a contained call
can return (`Contained`) is the pairs that the `containment` run shows to be all there
are (`FactsValid`, a part of `ReportTruthful`).

### CheckpointedRun

A caller trains one problem in several calls of `run_fixture` and keeps the payloads
they return. Training is deterministic and the checkpoint's identity pins what it
depends on, so the state of the model after *n* steps is the number *n*.

| Variable | Code |
| --- | --- |
| `problem` | the fixture and the early stopping policy, the same in every call (`_validate_checkpoint_payload` refuses another) |
| `kept` | the checkpoint payloads the caller holds |
| `runs`, `call`, `origin` | calls so far; the request of the latest one and the checkpoint it resumed |
| `status`, `step` | the loop of `_run_fixture_v2`; cumulative steps |
| `early`, `best` | `early_state` and its `best_checkpoint` |
| `candidates` | the checkpoints of this call |
| `result` | verdict, exhausted dimension, retained references, selected checkpoint |

`Begin` is everything up to the loop (`Accepted` says what the validators let
through: a checkpoint with a metric beyond `MaxMetric` is kept but never resumed; `Restore`
and `RestoredBest` say what is taken from the checkpoint), `Train` and
`Fail` are turns of the loop, `Finish` is the retention and the result. The budget plan
(`Allowed`, `Exhausted`) is computed as in `_plan_budget_v2`, ties included. `Forecast`
is the verdict of a dry run, which is compared with the one of the real run.

The abstract specification is the constant `Uninterrupted`: what early stopping would
say after *n* steps of one run that is never cut. The assumption
`UninterruptedAssumption` defines it by its first value and its step, so that it needs
no recursive operator and can be reasoned about.

### Interruption

| Variable | Code |
| --- | --- |
| `call` | the call under way: kind (recovery or controlled interruption), fixture, nonce, and what its parent has read |
| `files` | the directory: request, checkpoint, signal, stage results, with their pending names |
| `child` | the interruptible source process of each call |
| `worker` | the stage worker of each call (source, resumed, control) |
| `ended` | how each call ended |

The child trains, saves under a pending name, replaces, reads back, announces and
waits to be killed; a worker of the stages does the same and ends by itself; a
resumed worker hashes the checkpoint, loads it and trains in three separate steps
(`ResumeHashes`, `ResumeLoads`, `ResumeTrains`), between which the file may be replaced.
The parent's `Begin`, `WriteRequest`, `Spawn`, `PollSignal`, `IdentifySignal`,
`VerifyCheckpoint`, `Terminate`, `AwaitExit`, `CleanUpChild`, `ReapChild`,
`LeaveChild`, `UnlinkSignal`, `RecheckCheckpoint`, `BeginStage`, `KillWorker`,
`EndStage` and `Compare` follow the two `run_…` functions line by line, with
`TimeRunsOut` at every wait. `Crash` is the death of the parent, which leaves its child
or worker running in the directory; `EmptyTheDirectory` is the caller making room for
another call. A model state is where it comes from (fixture, steps, who deviated),
because training is deterministic; two hashes agree exactly when the states do. The
counts of steps are checked where the code checks them: the source's receipt against the
checkpoint step (`EndStage`), and the ledger of the resumed segment and of the control
against the steps requested (`Equivalent`).

### ResearchMemory, HeuristicRegistry, CaseClustering

`cases`, `patterns` and `heuristics` are the snapshots published, in order: a session works
on an old copy by picking an old position. `index` is the set a session indexed, `offer` the
last retrieval with its query, `trial` the last shadow report. `CaptureCase`, `Distill`,
`Transition`, `BuildIndex`, `Retrieve`, `Propose`, `Advance` and `Shadow` are the public
functions; `ExperienceSpec` takes them in any order and any number. `Tips`, `Tier`, `Score`,
`Before` and `Best` are the retrieval. `Findings` is the linter. A rule has a statement, the
content words of it, whether it negates, and a scope: duplicates agree in the whole
statement and the scope, contradictions in the words. Its depth-first search
`_lint_precedence_cycles` keeps marks, a stack and the cycles found (a `Search`), and is
written with recursive functions only: `Descend` is `visit` (`Enter`, `FollowAll` the names
it cites, `Leave`), `CycleClosed` the cut of the stack, and the recursion goes over the room
left on the stack, which holds no name twice. `Clusters` is the ladder of four tiers of
`cluster_cases`; in the last one (`Proposals`) the cases `Join` a group or open one, in the
order of their names (`InOrder`).

### Evaluation, CaseEvaluation, ForwardSuite

`Evaluation` is operators: `RunReplay` (attempts under an envelope), `ScoreWithOracle`,
`EvaluateGates`, `AssembleVerdict`, `Observe` for one case; `Compare`, `ResampleSums`,
`HolmAdjust`, `InferenceStatus`, `FoldManyGates` for a grid. `CaseEvaluation` keeps the last
evaluation with its inputs. `ForwardSuite` keeps the plan, the `phase`, the attempts of
the arm under way, the calls the adapter received (`made`), the `results` and the
`comparison`; `Submit` is the whole preflight (pins, route, case bytes, and the runner and
scorer the gates are configured for, `Foreign` otherwise), `Attempt` one call of the adapter with
what follows it, `ConcludeIncomplete` and `ConcludeCompared` the two ends.

### AgentCall, FailureToCandidate, AgentTrial

Three modules of `evolution/` run agents in the same way, so `AgentCall` has it once: a
temporary root, per arm a workspace (`Prepare`) and one call of the executor
(`Execute`), the removal in the `finally` clause (`CleanUp`), a conclusion, and the
outcome taken (`Taken`). `alive` is the truth the program cannot see: arms with a process
still running. `CodexObservation` is the normalisation of a contained call, a trace and
a final message. `ConcludeCapture`, `ConcludeProposal` and `ConcludeTrial` draw the
blockers and the status; a capture adds to `captured`, a proposal fills four places on
the desk of the review at once. A job may refuse the root it has just made, before the
`try` that would remove it: `root` is then `abandoned`, and the job raises. An executor may
raise, raise the error class of the job's own module (which a capture and a proposal pass
on, and a trial counts as a failed executor), or answer with something that is no
observation. The records of a qualified failure are validated last, and if one of them does
not validate the capture raises (`CaptureEnds`). A proposal takes the case records it is
given, captured or not (`Supplied`), and demands of them what `_validate_plan` demands:
that they are eligible, independent, and exactly those the pattern pins.

### CandidateReview and CodexTrace

`desk` holds the record each constructor last returned. `Declare`, `Close`, `Assess`,
`Draft`, `ValidateStatically`, `ReviewSemantically` and `CloseEnvelope` may run again
in any order with other inputs, so that a record can be remade after another pinned it;
a pin is the record pinned, and two pins agree exactly when hashes would. A manifest has
the roles the incubator requires and no member under a reserved name; static validation
compares names and triggers after normalization (`Normal`, a constant operator), with the
skills already installed too; a hidden artifact is closed over the bytes its attestor
observed.
`TopologicalOrder` is the member order of the closure, one turn of its loop being
`Placed`; `PrepareContext` is the context packet with its dispositions and budget.
`CodexTrace` reads the events one by one: `trace` is what has been read, `reading` the
locals of the loop, `Emit` one turn of it (`ReadEvent`), and `ParseTrace` what is
returned if the trace ends here.

`SkillPipeline` composes these: the stages of the jobs, the reviews at the desk, the two
forward tests over the records it holds, a replay evaluation and a trace.

### MLCase, SplitExecution, MLStudy

`MLCase` judges a declared case: sections that pin their upstream by hash
(`StructuralViolations`, with Kahn's elimination), leakage (`Leaks`) and what the schema
cannot state (`Floors`). `SplitExecution` says whether an assignment of rows is what
its split declares, for each of the four kinds. Both end with the reference they are
compared with, written from what the rules are for: `VerdictMeansOrder` follows the pins,
`RowsApart` looks at rows. `MLStudy` has the calls: `judged`, `contract`,
`evidence`, `executed` and `assessed` are the last case judged, what the researcher
holds, the last experiment and the last assessment. `BuildContract`,
`RunSyntheticExperiment` and `ValidateClaim` are the three public functions with all they
refuse; `WriteContract` and `Collect` are a contract made by hand and evidence from
elsewhere. A hash is the thing hashed. `StudySpec` takes these steps in any order and any
number, over any cases, contracts, data, evidence and claims; the run takes a part of its
steps (two pieces of evidence at most, the runner on the contract's own case).

## 4. The runs

Every run of `PROJECT.json`, what it asks and what it shows.

| Run | Question | Answer |
| --- | --- | --- |
| `store_one_process` | Two threads publish and verify with up to three crashes or failing calls anywhere. | Nothing torn is visible and nothing listed is missing (`StoreWhole`); at most one orphan exists (`AtMostOneOrphan`); a conflict is real and a verification that finds fault is right (`AnswersJustified`); the store implements `AppendOnlyRegistry`. |
| `store_retry` | Three callers retry through crashes. | Once a manifest exists everyone is answered, and no orphan stays (`RetriesHeal`). |
| `store_tampering` | Files are edited, twice between calls or once during a call. | Nothing is written into or attested over a store edited between calls (`EditsLeftAlone`); a file that is there is never overwritten, whenever it was planted (`ProgramNeverOverwrites`). |
| `containment` | One call, a leader and a descendant, two streams of which one may exceed its limit, one failing call. | Facts fit together, a verified cleanup leaves nothing, "completed" means complete, a cleanup is not reported failed without reason (`ReportTruthful`); the first cause is real and stays (`CauseKept`); the call ends whatever processes and worker threads do (`CallReturns`). |
| `window` | Three tickets, each with the recited or the process adapter, plans that fit and plans that do not. | No ticket over leftovers, real claims earned, tickets in order (`ReturnedTruthful`); leftovers are said (`NothingLeftBehind`); the hard budget holds over the window (`SpentWithinHardBudget`); a failure receipt is lost in exactly two named cases (`FailureReceipted`). |
| `declared_graphs` | All lineages of five records. Machine learning studies: sections pinned in every direction, rows assigned and folded in every way, contracts of the case or by hand, evidence of the case or of another. | Exactly the cycles are named, whole and once (`CyclesNamed`), and the walk ends (`WalkEnds`). In what is accepted everything fitted comes after the split; in what is run rows are apart as the split promises and the final rows are never trained or selected on (`ExperimentIsolated`). A claim of generalization is supported only by a frozen, repeated, real experiment on the contract's own case and split, with every gap owned up to (`ClaimsGrounded`). |
| `graph` | Lineages with shared ids, a case package that agrees or not, exports and decisions; in every order. | "ok" means sound lineages and closed packages (`OkMeansSound`), exports are allowed in their mode for the stored bytes (`ExportJustified`), bad news is final, a newcomer spoils itself only. |
| `checkpointed_run` | One problem trained in up to three calls, each from the start or from any checkpoint held, under different caps, requests, retentions and failures. | The calls add up to one uninterrupted run (`ResumesExactly`), no cap is exceeded over all of them (`BudgetKept`), each ends for the reason it gives, the best and the last state stay recoverable, and the selected checkpoint is the best (`ResultTruthful`). |
| `checkpointed_run_recorded` ✗ | Does every result record the best and the last checkpoint when early stopping is on? | Not with retention `all`, when the best is older than the call. |
| `interruption` | Two calls on one directory, parents that die and leave their child or worker running, processes that hang, die or deviate, clocks that run out anywhere. | What completes is an undisturbed training of the fixture, before and after the checkpoint, equal to the uninterrupted control, and where no orphan of an earlier call shares the directory it was resumed from what this call's own child had committed and announced before it was killed (`RecoveryExact`); a call that returns leaves no process but a child that outlived its kill, and then it has failed (`NothingRunsOn`); every call ends (`CallEnds`). |
| `research_memory` | Nine cases in any order and clustered; three pattern snapshots moved from any older copy, an index over any of them queried later; three heuristics that contradict, repeat and cite each other. | Promotion rests on evidence carried along the chain, and status only advances (`PatternsSound`); an offer is neither superseded nor terminal in what its session saw, and nothing better was passed over (`OffersJustified`); no heuristic outgrows the shadow, and a clean lint means the rules agree (`HeuristicsSound`); clusters partition, and each group has the reason its tier gives: one fingerprint, the same facets, one taxonomy path, or similar summaries (`CapturedClusters`). |
| `skill_pipeline` | From failing agent runs to a compared candidate: executors that time out, leave processes or contradict themselves; records remade in any order; two arms, retries, budgets, grids; a frozen replay; an agent's trace. | No job ends before its root was dealt with, but one that refused the root and ran nothing in it, and nothing is concluded well over a surviving process or a root that is left (`LeftoversNeverVouched`); a failure is captured only from a run whose process tree was verified gone and is gone, with a readable answer that misses a floor or carries a mark, or from a mismatched evaluator, and a real agent has attested its turn (`FailureIsGenuine`); a candidate rests on eligible, independent cases and comes whole, and any other end of a job leaves every record as it was (`ProposalGrounded`); closures list members after what they need, over current sources (`ClosuresOrdered`); a context shows in plain words only what is safe and untainted, or redacted clean (`ContextGoverned`); no arm starts but on records that belong together (`EvaluatedIsReviewed`); attempts are those made, claims rest on whole grids, a run exists exactly when a result does, and a smoke is completed only with both arms clean of forbidden marks and of processes (`TrialsJustified`); a turn is attested only if it completed last and in order (`TurnAttested`). |

✗ marks the run that is expected to find a violation; it checks one sentence of a
document of the repository.

Every property of a passing run has a mutant in `PROJECT.json`: a one-place change
of a definition, of the sort a bug would be, that makes TLC find the property
violated. It is defined right above the definition it changes.

## 5. Bounds

- *Record store*: records `a1`, `a2` (two contents of one id) and `b1`. Two contents
  of one id are needed for conflicts, a second id for foreign orphans; a third id
  adds no finding that the second does not. Two threads give every pair of
  interleaved calls (the lock makes a third wait); `store_retry` has three so that a
  waiter can be overtaken. `MaxFaults = 3` allows a crash, a second one during the
  repair, and one more. Threads are symmetric where no liveness is checked.
- *Tampering*: two edits between calls (damage, then a second that may hide it,
  `MaxEdits`), or a single one that falls inside a call (`MaxRacingEdits`).
- *Containment*: a leader and one descendant, which is enough to leave the group, to
  outlive the leader and to hold a pipe for ever; limits of one byte, with up to two
  bytes on standard output, which can exceed it, and one on the other, which cannot;
  one failing system call (`MaxBytes`, `MaxFaults`).
- *Window*: budgets of one unit per ticket; a worker may cost nothing, one or two; a
  plan has up to three tickets, and each kind of rejected output appears once.
- *Lineage*: five records hold two cycles with tails, or one of length five.
- *Studies*: a section of each kind, so that cycles of up to four sections occur, with pins
  in every direction under safe labels and every label under pins that may stand. Groups of
  four rows in up to three groups; five sessions in every partition, gaps of none or one;
  five rows in two folds of two folds each, where a training half may take a row from
  outside. Two items of evidence, which is enough for one to stand in for what the other
  lacks; `MaxVisits`, `MaxEpochs` and `MaxSeeds` are each exceeded by a case of their own. A
  study begins at the empty lineage, because the two halves of the run have nothing in
  common.
- *Graph*: three pools of drafts (`Pools`: a lineage pool, a package pool, an export
  pool), each with every form that one kind of check tells apart. A store draws from
  one pool, in every order and combination.
- *Checkpointed run*: three steps and three calls, which is enough to resume a resumed run
  and to resume an older checkpoint than the last; losses better than, equal to and worse
  than the first one, beyond what is resumed (`MaxMetric`), or not finite from some step on;
  early stopping off, with a warm-up and a margin, and with a patience longer than one call
  may last; caps above, at and below the request, two caps that tie, a cap that is less than
  a step and rows that do not fit; every retention.
- *Interruption*: two calls, so that an orphan of the first meets the second; one fixture
  trained for two steps and one for three, each saved before its last step, so that a
  checkpoint of the wrong fixture can be met; nothing is followed after the last call,
  and an orphan that dies takes no further step, because one that stops anywhere looks
  the same. States are told apart by `MCView`: it leaves out what no step and no property
  reads any more, the remains of processes that ended in a call that is over.
- *Research memory*: the two halves read the cases and never each other and so run side
  by side, not interleaved. Three snapshots (`MaxPatterns`, `MaxSnapshots`) make a chain
  of three or a fork; three of the nine cases are for patterns (two fit, one is
  incomplete), all are for clusters, with a pair of similar summaries bridged by a third, two
  equal fingerprints and two cases under one taxonomy path. The seven rules include one
  statement in other words, the same words negated, and rules without content words.
- *Skill pipeline*: two sessions, two criteria, four roles, two dimensions; three cases of
  which two share a lineage, and records of one of them and of a fourth case that the
  proposer brings along, eligible or not. Of the six manifests one lacks its tests and one
  uses the reserved name; a trigger and an installed skill's name differ from another only
  in their letters; a hidden artifact may differ from what its attestor observed. The stages
  follow one another and each forgets what later ones do not read; one context is prepared,
  while only a manifest lies on the desk, and ends the review; four records are made by hand after a bundle
  exists (`MaxReviews`), which is enough to remake one behind the back of each that pins it.
  Four suite plans: two cells with a retry, three cells on two metrics, one over its budget,
  one whose trigger mode contradicts its oracle. Traces have four events (`MaxEvents`): a
  whole turn is three, one more is out of place somewhere.

## 6. Fairness

- `RecordStoreRetry`: weak fairness of the steps of a running call and of calling
  again, strong fairness of taking the lock: `threading.Lock` has no queue, but a
  waiter is not shut out for ever while others release the lock again and again.
  None of crashes or failures, which are bounded.
- `ProcessContainment`: weak fairness of the caller's thread, and of time as one condition,
  because any of the deadlines may be the next. **Nothing** of the children or of the three
  worker threads: the joins have a deadline, which is the point of `CallReturns`.
- `LineageWalk`: weak fairness of the loop, which runs in one call.
- `Interruption`: weak fairness of the parent, of each clock that can run out, and of
  the death of a worker that was killed; nothing of a child or of a training step. The
  parent may still crash, which ends its call.
- Elsewhere no liveness is claimed and no fairness is assumed.

## 7. The proofs

Checked by TLAPS for every value of the constants that satisfies the modules'
named assumptions, which TLC evaluates in every run.

| Module | Theorems | Argument |
| --- | --- | --- |
| `RecordStoreProofs`, any number of processes | `TypeCorrect`, `StoreAlwaysWhole`, `AppendOnlyBytes` | `WholeInv`: nothing torn is visible; a staged file is intact from `Write` on; from the link on, the record of a call is on disk; what a call read of the manifest is on disk, and stays there because no step removes a file. |
| `RecordStoreProofs`, one root lock | `IdsUnique`, `OrphanAlone`, `ReceiptsKept`, `ConflictsReal`, `AnswersTrue`, `ReceiptsOverWhole`, `WedgeStays`, `ImplementsRegistry` | `MutexInv`: a call past `Acquire` holds the lock, so the others stand still. Therefore `CallInv`: what it read is the manifest as it is, its record is unregistered and its id free, and any orphan on disk is its own. `FreshInv` describes a store before its first manifest. For `AnswersTrue`, `CalmInv`: as long as nothing has failed, the manifest lists every file there is (`Settled`), or there is no store, or a publish is under way. The refinement maps `ReplaceManifest` to `Register`, `ReturnReceipt` and `Replay` to `Attest`, and all else to stuttering. |
| `RecordStoreProofs`, edited files | `EditsAreNoticed`, `NothingIsOverwritten` | `TamperInv`: as long as no edit has raced a call, the call in the locked block `Knows` that the store is as it found it, and that it found it in order (`PublishableIsUndamaged`) or not there at all (`NoRoot`); an edit that races no call meets nobody in the block (`EditKeeps`). Conversely such a store has no other finding (`UndamagedFindings`). For any number of edits. |
| `ProcessContainmentProofs` | `ReportIsTruthful`, `FirstCauseStands`, `CaptureIsFinal` | For any number of processes and any limits. `GroupKept`: once the cleanup is verified the group is empty, and stays so, because a process joins it only through a living member. `BytesAccounted`: every byte is in the buffer or in the pipe until a reader stops, and without a cause it stops only at the end of its stream. `ThreadsJudged`: a thread that outlived its join is a cause. `FailureBlamed`: a cleanup goes wrong only after a failing call or a deadline. |
| `CollaborationWindowProofs` | `WindowIsTruthful`, `NothingIsPassedOver`, `FailuresAreReceipted`, `HardBudgetKept` | `InHand` ties the observation in hand to the attempt and the world it came from; `SeenInHand` that what is seen of an answered attempt is what `Observed` makes of it; `InOrder` says which outcomes exist; `InBudget` that each accountable outcome is within its ticket's limit (the sum then follows from the plan's admission); `InTheWorld` that whatever is left behind belongs to the ticket in hand or to a failed outcome. |
| `DeclaredGraphsProofs`, lineages | `WalkIsSound`, `WalkIsExact` | `LineageShape`: the path is a walk without repetition, marked 1, all else 0 or 2; `PathStaysIn`: whoever is on a cycle and on the path leads to the rest of it; `ClosedIsCycle`: the part of the path from its repeated record on is a smallest loop. Completeness: a cycle whose records are all done has been named. |
| `DeclaredGraphsProofs`, studies | `ExperimentsAreIsolated` | For any number of sections and rows. The elimination removes, round by round, what nothing pins; after as many rounds as there are sections (`LeftAfterRounds`) what is left is pinned from within, so its pins form a loop (`KeptIsLoop`) and each member is on a cycle (`OnSomeCycle`): `LeftIsCycles`. Every allowed pin leads upward (`UpstreamIsLower`), so that a cycle misdirects a pin (`CycleMisdirected`), and an accepted case is in order (`AcceptedOrder`, `VerdictsMeanOrder`). For rows: sessions in order keep their distances (`TimesApart`), and a row is validated by one fold on each level (`NestedApart`). |
| `DeclaredGraphsProofs`, claims | `ClaimsAreGrounded` | `CeilingOf` reads the level of a claim off the evidence, which more evidence never lowers (`CeilingGrows`); `ContractSane`: the contract of an assessment selects on a declared partition, and the assessment is what `validate_claim` admits. Two seeds counted are two different seeds (`SeedsDiffer`). |
| `DeclaredGraphsProofs`, patterns and offers | `PatternsAreSound`, `OffersAreJustified` | `MemoryInv`: evidence is carried, and each snapshot was made from an earlier one that could move to its status (`Linked`); along a chain these links add up (`ChainsGoForward`), because the recursion of `ChainTo` always leads to an earlier position (`ChainExists`). For the offers, `OfferInv`: the last offer is what `Best` gave for a set of versions that are all published, and is judged by these alone, so that later versions change nothing. `Before` is a strict total order, since scores compare as fractions do (`GreaterIsOrder`); in such an order of a finite set each place is held by exactly one member (`Ranked`), which is what the sort and its limit rest on. |
| `DeclaredGraphsProofs`, clusters | `ClustersAreJustified` | Each of the first three tiers groups by a key (`KeyGroupsAre`), which is the reason it gives. For the last, `Proposed` is kept by every case that joins (`JoinKeeps`): the groups are apart, hold exactly the cases placed so far, and cannot be cut in two without cutting a similarity. |
| `DeclaredGraphsProofs`, heuristics | `HeuristicsAreSound` | `HeuristicInv` for the lifecycle. For the linter, `Searching` is the invariant of the depth-first search: the open rules are those on the stack, each citing the next; the cycles found are real (`CycleIsReal`); and while there is none, what is done yields only to what is done, and never to itself. That a visit does its work (`VisitedAs`) goes by the room left on the stack, one name cited after another (`FollowAllIs`). `YieldsTo` relates the ends of every walk over citations that is no longer than the registry (`WalkYields`), and leads out of no closed set (`Confined`). Hence `CleanAgrees`, in both directions. |
| `CheckpointedRunProofs` | `RunTyped`, `ResumptionIsExact`, `ResultsAreTruthful`, `BudgetIsCumulative` | `SaysTrue`: every checkpoint held, or made in this call, says what the uninterrupted run says of its step, and its best reference is the best step of that state (`Exact`). For the result, `InvR`: the candidates of a call are in a row, between calls every best reference names a payload that is held (`BestHeld`), and no candidate beats the best (`NoneBetter`). For the budget, `TightestIsLeast`: the dimension the plan chooses leaves no more room than any other, so that a step within it is within all caps (`NextStepFits`), with the prior steps counted once (`Within`). |
| `RecordGraphProofs` | `BadNewsStays`, `ExportsAreJustified`, `OkIsSound`, `NewcomersAreBlamed` | Edges of a growing store only ever grow, or change owner where an id is shared; in the second case the duplicate id is the news that stays. For `OkIsSound`: what is reached from a closed set stays in it (`ReachedWithin`), and a package of a sound store is closed (`PackageComplete`); a line that came back to its record would be a walk along edges, hence a `Loop` (`LineageForward`). For `NewcomersAreBlamed`: nothing old names a newcomer (`NewIsUnnamed`), so a new cycle would enter its id from another family; but the edges of a family stay in it, the newcomer's own leads into its family, and a loop, which enters each id once, has no edge left to lead out again (`NoLeak`, `NoNewCycle`). |
| `SkillPipelineProofs`, jobs | `NothingVouchedOverLeftovers`, `FailuresAreGenuine`, `SmokesAreJustified`, `ProposalsAreGrounded` | For any plans and any answers of the executors. `JobInv`: arms run in the order of their kind, each observation is `Consistent` with the workspace and the processes it left, and the root stays until it is dealt with. `ConclusionSound` draws from it what each status says; `ProposalKept` carries the independence of the cases from the plan to the four records; that every other end of a job leaves the records alone is read off the conclusions, the only steps that write them. |
| `SkillPipelineProofs`, desk | `EvaluationsAreReviewed`, `ContextsAreGoverned`, `ClosuresAreOrdered` | `DeskInv`: every record is made from the records it pins, whatever has been remade since, and so a chain of equal pins is one chain of reviews. `OrderInv`: a closure is an order in which each member is the first of those ready (`Chosen`); that such an order lists everything after what it needs is `OrderWhole`. |
| `SkillPipelineProofs`, trace | `TurnsAreAttested` | `TraceRead`: the locals of the loop say what has been read, or the trace is `Defective` and remains so, however long it is. |
| `SkillPipelineProofs`, suite | `TrialsAreJustified` | `SuiteInv`: the rows are in the order of the plan, the calls made are the attempts of the rows and of the arm under way (`OneMore`), each row within its envelope. A comparison is made of rows that are all there (`ArmsInRow`, `GridHolds`), its gates are those of the rows (`FoldManySays`), and what survives Holm's procedure has a raw value within the corrected limit (`HolmCorrects`). `EvaluationSound` is the replay on its own. |
| `InterruptionProofs` | `RecoveriesAreExact`, `NothingIsLeftRunning` | For any number of calls on one directory and any fixtures. The shapes say who may have deviated: what is resumed carries deviants of the source and the resumed stage, the control only of its own, so two equal ones carry none. `ResultsNamed` and `AnswersNamed` trace a result to the worker that wrote it, `SignalsAnnounced` a signal to the child that announced it. Where the call is `alone` (`Apart`), only its own child and workers can have written (`AloneWriting` to `AloneResuming`). |

The theorems rest on named assumptions about what is given from outside, each of which some
line of the code enforces or some caller's type implies: in `SkillPipeline` those about
plans (`PlansAssumption`: the fields a validated plan has, a metric's role, an error rate
below one), answers (`AnswersAssumption`), manifests (`ManifestsAssumption`), events
(`EventsAssumption`) and replays (`ReplaysAssumption`: a clock read for every attempt); in
`RecordGraph` `DraftsAssumption`, what the families' schemas leave of a draft: only the five
lineage families have a `supersedes` field, and the references from run to task, observation
to run, analysis to observation, case to task, receipt to decision and decision to case are
objects with a mandatory digest; in `MLStudy` `StudyAssumption`, what the schemas of cases
and contracts and the runner's `_validate_dataset` leave of them: each section of a known
kind, with one dataset, one split and one selection, each step with a scope of its own kind
(`CaseShape`), sessions and gaps that are integers and folds that are lists of sets of rows
(`DataShape`); in the research memory `MemoryAssumption` (names and answers of cases, finite
signatures, terminal statuses, limits from one to five), `HeuristicAssumption` (whether a
text negates and whether its rollback is vacuous are yes or no, exceptions name positions,
and one statement has one set of words) and `ThresholdAssumption` (a positive fraction, at
most one); and in `RecordStoreOneProcess` the one lock. `TamperingAssumption` bounds the
edits, for TLC; no proof uses it.

Induction over data is done over sets of numbers: a property that holds of 0 and is
passed on by every step up to *n* is shown with the least counterexample (`LeastOf`,
`UpTo`), and a recursive function over an interval is shown to be what its definition
says with an explicit construction (`Recursion`, `AttemptsSummed`, `OrderChosen`).

Why the invariants have to be stronger than the properties: `OneContentPerId` is not
inductive, because a call that is about to replace the manifest could have read an
old one; it becomes so with `MutexInv` and `CallInv`. The same holds of
`ReturnedTruthful`, which says nothing about a window that is still running.

Proved and not checked by a run of their own, because the refinement or a
stronger property shows them too: `OneContentPerId` (`IdsUnique`), `ReceiptsDurable`
(`ReceiptsKept`), `BytesNeverChange` (`AppendOnlyBytes`), `ReceiptMeansClean`
(`ReceiptsOverWhole`), `ConflictJustified` (`ConflictsReal`), `WedgeIsLeftAlone`
(`WedgeStays`), `OnlyCyclesNamed` (`WalkIsSound`), `SmokeJustified`, a part of
`TrialsJustified` (`SmokesAreJustified`), and the types. `CaptureIsFinal` says that what
the caller is told of the streams no longer changes.

Every safety property of the passing runs is a theorem. Only model-checked are the
liveness properties (`RetriesHeal`, `CallReturns`, `WalkEnds`, `CallEnds`), which rest on
fairness and are beyond the prover. The modules use no recursive operator: every
recursion is a function, so that all of them could be reasoned about.

## 8. Where the code and its documents disagree

Found while modelling. Item 3 has a run that shows it and a quotation in
`PROJECT.json`; the others can be read off the code and the definitions named.

1. **First publish** (`_store.py`): an interrupted first publish is documented to
   leave `manifest_missing`. Cut between the two directories, it leaves an empty root
   that verifies as ok and that nothing can be published into (`Wedged`; `WedgeStays`
   says that later calls leave it as it is).
2. **Lost receipt** (ADR 0028): a worker that proposed a future route and whose
   workspace cannot be removed ends in an exception, and the receipts of the earlier
   tickets are lost with it (the first exception that `FailureReceipted` names).
3. **Best not recorded** (ADR 0009): with early stopping, a result is to record both the
   best and the last checkpoint. With retention `all` a call lists its own checkpoints
   only: one that resumes after the best step does not record the best, and selects a
   state early stopping did not choose.
4. **Overspent** (ADR 0028 and a comment): the case of item 2, for a worker that reported itself
   inconclusive after overspending: the second exception that `FailureReceipted` names.
5. **Partial commit** (`_errors.py`): a failing manifest step is documented to leave
   nothing. The record file stays, unregistered, until that record is published again
   (`LinkRecord` followed by `IoError`; `AtMostOneOrphan` and `RetriesHeal` say what
   is true instead).
6. **Hidden cycle** (`_graph.py`): a cycle of claims is no longer named once another
   family reuses an id on it (`Edges` has one map for all families). The store is
   still rejected, for the duplicate id.
7. **Singletons** (`clustering.py`): the last tier is described as single linkage, and a
   singleton as a case nothing matched. Cases join the first similar group in the order
   of their names and groups are never merged, so a case similar to a later, bridging
   one may stay alone or in another group. `ClustersJustified` says what holds.

Not divergences, but worth knowing when reading a result:

- In all three agent jobs the check of the temporary root precedes the `try`; if it
  raises, the root is left (`abandoned` in `LeftoversNeverVouched`).
- A capture validates the records of a qualified failure after the clean-up and outside of
  any `try`: a text the plan let through and the chain does not costs the whole run.
- A proposal does not ask whether its cases were ever captured, only whether they are
  eligible records that the pattern pins.
- A mismatched evaluator gives the verdict "fail", so that a capture may qualify a
  failure that is none of the agent's. Without floors a wrong answer still passes.
- The independence of cases is pairwise, and the eligibility in a proposal is declared
  by the proposer. An assessment that comes out ineligible later does not withdraw a
  bundle drafted before it; a bundle drafted directly is not tied to the manifest's patch.
- Holm-adjusted p-values decide the primary metrics only; "regression supported" of a
  guardrail rests on its interval alone.
- The synthetic runner does not judge the declared topology again, which is the
  adapter's duty: under a contract written by hand it runs a case nobody judged.
- An asserted failure of a claim is "refuted" by any evidence of the claim's kind, a
  synthetic run included.
- The linter counts a rejected heuristic that is the tip of its chain, and refuses as a
  duplicate a fork whose text is unchanged.
- Stage results of a recovery carry no nonce: with an orphan of an earlier call in the
  same directory, a checkpoint of the same fixture written by the orphan may be taken,
  and a child may be killed while it still announces. Nor do they name the fixture
  (`_validate_stage` in `pytorch_recovery.py` checks role, runtime and counts): workers of two
  earlier calls on another fixture, both left running by parents that died, could answer
  for both stages. The two-call run cannot show it; the theorem, which holds for any number
  of calls, has to allow for it. That the two stages agree, undisturbed, holds in every
  case; `RecoveryExact` says more only where the call is `alone`.

## 9. What is not modelled

- *Record loading, path and restricted-content rules, redaction*: pure functions of
  bytes (JSON, schemas, canonical form, regular expressions). Other modules take their
  outcome as a choice.
- *Command line, meta-tests, reports, scripts*: callers of the interfaces above and
  renderings of records; no state of their own.
- *Mathematics and quant adapters; deep learning selection, studies
  and external trials; PyTorch observation, reproducibility and portability*: decision
  tables over one input and floating point. The selection policy is planned as operators.
- *Promotion* is an empty package.
- The Windows branches of containment and of the store's path checks.
- Durability across power loss: `_store.py` fsyncs files but not directories; the
  model's crash is the death of a process. Reuse of process ids after a group is gone.
  Both hazards are listed without a property.
- Floating point arithmetic, sampling of resamples and permutations beyond the exact
  limit. In `CheckpointedRun` a loss is a number or not finite; the network behind it,
  and runner 0.1.0, which has no checkpoints, are left out.
- Inside modelled components: the models, metrics and scores of the synthetic runner and
  `normalize_task`; reuse events and the tallies of heuristics, the linter's notes that
  reject nothing, the hash-chained log of cluster events, checkers, rubrics and judges as
  scorers.
- The wording of messages, and lists that are information only (forks of a lineage).

`PROJECT.json` has the status of every component.

## 10. The plan

What would be added next, in this order:

1. Models: the PyTorch repeat runner and its portability receipts as a second user of
   the worker protocol; the selection policy; the event log of clusters.

The set of runs is kept small on purpose: a component joins a run of the components it
composes with, and a run whose question a theorem answers in full made room for another.
