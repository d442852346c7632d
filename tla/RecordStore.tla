---------------------------- MODULE RecordStore ----------------------------
(***************************************************************************)
(* core/_store.py and core/publication.py: the append-only record store    *)
(* under one root directory, and the threads that call publish_record and  *)
(* verify_record_graph on it.                                              *)
(*                                                                         *)
(* Every system call that changes the store is a step of its own (mkdir,   *)
(* mkstemp, write+fsync, link, replace), because a thread of another       *)
(* process, an OSError or the death of the process can come between any    *)
(* two of them.  The root lock is process-local: threads share it exactly  *)
(* when DomainOf puts them in one lock domain (one process, one lexical    *)
(* spelling of the root).                                                  *)
(***************************************************************************)
EXTENDS Naturals, FiniteSets

CONSTANTS Thread,     \* callers of the two public operations
          Domain,     \* lock domains: a process together with a root spelling
          DomainOf,   \* the domain a thread belongs to
          Record,     \* validated records; a record stands for its SHA-256 too
          Id,         \* logical identities (schema family and id)
          IdOf,       \* identity_of
          Rank,       \* the order in which the sorted scan meets the files
          NoThread,   \* value of a free lock
          NoRecord,   \* the finding is about no record file
          MaxFaults   \* bound on crashes and failing system calls

ASSUME ConstantsAssumption ==
    /\ DomainOf \in [Thread -> Domain]
    /\ IdOf \in [Record -> Id]
    /\ Rank \in [Record -> Nat]
    /\ \A q, r \in Record : Rank[q] = Rank[r] => q = r
    /\ NoThread \notin Thread
    /\ NoRecord \notin Record
    /\ Record # {}
    /\ MaxFaults \in Nat

VARIABLES
    rootDir,    \* the root exists and is a directory
    recordsDir, \* records/ exists and is a directory
    disk,       \* content under each content-derived file name
    manifest,   \* manifest.json: its state, and its entries when parseable
    lock,       \* _ROOT_LOCKS
    pc,         \* where a call is
    op,         \* which operation the call runs
    rec,        \* the record being published
    snap,       \* the manifest as this call read it
    temp,       \* the file the call has staged in .tmp/
    found,      \* the findings of the call's reconciliation
    outcome,    \* how the thread's last call ended
    receipts,   \* history: records some call returned a receipt for
    faults      \* crashes and failed system calls so far

diskVars == <<rootDir, recordsDir, disk, manifest>>
callVars == <<op, rec>>
vars == <<diskVars, lock, pc, callVars, snap, temp, found, outcome, receipts, faults>>

-----------------------------------------------------------------------------
(* Types *)

\* "torn": bytes that do not match the content-derived name.
FileState == {"absent", "torn", "intact"}

\* "reformatted" parses but differs from the deterministic rebuild;
\* "malformed" does not parse.  Entries are only read from the other two.
ManifestState == {"absent", "canonical", "reformatted", "malformed"}
Manifest == [state : ManifestState, entries : SUBSET Record]

NoManifest == [state |-> "absent", entries |-> {}]

\* Steps that change the store; an OSError there is wrapped, never leaked.
WriteSteps == {"mkroot", "mkrecords", "stageRecord", "writeRecord", "link",
               "stageManifest", "writeManifest", "replace"}
Steps == {"idle", "lock", "read", "scan", "return"} \cup WriteSteps

FindingKind == {"store_root_missing", "manifest_missing", "manifest_malformed",
                "manifest_not_deterministic", "store_unreadable", "record_invalid",
                "duplicate_record", "missing_record", "extra_record"}
Finding == FindingKind \X (Record \cup {NoRecord})

Outcome == {"none", "created", "already", "conflict", "refused", "failed",
            "ok", "violations"}

TypeOK ==
    /\ rootDir \in BOOLEAN
    /\ recordsDir \in BOOLEAN
    /\ disk \in [Record -> FileState]
    /\ manifest \in Manifest
    /\ lock \in [Domain -> Thread \cup {NoThread}]
    /\ pc \in [Thread -> Steps]
    /\ op \in [Thread -> {"publish", "verify"}]
    /\ rec \in [Thread -> Record]
    /\ snap \in [Thread -> Manifest]
    /\ temp \in [Thread -> FileState]
    /\ found \in [Thread -> SUBSET Finding]
    /\ outcome \in [Thread -> Outcome]
    /\ receipts \in SUBSET Record
    /\ faults \in Nat

Init ==
    /\ rootDir = FALSE
    /\ recordsDir = FALSE
    /\ disk = [r \in Record |-> "absent"]
    /\ manifest = NoManifest
    /\ lock = [d \in Domain |-> NoThread]
    /\ pc = [t \in Thread |-> "idle"]
    /\ op = [t \in Thread |-> "verify"]
    /\ rec = [t \in Thread |-> CHOOSE r \in Record : TRUE]
    /\ snap = [t \in Thread |-> NoManifest]
    /\ temp = [t \in Thread |-> "absent"]
    /\ found = [t \in Thread |-> {}]
    /\ outcome = [t \in Thread |-> "none"]
    /\ receipts = {}
    /\ faults = 0

-----------------------------------------------------------------------------
(* reconcile_store *)

Intact == {r \in Record : disk[r] = "intact"}
Torn == {r \in Record : disk[r] = "torn"}

\* The walk is sorted by path; of two clean files with one identity only the
\* first is loaded, the second is a duplicate.  A file in dark could not be read.
Loaded(dark) ==
    {r \in Intact \ dark :
        \A q \in Intact \ dark : IdOf[q] = IdOf[r] => Rank[r] <= Rank[q]}

\* What a call knows of a manifest.json that it could not read
UnreadManifest == [state |-> "unreadable", entries |-> {}]

When(condition, findings) == {f \in findings : condition}

\* What the walk of records/ reports against the manifest m read before it.
Findings(m, dark) ==
    LET parsed == m.state \in {"canonical", "reformatted"} IN
    When(m.state = "absent" /\ recordsDir, {<<"manifest_missing", NoRecord>>})
    \cup When(m.state = "malformed", {<<"manifest_malformed", NoRecord>>})
    \cup When(m.state = "unreadable", {<<"store_unreadable", NoRecord>>})
    \cup {<<"store_unreadable", r>> : r \in dark}
    \cup {<<"record_invalid", r>> : r \in Torn \ dark}
    \cup {<<"duplicate_record", r>> : r \in (Intact \ dark) \ Loaded(dark)}
    \cup When(parsed, {<<"missing_record", r>> : r \in m.entries \ (Intact \cup Torn)})
    \cup When(parsed, {<<"extra_record", r>> : r \in Loaded(dark) \ m.entries})
    \cup When(m.state = "reformatted", {<<"manifest_not_deterministic", NoRecord>>})

-----------------------------------------------------------------------------
(* The public operations *)

BeginPublish(t, r) ==
    /\ pc[t] = "idle"
    /\ pc' = [pc EXCEPT ![t] = "lock"]
    /\ op' = [op EXCEPT ![t] = "publish"]
    /\ rec' = [rec EXCEPT ![t] = r]
    /\ outcome' = [outcome EXCEPT ![t] = "none"]
    /\ found' = [found EXCEPT ![t] = {}]
    /\ UNCHANGED <<diskVars, lock, snap, temp, receipts, faults>>

BeginVerify(t) ==
    /\ pc[t] = "idle"
    /\ pc' = [pc EXCEPT ![t] = "lock"]
    /\ op' = [op EXCEPT ![t] = "verify"]
    /\ outcome' = [outcome EXCEPT ![t] = "none"]
    /\ found' = [found EXCEPT ![t] = {}]
    /\ UNCHANGED <<diskVars, lock, rec, snap, temp, receipts, faults>>

\* Mutant of Acquire: no mutual exclusion.
AcquireShared(t) ==
    /\ pc[t] = "lock"
    /\ lock' = [lock EXCEPT ![DomainOf[t]] = t]
    /\ pc' = [pc EXCEPT ![t] = "read"]
    /\ UNCHANGED <<diskVars, callVars, snap, temp, found, outcome, receipts, faults>>

\* Mutant of Acquire: verification reads without the lock.
AcquireToPublish(t) ==
    /\ pc[t] = "lock"
    /\ op[t] = "verify" \/ lock[DomainOf[t]] = NoThread
    /\ lock' = [lock EXCEPT ![DomainOf[t]] = t]
    /\ pc' = [pc EXCEPT ![t] = "read"]
    /\ UNCHANGED <<diskVars, callVars, snap, temp, found, outcome, receipts, faults>>

Acquire(t) ==
    /\ pc[t] = "lock"
    /\ lock[DomainOf[t]] = NoThread
    /\ lock' = [lock EXCEPT ![DomainOf[t]] = t]
    /\ pc' = [pc EXCEPT ![t] = "read"]
    /\ UNCHANGED <<diskVars, callVars, snap, temp, found, outcome, receipts, faults>>

\* Leaving the `with lock_for_root(...)` block, by return or by exception: the
\* lock is released, what the call had read is gone.
Leave(t, o) ==
    /\ lock' = [lock EXCEPT ![DomainOf[t]] = NoThread]
    /\ pc' = [pc EXCEPT ![t] = "idle"]
    /\ snap' = [snap EXCEPT ![t] = NoManifest]
    /\ outcome' = [outcome EXCEPT ![t] = o]

ReadManifest(t) ==
    /\ pc[t] = "read"
    /\ rootDir
    /\ snap' = [snap EXCEPT ![t] = manifest]
    /\ pc' = [pc EXCEPT ![t] = "scan"]
    /\ UNCHANGED <<diskVars, lock, callVars, temp, found, outcome, receipts, faults>>

\* publish_record on a root that does not exist yet: an empty store.
FreshRoot(t) ==
    /\ pc[t] = "read"
    /\ op[t] = "publish"
    /\ ~rootDir
    /\ snap' = [snap EXCEPT ![t] = NoManifest]
    /\ pc' = [pc EXCEPT ![t] = "mkroot"]
    /\ UNCHANGED <<diskVars, lock, callVars, temp, found, outcome, receipts, faults>>

VerifyNoRoot(t) ==
    /\ pc[t] = "read"
    /\ op[t] = "verify"
    /\ ~rootDir
    /\ found' = [found EXCEPT ![t] = {<<"store_root_missing", NoRecord>>}]
    /\ Leave(t, "violations")
    /\ UNCHANGED <<diskVars, callVars, temp, receipts, faults>>

Verify(t) ==
    /\ pc[t] = "scan"
    /\ op[t] = "verify"
    /\ found' = [found EXCEPT ![t] = Findings(snap[t], {})]
    /\ Leave(t, IF Findings(snap[t], {}) = {} THEN "ok" ELSE "violations")
    /\ UNCHANGED <<diskVars, callVars, temp, receipts, faults>>

\* Mutants of Publishable: any orphan is tolerated; only findings about the record
\* itself count.
PublishableOverOrphans(t) ==
    /\ Findings(snap[t], {}) \subseteq {<<"extra_record", r>> : r \in Record}
    /\ snap[t].state # "absent"
PublishableByOwnFindings(t) ==
    /\ {f \in Findings(snap[t], {}) : f[2] = rec[t]} \subseteq {<<"extra_record", rec[t]>>}
    /\ snap[t].state # "absent"

\* The one tolerated finding is the unregistered file of this very record; a
\* reconciliation that yields no manifest hash is refused as well.
Publishable(t) ==
    /\ Findings(snap[t], {}) \subseteq {<<"extra_record", rec[t]>>}
    /\ snap[t].state # "absent"

Registered(t) == {q \in snap[t].entries : IdOf[q] = IdOf[rec[t]]}

Refuse(t) ==
    /\ pc[t] = "scan"
    /\ op[t] = "publish"
    /\ ~Publishable(t)
    /\ found' = [found EXCEPT ![t] = Findings(snap[t], {})]
    /\ Leave(t, "refused")
    /\ UNCHANGED <<diskVars, callVars, temp, receipts, faults>>

Conflict(t) ==
    /\ pc[t] = "scan"
    /\ op[t] = "publish"
    /\ Publishable(t)
    /\ Registered(t) \notin {{}, {rec[t]}}
    /\ Leave(t, "conflict")
    /\ UNCHANGED <<diskVars, callVars, temp, found, receipts, faults>>

Replay(t) ==
    /\ pc[t] = "scan"
    /\ op[t] = "publish"
    /\ Publishable(t)
    /\ Registered(t) = {rec[t]}
    /\ receipts' = receipts \cup {rec[t]}
    /\ Leave(t, "already")
    /\ UNCHANGED <<diskVars, callVars, temp, found, faults>>

Admit(t) ==
    /\ pc[t] = "scan"
    /\ op[t] = "publish"
    /\ Publishable(t)
    /\ Registered(t) = {}
    /\ pc' = [pc EXCEPT ![t] = "mkrecords"]
    /\ UNCHANGED <<diskVars, lock, callVars, snap, temp, found, outcome, receipts,
                   faults>>

-----------------------------------------------------------------------------
(* create_record_file and replace_manifest, one system call at a time *)

MakeRoot(t) ==
    /\ pc[t] = "mkroot"
    /\ rootDir' = TRUE
    /\ pc' = [pc EXCEPT ![t] = "mkrecords"]
    /\ UNCHANGED <<recordsDir, disk, manifest, lock, callVars, snap, temp, found, outcome,
                   receipts, faults>>

MakeRecordsDir(t) ==
    /\ pc[t] = "mkrecords"
    /\ recordsDir' = TRUE
    /\ pc' = [pc EXCEPT ![t] = "stageRecord"]
    /\ UNCHANGED <<rootDir, disk, manifest, lock, callVars, snap, temp, found, outcome,
                   receipts, faults>>

\* Mutant of Stage: the file is committed before its bytes are written.
StageUnwritten(t) ==
    /\ pc[t] \in {"stageRecord", "stageManifest"}
    /\ temp' = [temp EXCEPT ![t] = "torn"]
    /\ pc' = [pc EXCEPT ![t] = IF pc[t] = "stageRecord" THEN "link" ELSE "replace"]
    /\ UNCHANGED <<diskVars, lock, callVars, snap, found, outcome, receipts, faults>>

\* mkstemp: an empty file in .tmp/, under a name no other call can hold.
Stage(t) ==
    /\ pc[t] \in {"stageRecord", "stageManifest"}
    /\ temp' = [temp EXCEPT ![t] = "torn"]
    /\ pc' = [pc EXCEPT ![t] = IF pc[t] = "stageRecord" THEN "writeRecord"
                                                         ELSE "writeManifest"]
    /\ UNCHANGED <<diskVars, lock, callVars, snap, found, outcome, receipts, faults>>

\* write, flush and fsync of the staged file.
Write(t) ==
    /\ pc[t] \in {"writeRecord", "writeManifest"}
    /\ temp' = [temp EXCEPT ![t] = "intact"]
    /\ pc' = [pc EXCEPT ![t] = IF pc[t] = "writeRecord" THEN "link" ELSE "replace"]
    /\ UNCHANGED <<diskVars, lock, callVars, snap, found, outcome, receipts, faults>>

\* Mutant of LinkRecord: a rename, which overwrites.
RenameRecord(t) ==
    /\ pc[t] = "link"
    /\ disk' = [disk EXCEPT ![rec[t]] = temp[t]]
    /\ temp' = [temp EXCEPT ![t] = "absent"]
    /\ pc' = [pc EXCEPT ![t] = "stageManifest"]
    /\ UNCHANGED <<rootDir, recordsDir, manifest, lock, callVars, snap, found, outcome,
                   receipts, faults>>

\* os.link never overwrites: the name is new, or its bytes are compared.  (Other bytes
\* under it take an editor: RejectForeignBytes of RecordStoreTampering.)
LinkRecord(t) ==
    /\ pc[t] = "link"
    /\ disk[rec[t]] = "absent"
    /\ disk' = [disk EXCEPT ![rec[t]] = temp[t]]
    /\ temp' = [temp EXCEPT ![t] = "absent"]
    /\ pc' = [pc EXCEPT ![t] = "stageManifest"]
    /\ UNCHANGED <<rootDir, recordsDir, manifest, lock, callVars, snap, found, outcome,
                   receipts, faults>>

\* Mutant of AdoptRecord: an existing file is an error whatever its bytes.
AdoptNothing(t) ==
    /\ pc[t] = "link"
    /\ disk[rec[t]] = "intact"
    /\ temp' = [temp EXCEPT ![t] = "absent"]
    /\ Leave(t, "failed")
    /\ UNCHANGED <<diskVars, callVars, found, receipts, faults>>

AdoptRecord(t) ==
    /\ pc[t] = "link"
    /\ disk[rec[t]] = "intact"
    /\ temp' = [temp EXCEPT ![t] = "absent"]
    /\ pc' = [pc EXCEPT ![t] = "stageManifest"]
    /\ UNCHANGED <<diskVars, lock, callVars, snap, found, outcome, receipts, faults>>

\* os.replace of manifest.json by the rebuilt index of what this call read.
ReplaceManifest(t) ==
    /\ pc[t] = "replace"
    /\ manifest' = IF temp[t] = "intact"
                   THEN [state |-> "canonical", entries |-> snap[t].entries \cup {rec[t]}]
                   ELSE [state |-> "malformed", entries |-> {}]
    /\ temp' = [temp EXCEPT ![t] = "absent"]
    /\ pc' = [pc EXCEPT ![t] = "return"]
    /\ UNCHANGED <<rootDir, recordsDir, disk, lock, callVars, snap, found, outcome, receipts,
                   faults>>

ReturnReceipt(t) ==
    /\ pc[t] = "return"
    /\ receipts' = receipts \cup {rec[t]}
    /\ Leave(t, "created")
    /\ UNCHANGED <<diskVars, callVars, temp, found, faults>>

-----------------------------------------------------------------------------
(* Failures *)

\* Any of the system calls raises OSError: the staged file is removed (or is
\* left in .tmp/, which nothing reads) and StoreIntegrityError is raised.
IoError(t) ==
    /\ faults < MaxFaults
    /\ pc[t] \in WriteSteps
    /\ temp' = [temp EXCEPT ![t] = "absent"]
    /\ faults' = faults + 1
    /\ Leave(t, "failed")
    /\ UNCHANGED <<diskVars, callVars, found, receipts>>

\* manifest.json or a record file cannot be read: a finding, never an exception.
ReadError(t) ==
    /\ faults < MaxFaults
    /\ pc[t] = "scan"
    /\ \/ found' = [found EXCEPT ![t] = Findings(UnreadManifest, {})]
       \/ \E r \in Intact \cup Torn : found' = [found EXCEPT ![t] = Findings(snap[t], {r})]
    /\ faults' = faults + 1
    /\ Leave(t, IF op[t] = "publish" THEN "refused" ELSE "violations")
    /\ UNCHANGED <<diskVars, callVars, temp, receipts>>

\* The process of domain d dies: its calls vanish, what is on disk stays.
Crash(d) ==
    LET victims == {t \in Thread : DomainOf[t] = d} IN
    /\ faults < MaxFaults
    /\ \E t \in victims : pc[t] # "idle"
    /\ pc' = [t \in Thread |-> IF t \in victims THEN "idle" ELSE pc[t]]
    /\ temp' = [t \in Thread |-> IF t \in victims THEN "absent" ELSE temp[t]]
    /\ snap' = [t \in Thread |-> IF t \in victims THEN NoManifest ELSE snap[t]]
    /\ outcome' = [t \in Thread |-> IF t \in victims THEN "none" ELSE outcome[t]]
    /\ lock' = [lock EXCEPT ![d] = NoThread]
    /\ faults' = faults + 1
    /\ UNCHANGED <<diskVars, callVars, found, receipts>>

-----------------------------------------------------------------------------

\* The steps a call takes once it is under way.
CallStep(t) ==
    \/ ReadManifest(t) \/ FreshRoot(t) \/ VerifyNoRoot(t) \/ Verify(t)
    \/ Refuse(t) \/ Conflict(t) \/ Replay(t) \/ Admit(t)
    \/ MakeRoot(t) \/ MakeRecordsDir(t) \/ Stage(t) \/ Write(t)
    \/ LinkRecord(t) \/ AdoptRecord(t)
    \/ ReplaceManifest(t) \/ ReturnReceipt(t)

Next ==
    \/ \E t \in Thread, r \in Record : BeginPublish(t, r)
    \/ \E t \in Thread : BeginVerify(t) \/ Acquire(t) \/ CallStep(t)
                      \/ IoError(t) \/ ReadError(t)
    \/ \E d \in Domain : Crash(d)

Spec == Init /\ [][Next]_vars

-----------------------------------------------------------------------------
(* What holds however many processes publish into one root *)

\* An interrupted publish never leaves a visible half-record or half-manifest
\* (module docstring of _store.py), and the manifest never lists a record whose
\* file is missing: a file appears only by link and by replace of bytes already
\* fsynced, the link of the record precedes the replace of the manifest on every
\* path, and no failure path takes a record file away again.
StoreWhole ==
    /\ Torn = {}
    /\ manifest.state \in {"absent", "canonical"}
    /\ manifest.entries \subseteq Intact

\* Published bytes are append-only: once a file is visible under a content-derived
\* name, no call of any process ever changes or removes it.
BytesNeverChange ==
    [][\A r \in Record : disk[r] # "absent" => disk'[r] = disk[r]]_vars
=============================================================================
