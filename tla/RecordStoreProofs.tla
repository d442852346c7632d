------------------------- MODULE RecordStoreProofs -------------------------
(***************************************************************************)
(* Theorems about the record store, for any number of threads, records and *)
(* faults.  The first part holds for any number of processes too: nothing  *)
(* in it uses the root lock or cites OneProcessAssumption.  In the second  *)
(* all callers share that lock: the registry is append-only, unique per    *)
(* logical id, and implements AppendOnlyRegistry.  In the third somebody   *)
(* else edits the files, between two calls or during one.                  *)
(***************************************************************************)
EXTENDS RecordStoreTampering, TLAPS

-----------------------------------------------------------------------------
(* Any number of processes                                                 *)

-----------------------------------------------------------------------------
(* Type correctness *)

LEMMA FindingsType ==
    ASSUME NEW m, m.entries \subseteq Record, NEW dark \in SUBSET Record
    PROVE  Findings(m, dark) \in SUBSET Finding
<1> DEFINE About(kind, rs) == {<<kind, r>> : r \in rs}
<1>1. \A kind \in FindingKind, rs \in SUBSET Record : About(kind, rs) \subseteq Finding
  BY DEF Finding
<1>2. \A kind \in FindingKind : {<<kind, NoRecord>>} \subseteq Finding
  BY DEF Finding
<1>3. \A b \in BOOLEAN, f \in SUBSET Finding : When(b, f) \subseteq Finding
  BY DEF When
<1>4. /\ Intact \subseteq Record /\ Torn \subseteq Record /\ Loaded(dark) \subseteq Record
  BY DEF Intact, Torn, Loaded
<1>5. /\ About("store_unreadable", dark) \subseteq Finding
      /\ About("record_invalid", Torn \ dark) \subseteq Finding
      /\ About("duplicate_record", (Intact \ dark) \ Loaded(dark)) \subseteq Finding
      /\ About("missing_record", m.entries \ (Intact \cup Torn)) \subseteq Finding
      /\ About("extra_record", Loaded(dark) \ m.entries) \subseteq Finding
  BY <1>1, <1>4 DEF FindingKind
<1>6. /\ {<<"manifest_missing", NoRecord>>} \subseteq Finding
      /\ {<<"manifest_malformed", NoRecord>>} \subseteq Finding
      /\ {<<"store_unreadable", NoRecord>>} \subseteq Finding
      /\ {<<"manifest_not_deterministic", NoRecord>>} \subseteq Finding
  BY <1>2 DEF FindingKind
<1> QED
  BY <1>3, <1>5, <1>6 DEF Findings, When

LEMMA TypeInit == Init => TypeOK
<1> SUFFICES ASSUME Init PROVE TypeOK
  OBVIOUS
<1>1. (CHOOSE r \in Record : TRUE) \in Record
  BY ConstantsAssumption
<1>2. NoManifest \in Manifest
  BY DEF NoManifest, Manifest, ManifestState
<1> QED
  BY <1>1, <1>2, ConstantsAssumption
     DEF Init, TypeOK, FileState, Steps, WriteSteps, Outcome, Finding

\* Leave keeps the types of what it assigns.
LEMMA LeaveType ==
    ASSUME TypeOK, NEW t \in Thread, NEW o \in Outcome, Leave(t, o)
    PROVE  /\ lock' \in [Domain -> Thread \cup {NoThread}]
           /\ pc' \in [Thread -> Steps]
           /\ snap' \in [Thread -> Manifest]
           /\ outcome' \in [Thread -> Outcome]
<1>1. NoManifest \in Manifest
  BY DEF NoManifest, Manifest, ManifestState
<1> QED
  BY <1>1, ConstantsAssumption DEF TypeOK, Leave, Steps

LEMMA TypeStep == TypeOK /\ [Next]_vars => TypeOK'
<1> SUFFICES ASSUME TypeOK, [Next]_vars PROVE TypeOK'
  OBVIOUS
<1> USE ConstantsAssumption
<1>0. NoManifest \in Manifest
  BY DEF NoManifest, Manifest, ManifestState
<1>1. ASSUME NEW t \in Thread, NEW r \in Record, BeginPublish(t, r) PROVE TypeOK'
  BY <1>1 DEF TypeOK, BeginPublish, diskVars, Steps, Outcome
<1>2. ASSUME NEW t \in Thread, BeginVerify(t) PROVE TypeOK'
  BY <1>2 DEF TypeOK, BeginVerify, diskVars, Steps, Outcome
<1>3. ASSUME NEW t \in Thread, Acquire(t) PROVE TypeOK'
  BY <1>3 DEF TypeOK, Acquire, diskVars, callVars, Steps
<1>4. ASSUME NEW t \in Thread, CallStep(t) PROVE TypeOK'
  <2>0. snap[t] \in Manifest /\ Findings(snap[t], {}) \in SUBSET Finding /\ rec[t] \in Record
    BY FindingsType DEF TypeOK, Manifest
  <2>1. CASE ReadManifest(t)
    BY <2>1 DEF TypeOK, ReadManifest, diskVars, callVars, Steps
  <2>2. CASE FreshRoot(t)
    BY <2>2, <1>0 DEF TypeOK, FreshRoot, diskVars, callVars, Steps, WriteSteps
  <2>3. CASE VerifyNoRoot(t)
    <3>1. {<<"store_root_missing", NoRecord>>} \in SUBSET Finding
      BY DEF Finding, FindingKind
    <3>2. Leave(t, "violations") /\ "violations" \in Outcome
      BY <2>3 DEF VerifyNoRoot, Outcome
    <3> QED
      BY <2>3, <3>1, <3>2, LeaveType DEF TypeOK, VerifyNoRoot, diskVars, callVars
  <2>4. CASE Verify(t)
    <3>1. \E o \in Outcome : Leave(t, o)
      BY <2>4 DEF Verify, Outcome
    <3> QED
      BY <2>0, <2>4, <3>1, LeaveType DEF TypeOK, Verify, diskVars, callVars
  <2>5. CASE Refuse(t)
    <3>1. \E o \in Outcome : Leave(t, o)
      BY <2>5 DEF Refuse, Outcome
    <3> QED
      BY <2>0, <2>5, <3>1, LeaveType DEF TypeOK, Refuse, diskVars, callVars
  <2>6. CASE Conflict(t)
    <3>1. \E o \in Outcome : Leave(t, o)
      BY <2>6 DEF Conflict, Outcome
    <3> QED
      BY <2>6, <3>1, LeaveType DEF TypeOK, Conflict, diskVars, callVars
  <2>7. CASE Replay(t)
    <3>1. \E o \in Outcome : Leave(t, o)
      BY <2>7 DEF Replay, Outcome
    <3> QED
      BY <2>0, <2>7, <3>1, LeaveType DEF TypeOK, Replay, diskVars, callVars
  <2>8. CASE Admit(t)
    BY <2>8 DEF TypeOK, Admit, diskVars, callVars, Steps, WriteSteps
  <2>9. CASE MakeRoot(t)
    BY <2>9 DEF TypeOK, MakeRoot, callVars, Steps, WriteSteps
  <2>10. CASE MakeRecordsDir(t)
    BY <2>10 DEF TypeOK, MakeRecordsDir, callVars, Steps, WriteSteps
  <2>11. CASE Stage(t)
    BY <2>11 DEF TypeOK, Stage, diskVars, callVars, Steps, WriteSteps, FileState
  <2>12. CASE Write(t)
    BY <2>12 DEF TypeOK, Write, diskVars, callVars, Steps, WriteSteps, FileState
  <2>13. CASE LinkRecord(t)
    BY <2>13 DEF TypeOK, LinkRecord, callVars, Steps, WriteSteps, FileState
  <2>14. CASE AdoptRecord(t)
    BY <2>14 DEF TypeOK, AdoptRecord, diskVars, callVars, Steps, WriteSteps, FileState
  <2>15. CASE ReplaceManifest(t)
    BY <2>0, <2>15 DEF TypeOK, ReplaceManifest, callVars, Steps, Manifest, ManifestState, FileState
  <2>16. CASE ReturnReceipt(t)
    <3>1. \E o \in Outcome : Leave(t, o)
      BY <2>16 DEF ReturnReceipt, Outcome
    <3> QED
      BY <2>0, <2>16, <3>1, LeaveType DEF TypeOK, ReturnReceipt, diskVars, callVars
  <2> QED
    BY <1>4, <2>1, <2>2, <2>3, <2>4, <2>5, <2>6, <2>7, <2>8, <2>9, <2>10, <2>11, <2>12,
       <2>13, <2>14, <2>15, <2>16 DEF CallStep
<1>5. ASSUME NEW t \in Thread, IoError(t) PROVE TypeOK'
  <2>1. \E o \in Outcome : Leave(t, o)
    BY <1>5 DEF IoError, Outcome
  <2> QED
    BY <1>5, <2>1, LeaveType DEF TypeOK, IoError, diskVars, callVars, FileState
<1>6. ASSUME NEW t \in Thread, ReadError(t) PROVE TypeOK'
  <2>1. \E o \in Outcome : Leave(t, o)
    BY <1>6 DEF ReadError, Outcome
  <2>2. \A r \in Intact \cup Torn : Findings(snap[t], {r}) \in SUBSET Finding
    BY FindingsType DEF TypeOK, Manifest, Intact, Torn
  <2>3. Findings(UnreadManifest, {}) \in SUBSET Finding
    BY FindingsType DEF UnreadManifest
  <2>4. found' \in [Thread -> SUBSET Finding]
    <3>1. \E findings \in SUBSET Finding : found' = [found EXCEPT ![t] = findings]
      BY <1>6, <2>2, <2>3 DEF ReadError
    <3> QED
      BY <3>1 DEF TypeOK
  <2>5. /\ lock' \in [Domain -> Thread \cup {NoThread}] /\ pc' \in [Thread -> Steps]
        /\ snap' \in [Thread -> Manifest] /\ outcome' \in [Thread -> Outcome]
    BY <2>1, LeaveType
  <2>6. faults' \in Nat /\ UNCHANGED <<diskVars, callVars, temp, receipts>>
    BY <1>6 DEF ReadError, TypeOK
  <2> QED
    BY <2>4, <2>5, <2>6 DEF TypeOK, diskVars, callVars
<1>7. ASSUME NEW d \in Domain, Crash(d) PROVE TypeOK'
  BY <1>0, <1>7 DEF TypeOK, Crash, diskVars, callVars, Steps, FileState, Outcome
<1>8. CASE UNCHANGED vars
  BY <1>8 DEF TypeOK, vars, diskVars, callVars
<1> QED
  BY <1>1, <1>2, <1>3, <1>4, <1>5, <1>6, <1>7, <1>8 DEF Next

\* Every variable keeps its type, for every value of the constants.
THEOREM TypeCorrect == Spec => []TypeOK
BY TypeInit, TypeStep, PTL DEF Spec

-----------------------------------------------------------------------------
(* Nothing half-written is ever visible, and what is registered is there *)

\* What a call read of the manifest was whole, what it is about to commit is
\* written, and its record is on disk before it stages the manifest.
WholeInv ==
    /\ \A r \in Record : disk[r] # "torn"
    /\ manifest.state \in {"absent", "canonical"}
    /\ \A r \in manifest.entries : disk[r] = "intact"
    /\ \A t \in Thread : /\ snap[t].state \in {"absent", "canonical"}
                         /\ \A r \in snap[t].entries : disk[r] = "intact"
    /\ \A t \in Thread : pc[t] \in {"link", "replace"} => temp[t] = "intact"
    /\ \A t \in Thread : pc[t] \in {"stageManifest", "writeManifest", "replace"} =>
                             disk[rec[t]] = "intact"

LEMMA WholeInit == Init => WholeInv
BY DEF Init, WholeInv, NoManifest

\* A call that leaves keeps the invariant: it only forgets.
LEMMA WholeLeave ==
    ASSUME TypeOK, WholeInv, NEW t \in Thread, NEW o, Leave(t, o),
           UNCHANGED <<disk, manifest, rec>>, temp' \in [Thread -> FileState],
           \A u \in Thread \ {t} : temp'[u] = temp[u]
    PROVE  WholeInv'
BY DEF TypeOK, WholeInv, Leave, NoManifest

LEMMA WholeStep == TypeOK /\ WholeInv /\ [Next]_vars => WholeInv'
<1> SUFFICES ASSUME TypeOK, WholeInv, [Next]_vars PROVE WholeInv'
  OBVIOUS
<1>1. ASSUME NEW t \in Thread, NEW r \in Record, BeginPublish(t, r) PROVE WholeInv'
  BY <1>1 DEF TypeOK, WholeInv, BeginPublish, diskVars
<1>2. ASSUME NEW t \in Thread, BeginVerify(t) PROVE WholeInv'
  BY <1>2 DEF TypeOK, WholeInv, BeginVerify, diskVars
<1>3. ASSUME NEW t \in Thread, Acquire(t) PROVE WholeInv'
  BY <1>3 DEF TypeOK, WholeInv, Acquire, diskVars, callVars
<1>4. ASSUME NEW t \in Thread, CallStep(t) PROVE WholeInv'
  <2>1. CASE ReadManifest(t)
    BY <2>1 DEF TypeOK, WholeInv, ReadManifest, diskVars, callVars
  <2>2. CASE FreshRoot(t)
    BY <2>2 DEF TypeOK, WholeInv, FreshRoot, diskVars, callVars, NoManifest
  <2>3. CASE VerifyNoRoot(t) \/ Verify(t) \/ Refuse(t) \/ Conflict(t) \/ Replay(t)
             \/ ReturnReceipt(t)
    <3>1. PICK o : Leave(t, o)
      BY <2>3 DEF VerifyNoRoot, Verify, Refuse, Conflict, Replay, ReturnReceipt
    <3>2. UNCHANGED <<disk, manifest, rec, temp>>
      BY <2>3 DEF VerifyNoRoot, Verify, Refuse, Conflict, Replay, ReturnReceipt,
                  diskVars, callVars
    <3> QED
      BY <3>1, <3>2, WholeLeave DEF TypeOK
  <2>4. CASE Admit(t)
    BY <2>4 DEF TypeOK, WholeInv, Admit, diskVars, callVars
  <2>5. CASE MakeRoot(t)
    BY <2>5 DEF TypeOK, WholeInv, MakeRoot, callVars
  <2>6. CASE MakeRecordsDir(t)
    BY <2>6 DEF TypeOK, WholeInv, MakeRecordsDir, callVars
  <2>7. CASE Stage(t)
    BY <2>7 DEF TypeOK, WholeInv, Stage, diskVars, callVars
  <2>8. CASE Write(t)
    BY <2>8 DEF TypeOK, WholeInv, Write, diskVars, callVars
  <2>9. CASE LinkRecord(t)
    BY <2>9 DEF TypeOK, WholeInv, LinkRecord, callVars
  <2>10. CASE AdoptRecord(t)
    BY <2>10 DEF TypeOK, WholeInv, AdoptRecord, diskVars, callVars
  <2>11. CASE ReplaceManifest(t)
    BY <2>11 DEF TypeOK, WholeInv, ReplaceManifest, callVars
  <2> QED
    BY <1>4, <2>1, <2>2, <2>3, <2>4, <2>5, <2>6, <2>7, <2>8, <2>9, <2>10, <2>11
       DEF CallStep
<1>5. ASSUME NEW t \in Thread, IoError(t) PROVE WholeInv'
  BY <1>5, WholeLeave DEF TypeOK, IoError, diskVars, callVars, FileState
<1>6. ASSUME NEW t \in Thread, ReadError(t) PROVE WholeInv'
  <2>1. PICK o : Leave(t, o)
    BY <1>6 DEF ReadError
  <2>2. UNCHANGED <<disk, manifest, rec, temp>>
    BY <1>6 DEF ReadError, diskVars, callVars
  <2> QED
    BY <2>1, <2>2, WholeLeave DEF TypeOK
<1>7. ASSUME NEW d \in Domain, Crash(d) PROVE WholeInv'
  BY <1>7 DEF TypeOK, WholeInv, Crash, diskVars, callVars, NoManifest
<1>8. CASE UNCHANGED vars
  BY <1>8 DEF WholeInv, vars, diskVars, callVars
<1> QED
  BY <1>1, <1>2, <1>3, <1>4, <1>5, <1>6, <1>7, <1>8 DEF Next

LEMMA WholeAlways == Spec => []WholeInv
BY WholeInit, WholeStep, TypeCorrect, PTL DEF Spec

\* No torn record file and no malformed manifest is ever visible and what the
\* manifest lists is on disk, whatever crashes and whichever processes publish.
THEOREM StoreAlwaysWhole == Spec => []StoreWhole
<1>1. TypeOK /\ WholeInv => StoreWhole
  BY DEF TypeOK, Manifest, WholeInv, StoreWhole, Torn, Intact
<1> QED
  BY <1>1, WholeAlways, TypeCorrect, PTL

\* No step of any process changes or removes a record file that is visible.
THEOREM AppendOnlyBytes == Spec => BytesNeverChange
<1> DEFINE Kept == \A r \in Record : disk[r] # "absent" => disk'[r] = disk[r]
<1>1. TypeOK /\ [Next]_vars => Kept
  <2> SUFFICES ASSUME TypeOK, [Next]_vars PROVE Kept
    OBVIOUS
  <2>1. ASSUME NEW t \in Thread, LinkRecord(t) PROVE Kept
    BY <2>1 DEF TypeOK, LinkRecord
  <2>2. ASSUME NEW t \in Thread, CallStep(t), ~LinkRecord(t) PROVE disk' = disk
    BY <2>2 DEF CallStep, ReadManifest, FreshRoot, VerifyNoRoot, Verify, Refuse, Conflict,
       Replay, Admit, MakeRoot, MakeRecordsDir, Stage, Write, AdoptRecord,
       ReplaceManifest, ReturnReceipt, diskVars
  <2>3. ASSUME NEW t \in Thread,
               \/ \E r \in Record : BeginPublish(t, r)
               \/ BeginVerify(t) \/ Acquire(t) \/ IoError(t) \/ ReadError(t)
        PROVE  disk' = disk
    BY <2>3 DEF BeginPublish, BeginVerify, Acquire, IoError, ReadError, diskVars
  <2>4. ASSUME NEW d \in Domain, Crash(d) PROVE disk' = disk
    BY <2>4 DEF Crash, diskVars
  <2>5. CASE UNCHANGED vars
    BY <2>5 DEF vars, diskVars
  <2> QED
    BY <2>1, <2>2, <2>3, <2>4, <2>5 DEF Next
<1> QED
  BY <1>1, TypeCorrect, PTL DEF Spec, BytesNeverChange

-----------------------------------------------------------------------------
(* One root lock                                                           *)

-----------------------------------------------------------------------------
(* The inductive invariant *)

Busy(t) == pc[t] \notin {"idle", "lock"}

\* Whoever is inside the locked block holds the lock.
MutexInv == \A t \in Thread : Busy(t) => lock[DomainOf[t]] = t

\* A root that was never made holds nothing.
FreshInv ==
    ~rootDir => /\ manifest = NoManifest
                /\ \A r \in Record : disk[r] = "absent"

\* What the call in the locked block knows: its reading of the manifest is current,
\* its record is new, and no orphan but its own is on disk.
ReadCurrent(t) == pc[t] \in {"scan"} \cup WriteSteps => snap[t] = manifest
RootMade(t) == pc[t] \in ({"scan", "return"} \cup WriteSteps) \ {"mkroot"} => rootDir
RecordNew(t) ==
    pc[t] \in WriteSteps => \A q \in manifest.entries : IdOf[q] # IdOf[rec[t]]
OnlyOwnOrphan(t) ==
    pc[t] \in WriteSteps =>
        \A r \in Record : disk[r] = "intact" => r \in manifest.entries \cup {rec[t]}
NowRegistered(t) ==
    pc[t] = "return" =>
        /\ manifest.state = "canonical"
        /\ rec[t] \in manifest.entries
        /\ \A r \in Record : disk[r] = "intact" => r \in manifest.entries
CallInv == \A t \in Thread : /\ ReadCurrent(t)
                             /\ RootMade(t)
                             /\ RecordNew(t)
                             /\ OnlyOwnOrphan(t)
                             /\ NowRegistered(t)

\* A manifest that lists every file there is.
Settled ==
    /\ manifest.state = "canonical"
    /\ \A r \in Record : disk[r] = "intact" => r \in manifest.entries

\* As long as nothing failed the store is settled or missing, or a publish is under way.
CalmInv == faults = 0 => Settled \/ ~rootDir \/ \E t \in Thread : pc[t] \in WriteSteps

IInv ==
    /\ TypeOK
    /\ WholeInv
    /\ MutexInv
    /\ FreshInv
    /\ CallInv
    /\ OneContentPerId
    /\ AtMostOneOrphan
    /\ ReceiptsDurable
    /\ ConflictJustified

-----------------------------------------------------------------------------
(* Mutual exclusion *)

LEMMA MutexStep == TypeOK /\ MutexInv /\ [Next]_vars => MutexInv'
<1> SUFFICES ASSUME TypeOK, MutexInv, [Next]_vars PROVE MutexInv'
  OBVIOUS
<1> USE ConstantsAssumption DEF Busy
<1>1. ASSUME NEW t \in Thread, NEW r \in Record, BeginPublish(t, r) PROVE MutexInv'
  BY <1>1 DEF TypeOK, MutexInv, BeginPublish
<1>2. ASSUME NEW t \in Thread, BeginVerify(t) PROVE MutexInv'
  BY <1>2 DEF TypeOK, MutexInv, BeginVerify
<1>3. ASSUME NEW t \in Thread, Acquire(t) PROVE MutexInv'
  BY <1>3 DEF TypeOK, MutexInv, Acquire
<1>4. ASSUME NEW t \in Thread, NEW o, Busy(t), Leave(t, o) PROVE MutexInv'
  BY <1>4 DEF TypeOK, MutexInv, Leave
<1>5. ASSUME NEW t \in Thread, NEW s, Busy(t), pc' = [pc EXCEPT ![t] = s], lock' = lock
      PROVE  MutexInv'
  BY <1>5 DEF TypeOK, MutexInv
<1>6. ASSUME NEW t \in Thread, CallStep(t) \/ IoError(t) \/ ReadError(t) PROVE MutexInv'
  <2>1. Busy(t)
    BY <1>6 DEF CallStep, ReadManifest, FreshRoot, VerifyNoRoot, Verify, Refuse, Conflict,
       Replay, Admit, MakeRoot, MakeRecordsDir, Stage, Write, LinkRecord, AdoptRecord,
       ReplaceManifest, ReturnReceipt, IoError, ReadError, WriteSteps
  <2>2. \/ \E o : Leave(t, o)
        \/ lock' = lock /\ \E s : pc' = [pc EXCEPT ![t] = s]
    BY <1>6 DEF CallStep, ReadManifest, FreshRoot, VerifyNoRoot, Verify, Refuse, Conflict,
       Replay, Admit, MakeRoot, MakeRecordsDir, Stage, Write, LinkRecord, AdoptRecord,
       ReplaceManifest, ReturnReceipt, IoError, ReadError
  <2> QED
    BY <2>1, <2>2, <1>4, <1>5
<1>7. ASSUME NEW d \in Domain, Crash(d) PROVE MutexInv'
  BY <1>7 DEF TypeOK, MutexInv, Crash
<1>8. CASE UNCHANGED vars
  BY <1>8 DEF MutexInv, vars
<1> QED
  BY <1>1, <1>2, <1>3, <1>6, <1>7, <1>8 DEF Next

\* With one root lock, one call at a time is in the locked block.
LEMMA BusyAlone ==
    ASSUME TypeOK, MutexInv, NEW t \in Thread, Busy(t)
    PROVE  \A u \in Thread \ {t} : pc[u] \in {"idle", "lock"}
BY OneProcessAssumption DEF MutexInv, Busy, TypeOK

-----------------------------------------------------------------------------
(* What reconciliation tells the publisher *)

\* A publishable store has a manifest, and no unregistered file but, possibly, that
\* of the record being published.
LEMMA PublishableMeans ==
    ASSUME TypeOK, WholeInv, NEW t \in Thread, snap[t] = manifest, Publishable(t)
    PROVE  /\ manifest.state = "canonical"
           /\ \A r \in Record : disk[r] = "intact" => r \in manifest.entries \cup {rec[t]}
<1>1. manifest.state = "canonical"
  BY DEF Publishable, WholeInv
<1>2. ASSUME NEW r \in Record, disk[r] = "intact", r \notin manifest.entries PROVE r = rec[t]
  <2>1. r \in Intact
    BY <1>2 DEF Intact
  <2>2. CASE r \notin Loaded({})
    <3>1. <<"duplicate_record", r>> \in Findings(manifest, {})
      BY <2>1, <2>2 DEF Findings
    <3> QED
      BY <3>1 DEF Publishable
  <2>3. CASE r \in Loaded({})
    <3>1. <<"extra_record", r>> \in {<<"extra_record", q>> : q \in Loaded({}) \ manifest.entries}
      BY <1>2, <2>3
    <3>2. <<"extra_record", r>> \in Findings(manifest, {})
      BY <1>1, <3>1 DEF Findings, When
    <3> QED
      BY <3>2 DEF Publishable
  <2> QED
    BY <2>2, <2>3
<1> QED
  BY <1>1, <1>2

-----------------------------------------------------------------------------
(* The calls *)

LEMMA FreshStep == TypeOK /\ CallInv /\ FreshInv /\ [Next]_vars => FreshInv'
<1> SUFFICES ASSUME TypeOK, CallInv, FreshInv, [Next]_vars PROVE FreshInv'
  OBVIOUS
<1>1. ASSUME NEW t \in Thread, CallStep(t) PROVE FreshInv'
  <2>1. CASE MakeRoot(t)
    BY <2>1 DEF FreshInv, MakeRoot
  <2>2. CASE MakeRecordsDir(t)
    BY <2>2 DEF FreshInv, MakeRecordsDir
  <2>3. CASE LinkRecord(t) \/ ReplaceManifest(t)
    <3>1. rootDir /\ rootDir' = rootDir
      BY <2>3 DEF CallInv, RootMade, LinkRecord, ReplaceManifest, WriteSteps
    <3> QED
      BY <3>1 DEF FreshInv
  <2>4. CASE UNCHANGED diskVars
    BY <2>4 DEF FreshInv, diskVars
  <2> QED
    BY <1>1, <2>1, <2>2, <2>3, <2>4
       DEF CallStep, ReadManifest, FreshRoot, VerifyNoRoot, Verify, Refuse, Conflict,
       Replay, Admit, Stage, Write, AdoptRecord, ReturnReceipt
<1>2. CASE UNCHANGED diskVars
  BY <1>2 DEF FreshInv, diskVars
<1> QED
  BY <1>1, <1>2 DEF Next, BeginPublish, BeginVerify, Acquire, IoError, ReadError, Crash, vars

\* A step of the call in the locked block only has to restore its own knowledge.
LEMMA CallAlone ==
    ASSUME TypeOK, MutexInv, NEW t \in Thread, Busy(t),
           NEW s, pc' = [pc EXCEPT ![t] = s],
           ReadCurrent(t)', RootMade(t)', RecordNew(t)', OnlyOwnOrphan(t)', NowRegistered(t)'
    PROVE  CallInv'
<1>1. ASSUME NEW u \in Thread, u # t PROVE pc'[u] \in {"idle", "lock"}
  BY <1>1, BusyAlone DEF TypeOK
<1> QED
  BY <1>1 DEF CallInv, ReadCurrent, RootMade, RecordNew, OnlyOwnOrphan, NowRegistered, WriteSteps

LEMMA CallLeave ==
    ASSUME TypeOK, MutexInv, NEW t \in Thread, Busy(t), NEW o, Leave(t, o)
    PROVE  CallInv'
<1>1. pc'[t] = "idle" /\ pc' = [pc EXCEPT ![t] = "idle"]
  BY DEF TypeOK, Leave
<1> QED
  BY <1>1, CallAlone DEF ReadCurrent, RootMade, RecordNew, OnlyOwnOrphan, NowRegistered, WriteSteps

LEMMA CallInvStep ==
    TypeOK /\ WholeInv /\ MutexInv /\ FreshInv /\ CallInv /\ [Next]_vars => CallInv'
<1> SUFFICES ASSUME TypeOK, WholeInv, MutexInv, FreshInv, CallInv, [Next]_vars
             PROVE  CallInv'
  OBVIOUS
<1> DEFINE Known(t) == /\ ReadCurrent(t) /\ RootMade(t) /\ RecordNew(t)
                       /\ OnlyOwnOrphan(t) /\ NowRegistered(t)
<1>1. ASSUME NEW t \in Thread, NEW r \in Record, BeginPublish(t, r) PROVE CallInv'
  BY <1>1 DEF TypeOK, CallInv, ReadCurrent, RootMade, RecordNew, OnlyOwnOrphan,
     NowRegistered, BeginPublish, diskVars, WriteSteps
<1>2. ASSUME NEW t \in Thread, BeginVerify(t) PROVE CallInv'
  BY <1>2 DEF TypeOK, CallInv, ReadCurrent, RootMade, RecordNew, OnlyOwnOrphan,
     NowRegistered, BeginVerify, diskVars, WriteSteps
<1>3. ASSUME NEW t \in Thread, Acquire(t) PROVE CallInv'
  BY <1>3 DEF TypeOK, CallInv, ReadCurrent, RootMade, RecordNew, OnlyOwnOrphan,
     NowRegistered, Acquire, diskVars, callVars, WriteSteps
<1>4. ASSUME NEW t \in Thread, CallStep(t) PROVE CallInv'
  <2>0. Known(t)
    BY DEF CallInv
  <2>1. CASE ReadManifest(t)
    <3>1. Busy(t) /\ Known(t)' /\ pc' = [pc EXCEPT ![t] = "scan"]
      BY <2>1 DEF Busy, TypeOK, ReadManifest, ReadCurrent, RootMade, RecordNew,
         OnlyOwnOrphan, NowRegistered, WriteSteps, diskVars
    <3> QED
      BY <3>1, CallAlone
  <2>2. CASE FreshRoot(t)
    <3>1. Busy(t) /\ Known(t)' /\ pc' = [pc EXCEPT ![t] = "mkroot"]
      BY <2>2 DEF Busy, TypeOK, FreshInv, FreshRoot, ReadCurrent, RootMade, RecordNew,
         OnlyOwnOrphan, NowRegistered, WriteSteps, diskVars, NoManifest
    <3> QED
      BY <3>1, CallAlone
  <2>3. CASE VerifyNoRoot(t) \/ Verify(t) \/ Refuse(t) \/ Conflict(t) \/ Replay(t)
             \/ ReturnReceipt(t)
    <3>1. Busy(t) /\ \E o : Leave(t, o)
      BY <2>3 DEF Busy, VerifyNoRoot, Verify, Refuse, Conflict, Replay,
         ReturnReceipt
    <3> QED
      BY <3>1, CallLeave
  <2>4. CASE Admit(t)
    <3>1. snap[t] = manifest /\ Publishable(t) /\ rootDir
      BY <2>0, <2>4 DEF Admit, ReadCurrent, RootMade
    <3>2. \A q \in manifest.entries : IdOf[q] # IdOf[rec[t]]
      BY <2>4, <3>1 DEF Admit, Registered
    <3>3. \A r \in Record : disk[r] = "intact" => r \in manifest.entries \cup {rec[t]}
      BY <3>1, PublishableMeans
    <3>4. Busy(t) /\ Known(t)' /\ pc' = [pc EXCEPT ![t] = "mkrecords"]
      BY <2>4, <3>1, <3>2, <3>3 DEF Busy, TypeOK, Admit, ReadCurrent, RootMade, RecordNew,
         OnlyOwnOrphan, NowRegistered, WriteSteps, diskVars, callVars
    <3> QED
      BY <3>4, CallAlone
  <2>5. CASE MakeRoot(t)
    <3>1. Busy(t) /\ Known(t)' /\ pc' = [pc EXCEPT ![t] = "mkrecords"]
      BY <2>0, <2>5 DEF Busy, TypeOK, MakeRoot, ReadCurrent, RootMade, RecordNew,
         OnlyOwnOrphan, NowRegistered, WriteSteps, callVars
    <3> QED
      BY <3>1, CallAlone
  <2>6. CASE MakeRecordsDir(t)
    <3>1. Busy(t) /\ Known(t)' /\ pc' = [pc EXCEPT ![t] = "stageRecord"]
      BY <2>0, <2>6 DEF Busy, TypeOK, MakeRecordsDir, ReadCurrent, RootMade, RecordNew,
         OnlyOwnOrphan, NowRegistered, WriteSteps, callVars
    <3> QED
      BY <3>1, CallAlone
  <2>7. CASE Stage(t)
    <3>1. Busy(t) /\ Known(t)' /\ \E s : pc' = [pc EXCEPT ![t] = s]
      BY <2>0, <2>7 DEF Busy, TypeOK, Stage, ReadCurrent, RootMade, RecordNew,
         OnlyOwnOrphan, NowRegistered, WriteSteps, callVars, diskVars
    <3> QED
      BY <3>1, CallAlone
  <2>8. CASE Write(t)
    <3>1. Busy(t) /\ Known(t)' /\ \E s : pc' = [pc EXCEPT ![t] = s]
      BY <2>0, <2>8 DEF Busy, TypeOK, Write, ReadCurrent, RootMade, RecordNew,
         OnlyOwnOrphan, NowRegistered, WriteSteps, callVars, diskVars
    <3> QED
      BY <3>1, CallAlone
  <2>9. CASE LinkRecord(t)
    <3>1. Busy(t) /\ Known(t)' /\ pc' = [pc EXCEPT ![t] = "stageManifest"]
      BY <2>0, <2>9 DEF Busy, TypeOK, LinkRecord, ReadCurrent, RootMade, RecordNew,
         OnlyOwnOrphan, NowRegistered, WriteSteps, callVars
    <3> QED
      BY <3>1, CallAlone
  <2>10. CASE AdoptRecord(t)
    <3>1. Busy(t) /\ Known(t)' /\ pc' = [pc EXCEPT ![t] = "stageManifest"]
      BY <2>0, <2>10 DEF Busy, TypeOK, AdoptRecord, ReadCurrent, RootMade, RecordNew,
         OnlyOwnOrphan, NowRegistered, WriteSteps, callVars, diskVars
    <3> QED
      BY <3>1, CallAlone
  <2>11. CASE ReplaceManifest(t)
    <3>1. manifest' = [state |-> "canonical", entries |-> manifest.entries \cup {rec[t]}]
      BY <2>0, <2>11 DEF WholeInv, ReplaceManifest, ReadCurrent, WriteSteps
    <3>2. Busy(t) /\ Known(t)' /\ pc' = [pc EXCEPT ![t] = "return"]
      BY <2>0, <2>11, <3>1 DEF Busy, TypeOK, ReplaceManifest, ReadCurrent, RootMade, RecordNew,
         OnlyOwnOrphan, NowRegistered, WriteSteps, callVars
    <3> QED
      BY <3>2, CallAlone
  <2> QED
    BY <1>4, <2>1, <2>2, <2>3, <2>4, <2>5, <2>6, <2>7, <2>8, <2>9, <2>10, <2>11 DEF CallStep
<1>5. ASSUME NEW t \in Thread, IoError(t) \/ ReadError(t) PROVE CallInv'
  <2>1. Busy(t) /\ \E o : Leave(t, o)
    BY <1>5 DEF Busy, IoError, ReadError, WriteSteps
  <2> QED
    BY <2>1, CallLeave
<1>6. ASSUME NEW d \in Domain, Crash(d) PROVE CallInv'
  BY <1>6 DEF TypeOK, CallInv, ReadCurrent, RootMade, RecordNew, OnlyOwnOrphan,
     NowRegistered, Crash, diskVars, callVars, WriteSteps
<1>7. CASE UNCHANGED vars
  BY <1>7 DEF CallInv, ReadCurrent, RootMade, RecordNew, OnlyOwnOrphan, NowRegistered,
     vars, diskVars, callVars
<1> QED
  BY <1>1, <1>2, <1>3, <1>4, <1>5, <1>6, <1>7 DEF Next

-----------------------------------------------------------------------------
(* The registry *)

\* The three ways a step can touch the manifest, the record files or the receipts.
LEMMA RegistryChanges ==
    ASSUME TypeOK, CallInv, WholeInv, [Next]_vars
    PROVE  \/ UNCHANGED <<disk, manifest, receipts>>
           \/ \E t \in Thread : LinkRecord(t)
           \/ \E t \in Thread : /\ ReplaceManifest(t)
                                /\ manifest' = [state |-> "canonical",
                                                entries |-> manifest.entries \cup {rec[t]}]
           \/ \E t \in Thread : /\ Replay(t) \/ ReturnReceipt(t)
                                /\ rec[t] \in manifest.entries
<1>1. ASSUME NEW t \in Thread, ReplaceManifest(t)
      PROVE  manifest' = [state |-> "canonical", entries |-> manifest.entries \cup {rec[t]}]
  BY <1>1 DEF WholeInv, CallInv, ReadCurrent, ReplaceManifest, WriteSteps
<1>2. ASSUME NEW t \in Thread, Replay(t) PROVE rec[t] \in manifest.entries
  BY <1>2 DEF CallInv, ReadCurrent, Replay, Registered
<1>3. ASSUME NEW t \in Thread, ReturnReceipt(t) PROVE rec[t] \in manifest.entries
  BY <1>3 DEF CallInv, NowRegistered, ReturnReceipt
<1>4. ASSUME NEW t \in Thread, CallStep(t), ~LinkRecord(t), ~ReplaceManifest(t), ~Replay(t),
             ~ReturnReceipt(t)
      PROVE  UNCHANGED <<disk, manifest, receipts>>
  BY <1>4 DEF CallStep, ReadManifest, FreshRoot, VerifyNoRoot, Verify, Refuse, Conflict,
     Admit, MakeRoot, MakeRecordsDir, Stage, Write, AdoptRecord, diskVars
<1>5. ASSUME NEW t \in Thread,
             \/ \E r \in Record : BeginPublish(t, r)
             \/ BeginVerify(t) \/ Acquire(t) \/ IoError(t) \/ ReadError(t)
      PROVE  UNCHANGED <<disk, manifest, receipts>>
  BY <1>5 DEF BeginPublish, BeginVerify, Acquire, IoError, ReadError, diskVars
<1>6. ASSUME NEW d \in Domain, Crash(d) PROVE UNCHANGED <<disk, manifest, receipts>>
  BY <1>6 DEF Crash, diskVars
<1>7. CASE UNCHANGED vars
  BY <1>7 DEF vars, diskVars
<1> QED
  BY <1>1, <1>2, <1>3, <1>4, <1>5, <1>6, <1>7 DEF Next

LEMMA RegistryStep ==
    ASSUME TypeOK, WholeInv, CallInv, [Next]_vars,
           OneContentPerId, AtMostOneOrphan, ReceiptsDurable
    PROVE  OneContentPerId' /\ AtMostOneOrphan' /\ ReceiptsDurable'
<1>1. CASE UNCHANGED <<disk, manifest, receipts>>
  BY <1>1 DEF OneContentPerId, AtMostOneOrphan, ReceiptsDurable, Orphans, Intact
<1>2. ASSUME NEW t \in Thread, LinkRecord(t)
      PROVE  OneContentPerId' /\ AtMostOneOrphan' /\ ReceiptsDurable'
  <2>1. UNCHANGED <<manifest, receipts>>
    BY <1>2 DEF LinkRecord
  <2>2. \A r \in Orphans' : r = rec[t]
    BY <1>2, <2>1 DEF CallInv, OnlyOwnOrphan, LinkRecord, WriteSteps, Orphans, Intact, TypeOK
  <2> QED
    BY <2>1, <2>2 DEF OneContentPerId, AtMostOneOrphan, ReceiptsDurable
<1>3. ASSUME NEW t \in Thread, ReplaceManifest(t),
             manifest'.entries = manifest.entries \cup {rec[t]}
      PROVE  OneContentPerId' /\ AtMostOneOrphan' /\ ReceiptsDurable'
  <2>1. UNCHANGED <<disk, receipts>>
    BY <1>3 DEF ReplaceManifest
  <2>2. \A q \in manifest.entries : IdOf[q] # IdOf[rec[t]]
    BY <1>3 DEF CallInv, RecordNew, ReplaceManifest, WriteSteps
  <2>3. Orphans' \subseteq Orphans
    BY <1>3, <2>1 DEF Orphans, Intact
  <2> QED
    BY <1>3, <2>1, <2>2, <2>3 DEF OneContentPerId, AtMostOneOrphan, ReceiptsDurable
<1>4. ASSUME NEW t \in Thread, Replay(t) \/ ReturnReceipt(t), rec[t] \in manifest.entries
      PROVE  OneContentPerId' /\ AtMostOneOrphan' /\ ReceiptsDurable'
  <2>1. UNCHANGED <<disk, manifest>> /\ receipts' = receipts \cup {rec[t]}
    BY <1>4 DEF Replay, ReturnReceipt, diskVars
  <2> QED
    BY <1>4, <2>1 DEF OneContentPerId, AtMostOneOrphan, ReceiptsDurable, Orphans, Intact
<1> QED
  BY <1>1, <1>2, <1>3, <1>4, RegistryChanges

\* The reason of a conflict stays: entries are never removed, and a thread's record
\* changes only when its next call begins.
LEMMA ConflictStep ==
    ASSUME TypeOK, WholeInv, CallInv, [Next]_vars, ConflictJustified
    PROVE  ConflictJustified'
<1>1. manifest.entries \subseteq manifest'.entries
  BY RegistryChanges DEF LinkRecord, Replay, ReturnReceipt, diskVars
<1>2. ASSUME NEW t \in Thread, Conflict(t)
      PROVE  \E q \in manifest.entries : q # rec[t] /\ IdOf[q] = IdOf[rec[t]]
  BY <1>2 DEF Conflict, Registered, CallInv, ReadCurrent
<1>3. ASSUME NEW t \in Thread, outcome'[t] = "conflict"
      PROVE  (outcome[t] = "conflict" \/ Conflict(t)) /\ rec'[t] = rec[t]
  <2>1. ASSUME NEW u \in Thread, NEW o, Leave(u, o), o # "conflict", rec' = rec
        PROVE  outcome[t] = "conflict" /\ rec'[t] = rec[t]
    BY <1>3, <2>1 DEF Leave, TypeOK
  <2>2. ASSUME NEW u \in Thread, \E r \in Record : BeginPublish(u, r)
        PROVE  outcome[t] = "conflict" /\ rec'[t] = rec[t]
    BY <1>3, <2>2 DEF BeginPublish, TypeOK
  <2>3. ASSUME NEW u \in Thread, BeginVerify(u)
        PROVE  outcome[t] = "conflict" /\ rec'[t] = rec[t]
    BY <1>3, <2>3 DEF BeginVerify, TypeOK
  <2>4. ASSUME NEW u \in Thread, CallStep(u) \/ IoError(u) \/ ReadError(u), ~Conflict(u)
        PROVE  outcome[t] = "conflict" /\ rec'[t] = rec[t]
    <3>1. \/ UNCHANGED <<outcome, rec>>
          \/ rec' = rec /\ \E o : o # "conflict" /\ Leave(u, o)
      BY <2>4 DEF CallStep, ReadManifest, FreshRoot, VerifyNoRoot, Verify, Refuse,
         Replay, Admit, MakeRoot, MakeRecordsDir, Stage, Write, LinkRecord, AdoptRecord,
         ReplaceManifest, ReturnReceipt, IoError, ReadError, callVars
    <3> QED
      BY <1>3, <2>1, <3>1
  <2>5. ASSUME NEW u \in Thread, Conflict(u)
        PROVE  (outcome[t] = "conflict" \/ Conflict(t)) /\ rec'[t] = rec[t]
    BY <1>3, <2>5 DEF Conflict, Leave, TypeOK, callVars
  <2>6. ASSUME NEW d \in Domain, Crash(d)
        PROVE  outcome[t] = "conflict" /\ rec'[t] = rec[t]
    BY <1>3, <2>6 DEF Crash, callVars
  <2>7. ASSUME NEW u \in Thread, Acquire(u)
        PROVE  outcome[t] = "conflict" /\ rec'[t] = rec[t]
    BY <1>3, <2>7 DEF Acquire, callVars
  <2>8. CASE UNCHANGED vars
    BY <1>3, <2>8 DEF vars, callVars
  <2> QED
    BY <2>2, <2>3, <2>4, <2>5, <2>6, <2>7, <2>8 DEF Next
<1> QED
  BY <1>1, <1>2, <1>3 DEF ConflictJustified

-----------------------------------------------------------------------------
(* Alarms *)

\* Over a settled store there is nothing to report.
LEMMA SettledIsClean ==
    ASSUME TypeOK, WholeInv, OneContentPerId, Settled
    PROVE  Findings(manifest, {}) = {}
<1>1. /\ Torn = {} /\ Intact \subseteq manifest.entries /\ manifest.entries \subseteq Intact
  BY DEF Settled, TypeOK, WholeInv, Manifest, Torn, Intact
<1>2. Loaded({}) = Intact
  BY <1>1, ConstantsAssumption DEF Loaded, OneContentPerId, Intact
<1> QED
  BY <1>1, <1>2 DEF Findings, When, Settled

LEMMA CalmStep == IInv /\ CalmInv /\ [Next]_vars => CalmInv'
<1> SUFFICES ASSUME IInv, CalmInv, [Next]_vars PROVE CalmInv'
  OBVIOUS
<1> USE DEF CalmInv, WriteSteps
<1>0. TypeOK
  BY DEF IInv
<1>1. ASSUME NEW t \in Thread, \/ \E r \in Record : BeginPublish(t, r)
                               \/ BeginVerify(t) \/ Acquire(t)
      PROVE  CalmInv'
  BY <1>0, <1>1 DEF TypeOK, BeginPublish, BeginVerify, Acquire, Settled, diskVars
<1>2. ASSUME NEW t \in Thread, CallStep(t) PROVE CalmInv'
  <2>1. CASE \/ FreshRoot(t) \/ Admit(t) \/ MakeRoot(t) \/ MakeRecordsDir(t) \/ Stage(t)
             \/ Write(t) \/ LinkRecord(t) \/ AdoptRecord(t)
    <3>1. pc'[t] \in WriteSteps
      BY <1>0, <2>1 DEF TypeOK, FreshRoot, Admit, MakeRoot, MakeRecordsDir, Stage, Write,
         LinkRecord, AdoptRecord
    <3> QED
      BY <3>1
  <2>2. CASE ReplaceManifest(t)
    <3>1. manifest' = [state |-> "canonical", entries |-> manifest.entries \cup {rec[t]}]
      BY <2>2 DEF IInv, WholeInv, CallInv, ReadCurrent, ReplaceManifest
    <3>2. Settled'
      BY <2>2, <3>1 DEF IInv, CallInv, OnlyOwnOrphan, ReplaceManifest, Settled
    <3> QED
      BY <3>2
  <2>3. CASE \/ ReadManifest(t) \/ VerifyNoRoot(t) \/ Verify(t) \/ Refuse(t) \/ Conflict(t)
             \/ Replay(t) \/ ReturnReceipt(t)
    <3>1. UNCHANGED <<diskVars, faults>> /\ pc[t] \notin WriteSteps
          /\ \E s : pc' = [pc EXCEPT ![t] = s]
      BY <2>3 DEF ReadManifest, VerifyNoRoot, Verify, Refuse, Conflict, Replay,
         ReturnReceipt, Leave
    <3> QED
      BY <1>0, <3>1 DEF TypeOK, Settled, diskVars
  <2> QED
    BY <1>2, <2>1, <2>2, <2>3 DEF CallStep
<1>3. ASSUME \/ \E t \in Thread : IoError(t) \/ ReadError(t)
             \/ \E d \in Domain : Crash(d)
      PROVE  CalmInv'
  <2>1. faults' = faults + 1 /\ faults \in Nat
    BY <1>0, <1>3 DEF TypeOK, IoError, ReadError, Crash
  <2> QED
    BY <2>1
<1>4. CASE UNCHANGED vars
  BY <1>4 DEF vars, diskVars, Settled
<1> QED
  BY <1>1, <1>2, <1>3, <1>4 DEF Next

\* A call that scans an unfailed store finds nothing: nobody is publishing.
LEMMA ScanIsClean ==
    ASSUME IInv, CalmInv, faults = 0, NEW t \in Thread, pc[t] = "scan"
    PROVE  Findings(snap[t], {}) = {} /\ snap[t].state # "absent"
<1>1. snap[t] = manifest /\ rootDir
  BY DEF IInv, CallInv, ReadCurrent, RootMade
<1>2. \A u \in Thread : pc[u] \notin WriteSteps
  BY BusyAlone DEF IInv, Busy, WriteSteps
<1>3. Settled
  BY <1>1, <1>2 DEF CalmInv
<1> QED
  BY <1>1, <1>3, SettledIsClean DEF IInv, Settled

LEMMA AlarmStep == IInv /\ CalmInv /\ NoFalseAlarm /\ [Next]_vars => NoFalseAlarm'
<1> SUFFICES ASSUME IInv, CalmInv, NoFalseAlarm, [Next]_vars, faults' = 0, NEW u \in Thread
             PROVE  /\ outcome'[u] # "refused"
                    /\ outcome'[u] = "violations" =>
                           found'[u] = {<<"store_root_missing", NoRecord>>}
  BY DEF NoFalseAlarm
<1>0. TypeOK /\ faults \in Nat
  BY DEF IInv, TypeOK
<1>1. ASSUME \/ \E t \in Thread : IoError(t) \/ ReadError(t)
             \/ \E d \in Domain : Crash(d)
      PROVE  FALSE
  BY <1>0, <1>1 DEF IoError, ReadError, Crash
<1>2. ASSUME faults = 0
      PROVE  /\ outcome[u] # "refused"
             /\ outcome[u] = "violations" => found[u] = {<<"store_root_missing", NoRecord>>}
  BY <1>2 DEF NoFalseAlarm
<1>3. ASSUME NEW t \in Thread, \/ \E r \in Record : BeginPublish(t, r)
                               \/ BeginVerify(t) \/ Acquire(t)
      PROVE  /\ faults = 0
             /\ outcome'[u] = "none" \/ (outcome'[u] = outcome[u] /\ found'[u] = found[u])
  <2>0. outcome \in [Thread -> Outcome] /\ found \in [Thread -> SUBSET Finding]
    BY <1>0 DEF TypeOK
  <2>1. faults' = faults
    BY <1>3 DEF BeginPublish, BeginVerify, Acquire
  <2>2. CASE Acquire(t)
    BY <2>1, <2>2 DEF Acquire
  <2>3. CASE BeginVerify(t)
    <3>1. outcome' = [outcome EXCEPT ![t] = "none"] /\ found' = [found EXCEPT ![t] = {}]
      BY <2>3 DEF BeginVerify
    <3>2. u = t => outcome'[u] = "none"
      BY <2>0, <3>1
    <3>3. u # t => outcome'[u] = outcome[u] /\ found'[u] = found[u]
      BY <2>0, <3>1
    <3> QED
      BY <2>1, <3>2, <3>3
  <2>4. ASSUME NEW r \in Record, BeginPublish(t, r)
        PROVE  outcome'[u] = "none" \/ (outcome'[u] = outcome[u] /\ found'[u] = found[u])
    <3>1. outcome' = [outcome EXCEPT ![t] = "none"] /\ found' = [found EXCEPT ![t] = {}]
      BY <2>4 DEF BeginPublish
    <3>2. u = t => outcome'[u] = "none"
      BY <2>0, <3>1
    <3>3. u # t => outcome'[u] = outcome[u] /\ found'[u] = found[u]
      BY <2>0, <3>1
    <3> QED
      BY <3>2, <3>3
  <2> QED
    BY <1>3, <2>1, <2>2, <2>3, <2>4
<1>4. ASSUME NEW t \in Thread, CallStep(t)
      PROVE  /\ faults = 0
             /\ \/ outcome'[u] \notin {"refused", "violations"}
                \/ found'[u] = {<<"store_root_missing", NoRecord>>} /\ outcome'[u] = "violations"
                \/ outcome'[u] = outcome[u] /\ found'[u] = found[u]
  <2>1. faults = 0
    BY <1>4 DEF CallStep, ReadManifest, FreshRoot, VerifyNoRoot, Verify, Refuse, Conflict,
       Replay, Admit, MakeRoot, MakeRecordsDir, Stage, Write, LinkRecord, AdoptRecord,
       ReplaceManifest, ReturnReceipt
  <2>2. CASE VerifyNoRoot(t)
    BY <1>0, <2>1, <2>2 DEF TypeOK, VerifyNoRoot, Leave
  <2>3. CASE Verify(t)
    <3>1. Findings(snap[t], {}) = {}
      BY <2>1, <2>3, ScanIsClean DEF Verify
    <3> QED
      BY <1>0, <2>1, <2>3, <3>1 DEF TypeOK, Verify, Leave
  <2>4. CASE Refuse(t)
    <3>1. Publishable(t)
      BY <2>1, <2>4, ScanIsClean DEF Refuse, Publishable
    <3> QED
      BY <2>4, <3>1 DEF Refuse
  <2>5. CASE Conflict(t) \/ Replay(t) \/ ReturnReceipt(t)
    BY <1>0, <2>1, <2>5 DEF TypeOK, Conflict, Replay, ReturnReceipt, Leave
  <2>6. CASE UNCHANGED <<outcome, found>>
    BY <2>1, <2>6
  <2> QED
    BY <1>4, <2>2, <2>3, <2>4, <2>5, <2>6 DEF CallStep, ReadManifest, FreshRoot, Admit,
       MakeRoot, MakeRecordsDir, Stage, Write, LinkRecord, AdoptRecord, ReplaceManifest
<1>5. CASE UNCHANGED vars
  BY <1>2, <1>5 DEF vars
<1> QED
  BY <1>1, <1>2, <1>3, <1>4, <1>5 DEF Next

-----------------------------------------------------------------------------
(* The theorems *)

LEMMA IInvInit == Init => IInv
<1> SUFFICES ASSUME Init PROVE IInv
  OBVIOUS
<1>1. TypeOK /\ WholeInv
  BY TypeInit, WholeInit
<1>2. MutexInv /\ FreshInv /\ CallInv
  BY DEF Init, MutexInv, Busy, FreshInv, CallInv, ReadCurrent, RootMade, RecordNew,
     OnlyOwnOrphan, NowRegistered, WriteSteps
<1>3. OneContentPerId /\ AtMostOneOrphan /\ ReceiptsDurable /\ ConflictJustified
  BY DEF Init, NoManifest, OneContentPerId, AtMostOneOrphan, Orphans, Intact,
     ReceiptsDurable, ConflictJustified
<1> QED
  BY <1>1, <1>2, <1>3 DEF IInv

LEMMA IInvStep == IInv /\ [Next]_vars => IInv'
BY TypeStep, WholeStep, MutexStep, FreshStep, CallInvStep, RegistryStep, ConflictStep DEF IInv

LEMMA IInvAlways == Spec => []IInv
BY IInvInit, IInvStep, PTL DEF Spec

\* Never two contents under one logical id.
THEOREM IdsUnique == Spec => []OneContentPerId
BY IInvAlways, PTL DEF IInv

\* However many publishes are cut short, at most one orphan.
THEOREM OrphanAlone == Spec => []AtMostOneOrphan
BY IInvAlways, PTL DEF IInv

\* A record somebody holds a receipt for is registered for ever.
THEOREM ReceiptsKept == Spec => []ReceiptsDurable
BY IInvAlways, PTL DEF IInv

\* Nobody is told of a conflict that does not exist.
THEOREM ConflictsReal == Spec => []ConflictJustified
BY IInvAlways, PTL DEF IInv

\* The store implements the registry it promises: with the manifest's entries for
\* the registry and the receipts handed out for the attested records, every step of
\* every call is a registration, an attestation or nothing.
THEOREM ImplementsRegistry == Spec => RefinesRegistry
<1>1. Init => Registry!Init
  BY DEF Init, NoManifest, Registry!Init
<1>2. IInv /\ [Next]_vars => [Registry!Next]_(Registry!vars)
  <2> SUFFICES ASSUME IInv, [Next]_vars PROVE [Registry!Next]_(Registry!vars)
    OBVIOUS
  <2>1. CASE UNCHANGED <<disk, manifest, receipts>>
    BY <2>1 DEF Registry!vars
  <2>2. ASSUME NEW t \in Thread, LinkRecord(t) PROVE UNCHANGED Registry!vars
    BY <2>2 DEF LinkRecord, Registry!vars
  <2>3. ASSUME NEW t \in Thread, ReplaceManifest(t),
               manifest' = [state |-> "canonical", entries |-> manifest.entries \cup {rec[t]}]
        PROVE  Registry!Next
    <3>1. \A q \in manifest.entries : IdOf[q] # IdOf[rec[t]]
      BY <2>3 DEF IInv, CallInv, RecordNew, ReplaceManifest, WriteSteps
    <3>2. UNCHANGED receipts /\ rec[t] \in Record
      BY <2>3 DEF ReplaceManifest, IInv, TypeOK
    <3>3. Registry!Register(rec[t])
      BY <2>3, <3>1, <3>2 DEF Registry!Register
    <3> QED
      BY <3>2, <3>3 DEF Registry!Next
  <2>4. ASSUME NEW t \in Thread, Replay(t) \/ ReturnReceipt(t), rec[t] \in manifest.entries
        PROVE  Registry!Next
    <3>1. UNCHANGED manifest /\ receipts' = receipts \cup {rec[t]} /\ rec[t] \in Record
      BY <2>4 DEF Replay, ReturnReceipt, diskVars, IInv, TypeOK
    <3>2. Registry!Attest(rec[t])
      BY <2>4, <3>1 DEF Registry!Attest
    <3> QED
      BY <3>1, <3>2 DEF Registry!Next
  <2> QED
    BY <2>1, <2>2, <2>3, <2>4, RegistryChanges DEF IInv
<1> QED
  BY <1>1, <1>2, IInvAlways, PTL DEF Spec, RefinesRegistry, Registry!Spec

\* An interrupted first publish is neither completed nor overwritten by any call.
THEOREM WedgeStays == Spec => WedgeIsLeftAlone
<1> DEFINE Left == Wedged => Wedged' /\ UNCHANGED <<recordsDir, disk>>
<1>1. IInv /\ [Next]_vars => Left
  <2> SUFFICES ASSUME IInv, [Next]_vars, Wedged
               PROVE  Wedged' /\ UNCHANGED <<recordsDir, disk>>
    OBVIOUS
  <2> USE DEF Wedged, WriteSteps
  <2>1. ASSUME NEW t \in Thread, CallStep(t) PROVE Wedged' /\ UNCHANGED <<recordsDir, disk>>
    <3>1. ~FreshRoot(t)
      BY DEF FreshRoot
    <3>2. ~Publishable(t) \/ pc[t] # "scan"
      BY DEF Publishable, IInv, CallInv, ReadCurrent
    <3>3. CASE ReadManifest(t)
      BY <3>3 DEF IInv, TypeOK, ReadManifest, diskVars
    <3>4. CASE VerifyNoRoot(t) \/ Verify(t) \/ Refuse(t) \/ ReturnReceipt(t)
      BY <3>4 DEF IInv, TypeOK, VerifyNoRoot, Verify, Refuse, ReturnReceipt, Leave, diskVars
    <3> QED
      BY <2>1, <3>1, <3>2, <3>3, <3>4 DEF CallStep, Conflict, Replay, Admit, MakeRoot,
         MakeRecordsDir, Stage, Write, LinkRecord, AdoptRecord,
         ReplaceManifest
  <2>2. ASSUME NEW t \in Thread, NEW r \in Record, BeginPublish(t, r)
        PROVE  Wedged' /\ UNCHANGED <<recordsDir, disk>>
    BY <2>2 DEF IInv, TypeOK, BeginPublish, diskVars
  <2>3. ASSUME NEW t \in Thread, BeginVerify(t) \/ Acquire(t)
        PROVE  Wedged' /\ UNCHANGED <<recordsDir, disk>>
    BY <2>3 DEF IInv, TypeOK, BeginVerify, Acquire, diskVars
  <2>4. ASSUME NEW t \in Thread, ReadError(t) \/ IoError(t)
        PROVE  Wedged' /\ UNCHANGED <<recordsDir, disk>>
    BY <2>4 DEF IInv, TypeOK, ReadError, IoError, Leave, diskVars
  <2>5. ASSUME NEW d \in Domain, Crash(d) PROVE Wedged' /\ UNCHANGED <<recordsDir, disk>>
    BY <2>5 DEF IInv, TypeOK, Crash, diskVars
  <2>6. CASE UNCHANGED vars
    BY <2>6 DEF vars, diskVars
  <2> QED
    BY <2>1, <2>2, <2>3, <2>4, <2>5, <2>6 DEF Next
<1> QED
  BY <1>1, IInvAlways, PTL DEF Spec, WedgeIsLeftAlone

\* Receipts are issued only over a store that reconciles without a finding.
THEOREM ReceiptsOverWhole == Spec => ReceiptMeansClean
<1> DEFINE Clean == receipts' # receipts => Findings(manifest, {}) = {}
<1>1. IInv /\ [Next]_vars => Clean
  <2> SUFFICES ASSUME IInv, [Next]_vars, receipts' # receipts
               PROVE  Findings(manifest, {}) = {}
    OBVIOUS
  <2>1. PICK t \in Thread : (Replay(t) \/ ReturnReceipt(t)) /\ rec[t] \in manifest.entries
    BY RegistryChanges DEF IInv, LinkRecord, ReplaceManifest
  <2>2. /\ manifest.state = "canonical"
        /\ \A r \in Record : disk[r] = "intact" => r \in manifest.entries
    <3>1. CASE Replay(t)
      <4>1. snap[t] = manifest /\ Publishable(t)
        BY <3>1 DEF Replay, IInv, CallInv, ReadCurrent
      <4> QED
        BY <2>1, <4>1, PublishableMeans DEF IInv
    <3>2. CASE ReturnReceipt(t)
      BY <3>2 DEF ReturnReceipt, IInv, CallInv, NowRegistered
    <3> QED
      BY <2>1, <3>1, <3>2
  <2> QED
    BY <2>2, SettledIsClean DEF IInv, Settled
<1> QED
  BY <1>1, IInvAlways, PTL DEF Spec, ReceiptMeansClean

\* What a caller is told is so: of a conflict only when there is one; and while no call
\* has failed and no process died, verification never mistakes a publish in progress for
\* corruption and no publish is refused, however many threads share the root lock.
THEOREM AnswersTrue == Spec => []AnswersJustified
<1>1. Init => CalmInv /\ NoFalseAlarm
  BY DEF Init, CalmInv, NoFalseAlarm
<1>2. IInv => ConflictJustified
  BY DEF IInv
<1> QED
  BY <1>1, <1>2, IInvAlways, CalmStep, AlarmStep, PTL DEF Spec, AnswersJustified

-----------------------------------------------------------------------------
(* Somebody edits the files                                                *)

-----------------------------------------------------------------------------
(* The inductive invariant *)

\* A store in which all is in order but, possibly, that x is not registered
Undamaged(x) ==
    /\ Torn = {}
    /\ manifest.entries \subseteq Intact /\ Intact \subseteq manifest.entries \cup {x}
    /\ \A q, r \in Intact : IdOf[q] = IdOf[r] => q = r

\* What the call in the locked block knows as long as no edit has raced a call: nobody
\* has touched the store since it was found in order, or not there.
RootAsFound(t) ==
    /\ pc[t] = "mkroot" => ~rootDir
    /\ pc[t] \in ({"scan", "return"} \cup WriteSteps) \ {"mkroot"} => rootDir
WritesUndamaged(t) ==
    pc[t] \in WriteSteps \ {"mkroot"} =>
        /\ Undamaged(rec[t])
        /\ \/ manifest.state = "canonical"
           \/ manifest.state = "absent" /\ manifest.entries = {}
        /\ \A q \in manifest.entries : IdOf[q] # IdOf[rec[t]]
StagedWhole(t) ==
    /\ pc[t] \in {"link", "replace"} => temp[t] = "intact"
    /\ pc[t] \in {"stageManifest", "writeManifest", "replace"} => rec[t] \in Intact
ReturnsUndamaged(t) ==
    pc[t] = "return" =>
        Undamaged(rec[t]) /\ manifest.state = "canonical" /\ rec[t] \in manifest.entries

Knows(t) == /\ ReadCurrent(t) /\ RootAsFound(t) /\ WritesUndamaged(t)
            /\ StagedWhole(t) /\ ReturnsUndamaged(t)

\* Nothing lies under a root that was never made.
NoRoot == FreshInv /\ (recordsDir => rootDir)

TamperInv ==
    /\ TypeOK
    /\ MutexInv
    /\ ~raced => NoRoot /\ \A t \in Thread : Knows(t)

-----------------------------------------------------------------------------
(* What reconciliation says *)

\* A store in which only x may be unregistered has no other finding.
LEMMA UndamagedFindings ==
    ASSUME TypeOK, NEW x, Undamaged(x), manifest.state = "canonical"
    PROVE  /\ Findings(manifest, {}) \subseteq {<<"extra_record", x>>}
           /\ x \in manifest.entries => Findings(manifest, {}) = {}
<1>1. Loaded({}) = Intact
  BY ConstantsAssumption DEF Loaded, Undamaged, Intact
<1>2. Findings(manifest, {}) \subseteq {<<"extra_record", r>> : r \in Intact \ manifest.entries}
  BY <1>1 DEF Findings, When, Undamaged
<1> QED
  BY <1>2 DEF Undamaged

\* And conversely: what is publishable is such a store.
LEMMA PublishableIsUndamaged ==
    ASSUME TypeOK, NEW t \in Thread, snap[t] = manifest, Publishable(t)
    PROVE  Undamaged(rec[t]) /\ manifest.state = "canonical"
<1> DEFINE F == Findings(manifest, {})
<1>1. /\ manifest.state # "absent"
      /\ \A kind, r : <<kind, r>> \in F => kind = "extra_record" /\ r = rec[t]
  BY DEF Publishable
<1>2. manifest.state \in ManifestState /\ manifest.entries \subseteq Record
  BY DEF TypeOK, Manifest
<1>3. manifest.state = "canonical"
  <2>1. manifest.state = "malformed" => <<"manifest_malformed", NoRecord>> \in F
    BY DEF Findings, When
  <2>2. manifest.state = "reformatted" => <<"manifest_not_deterministic", NoRecord>> \in F
    BY DEF Findings, When
  <2> QED
    BY <1>1, <1>2, <2>1, <2>2 DEF ManifestState
<1>4. Torn = {}
  <2> SUFFICES ASSUME NEW r \in Torn PROVE FALSE
    OBVIOUS
  <2>1. <<"record_invalid", r>> \in F
    BY DEF Findings
  <2> HIDE DEF F
  <2> QED
    BY <1>1, <2>1
<1>5. Intact \subseteq Loaded({})
  <2> SUFFICES ASSUME NEW r \in Intact \ Loaded({}) PROVE FALSE
    OBVIOUS
  <2>1. <<"duplicate_record", r>> \in F
    BY DEF Findings
  <2> HIDE DEF F
  <2> QED
    BY <1>1, <2>1
<1>6. manifest.entries \subseteq Intact
  <2> SUFFICES ASSUME NEW r \in manifest.entries \ (Intact \cup Torn) PROVE FALSE
    BY <1>4
  <2>1. <<"missing_record", r>> \in F
    BY <1>3 DEF Findings, When
  <2> HIDE DEF F
  <2> QED
    BY <1>1, <2>1
<1>7. Intact \subseteq manifest.entries \cup {rec[t]}
  <2> SUFFICES ASSUME NEW r \in Loaded({}) \ manifest.entries PROVE r = rec[t]
    BY <1>5
  <2>1. <<"extra_record", r>> \in F
    BY <1>3 DEF Findings, When
  <2> HIDE DEF F
  <2> QED
    BY <1>1, <2>1
<1>8. \A q, r \in Intact : IdOf[q] = IdOf[r] => q = r
  <2> SUFFICES ASSUME NEW q \in Intact, NEW r \in Intact, IdOf[q] = IdOf[r] PROVE q = r
    OBVIOUS
  <2>1. Rank[q] <= Rank[r] /\ Rank[r] <= Rank[q] /\ q \in Record /\ r \in Record
    BY <1>5 DEF Loaded, Intact
  <2> QED
    BY <2>1, ConstantsAssumption
<1> QED
  BY <1>3, <1>4, <1>6, <1>7, <1>8 DEF Undamaged

-----------------------------------------------------------------------------
(* The steps *)

\* Whatever an editor leaves behind is a store.
LEMMA EditTypes ==
    ASSUME TypeOK, MutexInv,
           (\E r \in Record : EditRecordFile(r)) \/ EditManifest \/ CleanResidue
    PROVE  TypeOK' /\ MutexInv'
<1>1. UNCHANGED <<rootDir, lock, pc, op, rec, snap, temp, found, outcome, receipts, faults>>
  BY DEF EditRecordFile, EditManifest, CleanResidue, Edit, callVars
<1>2. recordsDir' \in BOOLEAN /\ disk' \in [Record -> FileState] /\ manifest' \in Manifest
  <2>1. ASSUME NEW r \in Record, EditRecordFile(r)
        PROVE  recordsDir' = recordsDir /\ disk' \in [Record -> FileState] /\ manifest' = manifest
    BY <2>1 DEF EditRecordFile, TypeOK
  <2>2. CASE EditManifest
    BY <2>2 DEF EditManifest, TypeOK
  <2>3. CASE CleanResidue
    BY <2>3 DEF CleanResidue, TypeOK, FileState
  <2> QED
    BY <2>1, <2>2, <2>3 DEF TypeOK
<1> QED
  BY <1>1, <1>2 DEF TypeOK, MutexInv, Busy

\* An edit that races no call meets no call in the locked block.
LEMMA EditKeeps ==
    ASSUME TamperInv, ~raced',
           (\E r \in Record : EditRecordFile(r)) \/ EditManifest \/ CleanResidue
    PROVE  ~raced /\ NoRoot' /\ \A t \in Thread : Knows(t)'
<1>1. Edit
  BY DEF EditRecordFile, EditManifest, CleanResidue
<1>2. ~raced /\ \A d \in Domain : lock[d] = NoThread
  BY <1>1 DEF Edit
<1>3. \A t \in Thread : pc[t] \in {"idle", "lock"} /\ pc' = pc
  BY <1>1, <1>2, ConstantsAssumption DEF TamperInv, MutexInv, Busy, Edit
<1>4. \A t \in Thread : Knows(t)'
  BY <1>3 DEF Knows, ReadCurrent, RootAsFound, WritesUndamaged, StagedWhole, ReturnsUndamaged,
     WriteSteps
<1>5. NoRoot'
  BY <1>1, <1>2 DEF TamperInv, NoRoot, FreshInv, EditRecordFile, EditManifest, CleanResidue, Edit
<1> QED
  BY <1>2, <1>4, <1>5

\* A rejection ends the call.
LEMMA RejectTypes ==
    ASSUME TypeOK, MutexInv, NEW t \in Thread, RejectForeignBytes(t)
    PROVE  TypeOK' /\ MutexInv'
<1>1. Leave(t, "failed") /\ "failed" \in Outcome /\ Busy(t)
  BY DEF RejectForeignBytes, Outcome, Busy
<1>2. TypeOK'
  BY <1>1, LeaveType DEF TypeOK, RejectForeignBytes, diskVars, callVars, FileState
<1>3. MutexInv'
  BY <1>1, ConstantsAssumption, OneProcessAssumption DEF TypeOK, MutexInv, Leave, Busy
<1> QED
  BY <1>2, <1>3

\* Undisturbed, a call in the locked block only has to restore its own knowledge.
LEMMA KnowsAlone ==
    ASSUME TypeOK, MutexInv, NEW t \in Thread, Busy(t),
           NEW s, pc' = [pc EXCEPT ![t] = s], Knows(t)'
    PROVE  \A u \in Thread : Knows(u)'
<1>1. ASSUME NEW u \in Thread, u # t PROVE pc'[u] \in {"idle", "lock"}
  BY <1>1, BusyAlone DEF TypeOK
<1> QED
  BY <1>1 DEF Knows, ReadCurrent, RootAsFound, WritesUndamaged, StagedWhole, ReturnsUndamaged,
     WriteSteps

\* A call that leaves the block needs to know nothing.
LEMMA KnowsLeave ==
    ASSUME TypeOK, MutexInv, NEW t \in Thread, Busy(t), NEW o, Leave(t, o)
    PROVE  \A u \in Thread : Knows(u)'
<1>1. pc'[t] = "idle" /\ pc' = [pc EXCEPT ![t] = "idle"]
  BY DEF TypeOK, Leave
<1> QED
  BY <1>1, KnowsAlone DEF Knows, ReadCurrent, RootAsFound, WritesUndamaged, StagedWhole,
     ReturnsUndamaged, WriteSteps

\* The steps of a call, over a store nobody has touched meanwhile
LEMMA CallKeeps ==
    ASSUME TypeOK, MutexInv, NoRoot, \A u \in Thread : Knows(u), NEW t \in Thread, CallStep(t)
    PROVE  NoRoot' /\ \A u \in Thread : Knows(u)'
<1> USE DEF Knows
<1>0. Knows(t)
  OBVIOUS
<1>1. CASE ReadManifest(t)
  <2>1. Busy(t) /\ Knows(t)' /\ pc' = [pc EXCEPT ![t] = "scan"]
    BY <1>1 DEF Busy, TypeOK, ReadManifest, ReadCurrent, RootAsFound, WritesUndamaged,
       StagedWhole, ReturnsUndamaged, WriteSteps, diskVars
  <2>2. NoRoot'
    BY <1>1 DEF ReadManifest, NoRoot, FreshInv, diskVars
  <2> QED
    BY <2>1, <2>2, KnowsAlone
<1>2. CASE FreshRoot(t)
  <2>1. Busy(t) /\ Knows(t)' /\ pc' = [pc EXCEPT ![t] = "mkroot"]
    BY <1>2 DEF Busy, TypeOK, FreshRoot, ReadCurrent, RootAsFound, WritesUndamaged, NoRoot,
       FreshInv, StagedWhole, ReturnsUndamaged, WriteSteps, diskVars
  <2>2. NoRoot'
    BY <1>2 DEF FreshRoot, NoRoot, FreshInv, diskVars
  <2> QED
    BY <2>1, <2>2, KnowsAlone
<1>3. CASE VerifyNoRoot(t) \/ Verify(t) \/ Refuse(t) \/ Conflict(t) \/ Replay(t)
           \/ ReturnReceipt(t)
  <2>1. Busy(t) /\ \E o : Leave(t, o)
    BY <1>3 DEF Busy, VerifyNoRoot, Verify, Refuse, Conflict, Replay, ReturnReceipt
  <2>2. NoRoot'
    BY <1>3 DEF VerifyNoRoot, Verify, Refuse, Conflict, Replay, ReturnReceipt, NoRoot, FreshInv,
       diskVars
  <2> QED
    BY <2>1, <2>2, KnowsLeave
<1>4. CASE Admit(t)
  <2>1. snap[t] = manifest /\ Publishable(t) /\ rootDir
    BY <1>0, <1>4 DEF Admit, ReadCurrent, RootAsFound
  <2>2. \A q \in manifest.entries : IdOf[q] # IdOf[rec[t]]
    BY <1>4, <2>1 DEF Admit, Registered
  <2>3. Undamaged(rec[t]) /\ manifest.state = "canonical"
    BY <2>1, PublishableIsUndamaged
  <2>4. UNCHANGED <<rootDir, recordsDir, disk, manifest, snap, rec, temp>>
        /\ Busy(t) /\ pc' = [pc EXCEPT ![t] = "mkrecords"] /\ pc'[t] = "mkrecords"
    BY <1>4 DEF Admit, Busy, TypeOK, diskVars, callVars
  <2>5. Undamaged(rec[t])'
    BY <2>3, <2>4 DEF Undamaged, Intact, Torn
  <2>6. Knows(t)'
    BY <2>1, <2>2, <2>3, <2>4, <2>5 DEF ReadCurrent, RootAsFound, WritesUndamaged,
       StagedWhole, ReturnsUndamaged, WriteSteps
  <2>7. NoRoot'
    BY <2>4 DEF NoRoot, FreshInv
  <2> QED
    BY <2>4, <2>6, <2>7, KnowsAlone
<1>5. CASE MakeRoot(t)
  <2>1. manifest = NoManifest /\ \A r \in Record : disk[r] = "absent"
    BY <1>0, <1>5 DEF MakeRoot, RootAsFound, NoRoot, FreshInv
  <2>2. /\ UNCHANGED <<recordsDir, disk, manifest, snap, rec, temp>> /\ rootDir'
        /\ Busy(t) /\ pc' = [pc EXCEPT ![t] = "mkrecords"] /\ pc'[t] = "mkrecords"
    BY <1>5 DEF MakeRoot, Busy, TypeOK, callVars
  <2>3. /\ Undamaged(rec[t])' /\ manifest'.state = "absent" /\ manifest'.entries = {}
    BY <2>1, <2>2 DEF Undamaged, Intact, Torn, NoManifest
  <2>4. Knows(t)'
    BY <1>0, <1>5, <2>2, <2>3 DEF MakeRoot, ReadCurrent, RootAsFound, WritesUndamaged,
       StagedWhole, ReturnsUndamaged, WriteSteps
  <2>5. NoRoot'
    BY <2>2 DEF NoRoot, FreshInv
  <2> QED
    BY <2>2, <2>4, <2>5, KnowsAlone
<1>6. CASE MakeRecordsDir(t) \/ Stage(t) \/ Write(t) \/ AdoptRecord(t)
  <2>1. /\ UNCHANGED <<rootDir, disk, manifest, snap, rec>> /\ Busy(t)
        /\ pc[t] \in WriteSteps \ {"mkroot", "replace"}
        /\ pc' = [pc EXCEPT ![t] = pc'[t]] /\ pc'[t] \in WriteSteps \ {"mkroot"}
        /\ recordsDir' \in {recordsDir, TRUE}
    BY <1>6 DEF MakeRecordsDir, Stage, Write, AdoptRecord, Busy, TypeOK, callVars, diskVars, WriteSteps
  <2>2. rootDir /\ rootDir'
    BY <1>0, <2>1 DEF RootAsFound
  <2>3. Undamaged(rec[t])' /\ Intact' = Intact
    BY <1>0, <2>1 DEF WritesUndamaged, Undamaged, Intact, Torn
  <2>4. StagedWhole(t)'
    BY <1>0, <1>6, <2>1, <2>3 DEF StagedWhole, MakeRecordsDir, Stage, Write, AdoptRecord, TypeOK, Intact
  <2>5. Knows(t)'
    BY <1>0, <2>1, <2>2, <2>3, <2>4 DEF ReadCurrent, RootAsFound, WritesUndamaged,
       ReturnsUndamaged, WriteSteps
  <2>6. NoRoot'
    BY <2>2 DEF NoRoot, FreshInv
  <2> QED
    BY <2>1, <2>5, <2>6, KnowsAlone
<1>7. CASE LinkRecord(t)
  <2>1. /\ UNCHANGED <<rootDir, recordsDir, manifest, snap, rec>> /\ Busy(t)
        /\ pc' = [pc EXCEPT ![t] = "stageManifest"] /\ pc'[t] = "stageManifest"
        /\ pc[t] = "link" /\ rec[t] \in Record /\ disk[rec[t]] = "absent"
        /\ disk' = [disk EXCEPT ![rec[t]] = "intact"]
    BY <1>0, <1>7 DEF LinkRecord, StagedWhole, Busy, TypeOK, callVars
  <2>2. Intact' = Intact \cup {rec[t]} /\ Torn' = Torn
    BY <2>1 DEF Intact, Torn, TypeOK
  <2>3. /\ Undamaged(rec[t]) /\ rootDir
        /\ manifest.state = "canonical" \/ (manifest.state = "absent" /\ manifest.entries = {})
        /\ \A q \in manifest.entries : IdOf[q] # IdOf[rec[t]]
    BY <1>0, <2>1 DEF WritesUndamaged, RootAsFound, WriteSteps
  <2>4. rec[t] \notin Intact /\ Intact = manifest.entries
    BY <2>1, <2>3 DEF Undamaged, Intact
  <2>5. Undamaged(rec[t])'
    <3>1. \A q, r \in Intact' : IdOf[q] = IdOf[r] => q = r
      BY <2>2, <2>3, <2>4 DEF Undamaged
    <3> QED
      BY <2>1, <2>2, <2>3, <2>4, <3>1 DEF Undamaged
  <2>6. Knows(t)'
    BY <1>0, <2>1, <2>2, <2>3, <2>5 DEF ReadCurrent, RootAsFound, WritesUndamaged,
       StagedWhole, ReturnsUndamaged, WriteSteps
  <2>7. NoRoot'
    BY <2>1, <2>3 DEF NoRoot, FreshInv
  <2> QED
    BY <2>1, <2>6, <2>7, KnowsAlone
<1>8. CASE ReplaceManifest(t)
  <2>1. /\ UNCHANGED <<rootDir, recordsDir, disk, snap, rec>> /\ Busy(t)
        /\ pc' = [pc EXCEPT ![t] = "return"] /\ pc'[t] = "return" /\ pc[t] = "replace"
        /\ manifest' = [state |-> "canonical", entries |-> manifest.entries \cup {rec[t]}]
    BY <1>0, <1>8 DEF ReplaceManifest, StagedWhole, ReadCurrent, Busy, TypeOK, callVars, WriteSteps
  <2>2. Undamaged(rec[t]) /\ rootDir /\ rec[t] \in Intact
    BY <1>0, <2>1 DEF WritesUndamaged, RootAsFound, StagedWhole, WriteSteps
  <2>3. /\ Intact' = Intact /\ Torn' = Torn /\ manifest'.state = "canonical"
        /\ manifest'.entries = manifest.entries \cup {rec[t]}
    BY <2>1 DEF Intact, Torn
  <2>4. Undamaged(rec[t])' /\ rec'[t] \in manifest'.entries
    BY <2>1, <2>2, <2>3 DEF Undamaged
  <2>5. Knows(t)'
    BY <2>1, <2>2, <2>3, <2>4 DEF ReadCurrent, RootAsFound, WritesUndamaged, StagedWhole,
       ReturnsUndamaged, WriteSteps
  <2>6. NoRoot'
    BY <2>1, <2>2 DEF NoRoot, FreshInv
  <2> QED
    BY <2>1, <2>5, <2>6, KnowsAlone
<1> QED
  BY <1>1, <1>2, <1>3, <1>4, <1>5, <1>6, <1>7, <1>8 DEF CallStep

\* Every step of the program, over a store nobody has touched meanwhile
LEMMA ProgramKeeps ==
    ASSUME TypeOK, MutexInv, NoRoot, \A u \in Thread : Knows(u), [Next]_vars
    PROVE  NoRoot' /\ \A u \in Thread : Knows(u)'
<1>1. ASSUME NEW t \in Thread, CallStep(t) PROVE NoRoot' /\ \A u \in Thread : Knows(u)'
  BY <1>1, CallKeeps
<1>2. ASSUME NEW t \in Thread, IoError(t) \/ ReadError(t)
      PROVE  NoRoot' /\ \A u \in Thread : Knows(u)'
  <2>1. Busy(t) /\ \E o : Leave(t, o)
    BY <1>2 DEF Busy, IoError, ReadError, WriteSteps
  <2>2. NoRoot'
    BY <1>2 DEF IoError, ReadError, NoRoot, FreshInv, diskVars
  <2> QED
    BY <2>1, <2>2, KnowsLeave
<1>3. ASSUME UNCHANGED diskVars,
             \A t \in Thread : \/ pc'[t] \in {"idle", "lock", "read"}
                               \/ /\ pc'[t] = pc[t] /\ rec'[t] = rec[t]
                                  /\ snap'[t] = snap[t] /\ temp'[t] = temp[t]
      PROVE  NoRoot' /\ \A u \in Thread : Knows(u)'
  <2>1. NoRoot'
    BY <1>3 DEF NoRoot, FreshInv, diskVars
  <2>2. /\ UNCHANGED <<rootDir, manifest>> /\ Intact' = Intact /\ Torn' = Torn
    BY <1>3 DEF diskVars, Intact, Torn
  <2>3. ASSUME NEW u \in Thread PROVE Knows(u)'
    <3>1. CASE pc'[u] \in {"idle", "lock", "read"}
      BY <3>1 DEF Knows, ReadCurrent, RootAsFound, WritesUndamaged, StagedWhole,
         ReturnsUndamaged, WriteSteps
    <3>2. CASE /\ pc'[u] = pc[u] /\ rec'[u] = rec[u]
               /\ snap'[u] = snap[u] /\ temp'[u] = temp[u]
      BY <2>2, <3>2 DEF Knows, ReadCurrent, RootAsFound, WritesUndamaged, StagedWhole,
         ReturnsUndamaged, Undamaged
    <3> QED
      BY <1>3, <3>1, <3>2
  <2> QED
    BY <2>1, <2>3
<1>4. ASSUME NEW t \in Thread,
             (\E r \in Record : BeginPublish(t, r)) \/ BeginVerify(t) \/ Acquire(t)
      PROVE  NoRoot' /\ \A u \in Thread : Knows(u)'
  BY <1>3, <1>4 DEF BeginPublish, BeginVerify, Acquire, TypeOK, callVars
<1>5. ASSUME NEW d \in Domain, Crash(d) PROVE NoRoot' /\ \A u \in Thread : Knows(u)'
  BY <1>3, <1>5 DEF Crash, TypeOK, callVars
<1>6. CASE UNCHANGED vars
  BY <1>3, <1>6 DEF vars, callVars
<1> QED
  BY <1>1, <1>2, <1>4, <1>5, <1>6 DEF Next

\* Every step keeps the invariant.
LEMMA TamperStep == TamperInv /\ [TamperNext]_tamperVars => TamperInv'
<1> SUFFICES ASSUME TamperInv, [TamperNext]_tamperVars PROVE TamperInv'
  OBVIOUS
<1>1. CASE (\E r \in Record : EditRecordFile(r)) \/ EditManifest \/ CleanResidue
  BY <1>1, EditTypes, EditKeeps DEF TamperInv
<1>2. ASSUME NEW t \in Thread, RejectForeignBytes(t) PROVE TamperInv'
  <2>1. TypeOK' /\ MutexInv'
    BY <1>2, RejectTypes DEF TamperInv
  <2>2. raced
    <3>1. pc[t] = "link" /\ rec[t] \in Torn
      BY <1>2 DEF RejectForeignBytes, Torn, TamperInv, TypeOK
    <3> QED
      BY <3>1 DEF TamperInv, Knows, WritesUndamaged, Undamaged, WriteSteps
  <2> QED
    BY <1>2, <2>1, <2>2 DEF TamperInv, RejectForeignBytes
<1>3. CASE [Next]_vars /\ raced' = raced
  BY <1>3, TypeStep, MutexStep, ProgramKeeps DEF TamperInv
<1> QED
  BY <1>1, <1>2, <1>3 DEF TamperNext, ProgramStep, tamperVars

\* So it always holds.
LEMMA TamperAlways == TamperSpec => []TamperInv
<1>1. Init /\ raced = FALSE => TamperInv
  <2> SUFFICES ASSUME Init PROVE TamperInv
    OBVIOUS
  <2>1. TypeOK
    BY TypeInit
  <2> QED
    BY <2>1 DEF Init, TamperInv, MutexInv, Busy, NoRoot, FreshInv, Knows, ReadCurrent,
       RootAsFound, WritesUndamaged, StagedWhole, ReturnsUndamaged, WriteSteps
<1> QED
  BY <1>1, TamperStep, PTL DEF TamperSpec

-----------------------------------------------------------------------------
(* The theorems *)

\* Whatever is deleted, corrupted, planted or rewritten between two calls, the program
\* writes only into a store in which all but the record it publishes is in order, and
\* returns no receipt over any other.
THEOREM EditsAreNoticed == TamperSpec => EditsLeftAlone
<1>1. TamperInv => WritesOnlyCleanStore
  <2> SUFFICES ASSUME TamperInv, ~raced, NEW t \in Thread, pc[t] \in WriteSteps \ {"mkroot"},
                      manifest.state # "absent"
               PROVE  Findings(manifest, {}) \subseteq {<<"extra_record", rec[t]>>}
    BY DEF WritesOnlyCleanStore
  <2> QED
    BY UndamagedFindings DEF TamperInv, Knows, WritesUndamaged
<1>2. TamperInv /\ [TamperNext]_tamperVars => ReceiptsOverCleanStore
  <2> SUFFICES ASSUME TamperInv, [TamperNext]_tamperVars, ~raced, receipts' # receipts
               PROVE  Findings(manifest, {}) = {}
    BY DEF ReceiptsOverCleanStore
  <2>1. PICK t \in Thread : Replay(t) \/ ReturnReceipt(t)
    BY DEF TamperNext, ProgramStep, tamperVars, vars, RejectForeignBytes, EditRecordFile,
       EditManifest, CleanResidue, Edit, Next, CallStep, BeginPublish, BeginVerify, Acquire,
       ReadManifest, FreshRoot, VerifyNoRoot, Verify, Refuse, Conflict, Admit, MakeRoot,
       MakeRecordsDir, Stage, Write, LinkRecord, AdoptRecord, ReplaceManifest, IoError,
       ReadError, Crash
  <2>2. Knows(t) /\ TypeOK
    BY DEF TamperInv
  <2>3. CASE Replay(t)
    <3>1. snap[t] = manifest /\ Publishable(t) /\ rec[t] \in manifest.entries
      BY <2>2, <2>3 DEF Replay, Knows, ReadCurrent, Registered
    <3>2. Undamaged(rec[t]) /\ manifest.state = "canonical"
      BY <2>2, <3>1, PublishableIsUndamaged
    <3> QED
      BY <2>2, <3>1, <3>2, UndamagedFindings
  <2>4. CASE ReturnReceipt(t)
    BY <2>2, <2>4, UndamagedFindings DEF ReturnReceipt, Knows, ReturnsUndamaged
  <2> QED
    BY <2>1, <2>3, <2>4
<1> QED
  BY <1>1, <1>2, TamperAlways, TamperStep, PTL DEF TamperSpec, EditsLeftAlone

\* Even an edit that races a call makes the program overwrite or remove no file.
THEOREM NothingIsOverwritten == TamperSpec => ProgramNeverOverwrites
<1> DEFINE Kept == \A r \in Record : disk[r] # "absent" => disk'[r] = disk[r]
<1>1. TypeOK /\ ProgramStep => Kept
  <2> SUFFICES ASSUME TypeOK, ProgramStep PROVE Kept
    OBVIOUS
  <2>1. UNCHANGED disk \/ \E t \in Thread : LinkRecord(t)
    BY DEF ProgramStep, RejectForeignBytes, Next, CallStep, BeginPublish, BeginVerify, Acquire,
       ReadManifest, FreshRoot, VerifyNoRoot, Verify, Refuse, Conflict, Replay, Admit, MakeRoot,
       MakeRecordsDir, Stage, Write, AdoptRecord, ReplaceManifest, ReturnReceipt, IoError,
       ReadError, Crash, diskVars
  <2> QED
    BY <2>1 DEF LinkRecord, TypeOK
<1>2. TamperInv => TypeOK
  BY DEF TamperInv
<1> QED
  BY <1>1, <1>2, TamperAlways, PTL DEF TamperSpec, ProgramNeverOverwrites
=============================================================================
