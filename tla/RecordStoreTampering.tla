------------------------ MODULE RecordStoreTampering ------------------------
(***************************************************************************)
(* The store while somebody else edits its files: record files deleted,    *)
(* corrupted or planted, the manifest rewritten, residue cleaned up by an  *)
(* operator.  The code promises to notice what was done between two calls; *)
(* an edit that races a call is out of its scope (module docstring of      *)
(* _store.py) and is recorded in raced, to see what is still true then.    *)
(***************************************************************************)
EXTENDS RecordStoreOneProcess

CONSTANTS MaxEdits,       \* bound on edits between calls
          MaxRacingEdits  \* bound on edits once one of them raced a call

ASSUME TamperingAssumption == MaxEdits \in Nat /\ MaxRacingEdits \in Nat

VARIABLES
    edits,  \* edits so far
    raced   \* one of them fell between two steps of a call

tamperVars == <<vars, edits, raced>>

Edit ==
    /\ raced' = (raced \/ \E d \in Domain : lock[d] # NoThread)
    /\ edits < IF raced' THEN MaxRacingEdits ELSE MaxEdits
    /\ edits' = edits + 1
    /\ UNCHANGED <<rootDir, lock, pc, callVars, snap, temp, found, outcome, receipts,
                   faults>>

\* Any change of one file under records/: delete, corrupt, restore or plant.
EditRecordFile(r) ==
    /\ recordsDir
    /\ Edit
    /\ \E s \in FileState \ {disk[r]} : disk' = [disk EXCEPT ![r] = s]
    /\ UNCHANGED <<recordsDir, manifest>>

\* Any other manifest.json; parse_manifest finds two entries of one id malformed.
EditManifest ==
    /\ rootDir
    /\ Edit
    /\ \E m \in Manifest :
        /\ m # manifest
        /\ m.state \in {"absent", "malformed"} => m.entries = {}
        /\ \A q, r \in m.entries : IdOf[q] = IdOf[r] => q = r
        /\ manifest' = m
    /\ UNCHANGED <<recordsDir, disk>>

\* The manual cleanup after an interrupted first publish.
CleanResidue ==
    /\ recordsDir
    /\ manifest.state = "absent"
    /\ Edit
    /\ recordsDir' = FALSE
    /\ disk' = [r \in Record |-> "absent"]
    /\ UNCHANGED manifest

\* os.link finds the name taken by other bytes than those staged.  Only an edit that
\* races the call puts them there: RecordStore alone never shows torn bytes.
RejectForeignBytes(t) ==
    /\ pc[t] = "link"
    /\ disk[rec[t]] = "torn"
    /\ temp' = [temp EXCEPT ![t] = "absent"]
    /\ Leave(t, "failed")
    /\ UNCHANGED <<diskVars, callVars, found, receipts, faults, edits, raced>>

ProgramStep ==
    \/ Next /\ UNCHANGED <<edits, raced>>
    \/ \E t \in Thread : RejectForeignBytes(t)

TamperNext ==
    \/ ProgramStep
    \/ \E r \in Record : EditRecordFile(r)
    \/ EditManifest
    \/ CleanResidue

TamperSpec == Init /\ edits = 0 /\ raced = FALSE /\ [][TamperNext]_tamperVars

-----------------------------------------------------------------------------

\* A publish only writes into a store that reconciles, its own orphan and its own
\* new file apart: whatever was edited before the call, the evidence is never
\* overwritten and the damage never grows ("refusing to publish", publish_record).
WritesOnlyCleanStore ==
    ~raced => \A t \in Thread :
        pc[t] \in WriteSteps \ {"mkroot"} /\ manifest.state # "absent" =>
            Findings(manifest, {}) \subseteq {<<"extra_record", rec[t]>>}

\* Receipts are never issued over an edited store, not even for an exact replay:
\* "already_present" verifies the bytes on disk first.
ReceiptsOverCleanStore ==
    ~raced /\ receipts' # receipts => Findings(manifest, {}) = {}

\* An edited store is neither written to nor vouched for (publish_record).
EditsLeftAlone == [][WritesOnlyCleanStore' /\ ReceiptsOverCleanStore]_tamperVars

\* Even when an edit races a publish, the program never overwrites nor removes a
\* file that is there: os.link fails on an existing name, and foreign bytes under
\* it are rejected rather than adopted (create_record_file).
ProgramNeverOverwrites ==
    [][ProgramStep => \A r \in Record : disk[r] # "absent" => disk'[r] = disk[r]]_tamperVars
=============================================================================
