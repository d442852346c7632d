----------------------- MODULE RecordStoreOneProcess -----------------------
(***************************************************************************)
(* The record store in the setting its code supports: every caller is a    *)
(* thread of one process and names the root the same way, so that          *)
(* lock_for_root gives all of them one lock.  Cross-process publishing is  *)
(* out of scope of core/_store.py and is modelled with several domains.    *)
(***************************************************************************)
EXTENDS RecordStore

ASSUME OneProcessAssumption == \A t, u \in Thread : DomainOf[t] = DomainOf[u]

\* A complete record file the manifest does not list: what a publish that was cut
\* between its link and its replace leaves behind.
Orphans == Intact \ manifest.entries

-----------------------------------------------------------------------------
(* Safety *)

\* The registry never lists two contents under one logical id: the conflict check
\* reads the manifest inside the lock under which the manifest is then replaced.
OneContentPerId ==
    \A q, r \in manifest.entries : IdOf[q] = IdOf[r] => q = r

\* Whatever sequence of crashes and failing calls, at most one unregistered record
\* accumulates, because a publish tolerates no orphan but its own.
AtMostOneOrphan == \A q, r \in Orphans : q = r

\* A receipt is a promise: a record somebody holds a receipt for stays in the
\* manifest through every later publish, failure and crash.
ReceiptsDurable == receipts \subseteq manifest.entries

\* A caller is told of a conflict only if another content is registered under the
\* id, never because of its own earlier publish or its own orphan.
ConflictJustified ==
    \A t \in Thread : outcome[t] = "conflict" =>
        \E q \in manifest.entries : q # rec[t] /\ IdOf[q] = IdOf[rec[t]]

\* As long as no call failed and no process died, verification never mistakes a
\* publish in progress for corruption, and a publish is never refused.
NoFalseAlarm ==
    faults = 0 => \A t \in Thread :
        /\ outcome[t] # "refused"
        /\ outcome[t] = "violations" => found[t] = {<<"store_root_missing", NoRecord>>}

\* What a caller is told is so: of a conflict only when there is one, of corruption
\* or a refusal only after something failed (publish_record, verify_record_graph).
AnswersJustified == ConflictJustified /\ NoFalseAlarm

\* A receipt, for a new record or a replay, is only issued while the whole store
\* reconciles without a single finding.
ReceiptMeansClean == [][receipts' # receipts => Findings(manifest, {}) = {}]_vars

\* An interrupted first publish: a root without a manifest and nobody writing.
Wedged ==
    /\ rootDir
    /\ manifest.state = "absent"
    /\ \A t \in Thread : pc[t] \notin WriteSteps

\* "Publishing refuses to write until the residue is cleaned up manually" (module
\* docstring of _store.py): no sequence of calls completes or overwrites it.
WedgeIsLeftAlone == [][Wedged => Wedged' /\ UNCHANGED <<recordsDir, disk>>]_vars

\* The registry promised to callers: a set that grows by one admissible record at
\* a time, with receipts only for its members.
Registry == INSTANCE AppendOnlyRegistry
                WITH registry <- manifest.entries, attested <- receipts

RefinesRegistry == Registry!Spec
=============================================================================
