------------------------- MODULE AppendOnlyRegistry -------------------------
(***************************************************************************)
(* What publish_record promises its callers, without files, locks or       *)
(* crashes: a registry that only grows, holds at most one content per      *)
(* logical id, and never forgets a record it has attested with a receipt.  *)
(* RecordStore implements it (see RecordStoreProofs).                      *)
(***************************************************************************)
CONSTANTS Record,   \* validated records; a record stands for its SHA-256 too
          Id,       \* logical identities: a schema family and an id in it
          IdOf      \* the identity a record carries

VARIABLES registry, \* the records the manifest lists
          attested  \* the records some caller holds a receipt for

vars == <<registry, attested>>

Init ==
    /\ registry = {}
    /\ attested = {}

\* A revision needs a new id: a second content under a registered id is never
\* admitted (core/publication.py, append-only contract).
Register(r) ==
    /\ \A q \in registry : IdOf[q] # IdOf[r]
    /\ registry' = registry \cup {r}
    /\ UNCHANGED attested

\* A receipt, for a record just created or for an exact replay.
Attest(r) ==
    /\ r \in registry
    /\ attested' = attested \cup {r}
    /\ UNCHANGED registry

Next == \E r \in Record : Register(r) \/ Attest(r)

Spec == Init /\ [][Next]_vars
=============================================================================
