-------------------------- MODULE RecordStoreRetry --------------------------
(***************************************************************************)
(* Callers that do not give up: each thread keeps calling publish_record   *)
(* on a record of its own until the call gives a definite answer.  The     *)
(* store never repairs itself; what heals an interrupted publish is the    *)
(* retry of the very record it was publishing.                             *)
(***************************************************************************)
EXTENDS RecordStoreOneProcess

CONSTANT Own \* the record each thread publishes

ASSUME OwnAssumption == Own \in [Thread -> Record]

\* A receipt, or the news that the id carries another content.
Answered(t) == outcome[t] \in {"created", "already", "conflict"}

\* A call again, after a refusal, a failure or a restart of the process.
Try(t) == ~Answered(t) /\ BeginPublish(t, Own[t])

RetryNext ==
    \/ \E t \in Thread : Try(t) \/ Acquire(t) \/ CallStep(t) \/ IoError(t) \/ ReadError(t)
    \/ \E d \in Domain : Crash(d)

\* A running call is scheduled by the interpreter and its system calls return; a
\* caller that wants an answer eventually calls again.  threading.Lock promises
\* no order among waiters but does not shut one out for ever while the others
\* release it again and again: strong fairness of Acquire.
Fairness ==
    \A t \in Thread : WF_vars(Try(t)) /\ WF_vars(CallStep(t)) /\ SF_vars(Acquire(t))

RetrySpec == Init /\ [][RetryNext]_vars /\ Fairness

-----------------------------------------------------------------------------

\* Once the first manifest exists, crashes and failing calls in any order never
\* lock the callers out: the root lock is given back on every path, and every
\* retried publish is answered, the orphans of interrupted calls being adopted on
\* the way.
EveryRetryAnswered ==
    \A t \in Thread : manifest.state = "canonical" ~> Answered(t)

\* And what is at rest is whole: in the end no unregistered file remains.
OrphansHeal == manifest.state = "canonical" ~> [](Orphans = {})

\* Retrying is all it takes: everyone is answered, and the store is whole again
\* (publish_record).
RetriesHeal == EveryRetryAnswered /\ OrphansHeal
=============================================================================
