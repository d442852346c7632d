---------------------- MODULE ProcessContainmentProofs ----------------------
(* What a contained call reports is true, for every process tree and limit. *)
EXTENDS ProcessContainment, TLAPS

\* Before the launch, and for ever after a failed one, there is nothing to contain.
NotLaunched ==
    ~started => /\ main \in {"launch", "done"}
                /\ main = "launch" => cleanup = "failed"
                /\ main = "done" => status = "launch_failed"
                /\ \A p \in Process : proc[p] = "absent"
                /\ grouped = {} /\ holding = {}
                /\ \A s \in Stream : reader[s] = "reading"
                /\ cause = NoCause

\* The leader never leaves its group, and only processes there were are in it.
\* Once the cleanup is verified the group is empty, and nothing can enter it.
GroupKept ==
    /\ \A p \in grouped : proc[p] # "absent"
    /\ started => /\ main # "launch"
                  /\ Leader \in grouped
                  /\ cleanup # "not_started"
                  /\ Verified => ~GroupExists

\* Every byte is in the buffer or in the pipe until a reader stops, and a reader
\* stops without a cause only at the end of its stream.
BytesAccounted ==
    /\ written \in [Stream -> Nat] /\ unread \in [Stream -> Nat]
    /\ \A s \in Stream :
           /\ unread[s] <= written[s]
           /\ reader[s] = "reading" => written[s] = buffer[s] + unread[s]
           /\ reader[s] = "over" => written[s] > Limit[s]
           /\ reader[s] \in {"closing", "done"} /\ cause = NoCause =>
                  holding = {} /\ written[s] = buffer[s]

\* Threads that outlived their joins are a cause and spoil the cleanup.
ThreadsJudged ==
    /\ main = "alive" /\ Alive => "join" \in expired
    /\ main = "result" /\ cause = NoCause => ~Alive
    /\ main \in {"result", "done"} /\ started /\ Verified => ~Alive
    /\ main = "done" /\ status = "completed" => started /\ cause = NoCause /\ ~Alive

Blamed == faults > 0 \/ expired \cap {"cleanup", "join"} # {}

\* A cleanup goes wrong after a failing call or a deadline only.
FailureBlamed ==
    /\ main \in {"kill", "killWait"} => Blamed
    /\ main \in {"join", "alive", "result", "done"} => Verified \/ Blamed

StatusSet ==
    /\ main # "done" => status \in {"pending", "raised"}
    /\ FactsValid

IInv ==
    /\ TypeOK
    /\ NotLaunched
    /\ GroupKept
    /\ BytesAccounted
    /\ ThreadsJudged
    /\ FailureBlamed
    /\ StatusSet
    /\ CauseJustified

-----------------------------------------------------------------------------
(* The caller's thread *)

LEMMA LaunchStep ==
    ASSUME IInv, Launch
    PROVE  IInv'
<1> USE DEF IInv, Launch, pipeVars, threadVars
<1>1. TypeOK'
  BY DEF TypeOK, MainStep, Process
<1>2. NotLaunched'
  BY DEF NotLaunched, Process
<1>3. GroupKept'
  BY DEF GroupKept, Verified, VerifiedCleanup, GroupExists, Process, NotLaunched, TypeOK
<1>4. BytesAccounted'
  BY DEF BytesAccounted, GroupKept, NotLaunched
<1>5. ThreadsJudged'
  BY DEF ThreadsJudged, Alive, Verified, VerifiedCleanup
<1>6. FailureBlamed'
  BY DEF FailureBlamed, Blamed, Verified, VerifiedCleanup
<1>7. StatusSet'
  BY DEF StatusSet, FactsValid, Finished, StatusPairs
<1>8. CauseJustified'
  BY DEF CauseJustified
<1> QED
  BY <1>1, <1>2, <1>3, <1>4, <1>5, <1>6, <1>7, <1>8

LEMMA LaunchFailsStep ==
    ASSUME IInv, LaunchFails
    PROVE  IInv'
<1> USE DEF IInv, LaunchFails, Spend, treeVars, pipeVars, threadVars
<1>1. TypeOK'
  BY ContainmentAssumption DEF TypeOK, MainStep, StatusPairs
<1>2. NotLaunched'
  BY DEF NotLaunched
<1>3. GroupKept'
  BY DEF GroupKept, Verified, VerifiedCleanup, GroupExists, Process
<1>4. ThreadsJudged'
  BY DEF ThreadsJudged, Alive, Verified, VerifiedCleanup, GroupKept
<1>5. FailureBlamed'
  BY DEF FailureBlamed, Blamed, Verified, VerifiedCleanup, TypeOK
<1>6. StatusSet'
  BY DEF StatusSet, FactsValid, Finished, StatusPairs
<1>7. CauseJustified'
  BY ContainmentAssumption DEF CauseJustified, TypeOK
<1>8. BytesAccounted'
  BY DEF BytesAccounted
<1> QED
  BY <1>1, <1>2, <1>3, <1>4, <1>5, <1>6, <1>7, <1>8

LEMMA PollStep ==
    ASSUME IInv, Poll
    PROVE  IInv'
<1> USE DEF IInv, Poll, Running, Goto, Reaped, pipeVars, threadVars
<1>1. TypeOK'
  BY DEF TypeOK, MainStep, StatusPairs, Process
<1>2. NotLaunched'
  BY DEF NotLaunched, Process
<1>3. GroupKept'
  BY DEF GroupKept, Verified, VerifiedCleanup, GroupExists, Process, TypeOK
<1>4. ThreadsJudged'
  BY DEF ThreadsJudged, Alive, Verified, VerifiedCleanup
<1>5. FailureBlamed'
  BY DEF FailureBlamed, Blamed, Verified, VerifiedCleanup
<1>6. StatusSet'
  BY DEF StatusSet, FactsValid, Finished, StatusPairs
<1>7. BytesAccounted' /\ CauseJustified'
  BY DEF BytesAccounted, CauseJustified
<1> QED
  BY <1>1, <1>2, <1>3, <1>4, <1>5, <1>6, <1>7

LEMMA ClockStep ==
    ASSUME IInv, Clock
    PROVE  IInv'
<1> USE DEF IInv, Clock, Rejected, Goto, treeVars, pipeVars, threadVars
<1>1. TypeOK'
  BY DEF TypeOK, MainStep, Cause, NoCause, StatusPairs
<1>2. NotLaunched'
  BY DEF NotLaunched, NoCause
<1>3. GroupKept'
  BY DEF GroupKept, Verified, VerifiedCleanup, GroupExists, NoCause, Process
<1>4. BytesAccounted'
  BY DEF BytesAccounted, NoCause
<1>5. ThreadsJudged'
  BY DEF ThreadsJudged, Alive, Verified, VerifiedCleanup, NoCause
<1>6. FailureBlamed'
  BY DEF FailureBlamed, Blamed, Verified, VerifiedCleanup
<1>7. StatusSet'
  BY DEF StatusSet, FactsValid, Finished, StatusPairs, NoCause
<1>8. CauseJustified'
  BY DEF CauseJustified, NoCause
<1> QED
  BY <1>1, <1>2, <1>3, <1>4, <1>5, <1>6, <1>7, <1>8

LEMMA InterruptStep ==
    ASSUME IInv, Interrupt
    PROVE  IInv'
<1> USE DEF IInv, Interrupt, Spend, treeVars, pipeVars, threadVars
<1>1. TypeOK'
  BY ContainmentAssumption DEF TypeOK, MainStep, StatusPairs
<1>2. NotLaunched'
  BY DEF NotLaunched
<1>3. GroupKept'
  BY DEF GroupKept, Verified, VerifiedCleanup, GroupExists, Process
<1>4. ThreadsJudged'
  BY DEF ThreadsJudged, Alive, Verified, VerifiedCleanup
<1>5. FailureBlamed'
  BY DEF FailureBlamed, Blamed, Verified, VerifiedCleanup, TypeOK
<1>6. StatusSet'
  BY DEF StatusSet, FactsValid, Finished, StatusPairs
<1>7. CauseJustified'
  BY ContainmentAssumption DEF CauseJustified, TypeOK
<1>8. BytesAccounted'
  BY DEF BytesAccounted
<1> QED
  BY <1>1, <1>2, <1>3, <1>4, <1>5, <1>6, <1>7, <1>8

LEMMA LeavingStep ==
    ASSUME IInv, Leaving
    PROVE  IInv'
<1> USE DEF IInv, Leaving, Running, Goto, Reaped, pipeVars, threadVars
<1>1. TypeOK'
  BY DEF TypeOK, MainStep, StatusPairs, Process
<1>2. NotLaunched'
  BY DEF NotLaunched, Process
<1>3. GroupKept'
  BY DEF GroupKept, Verified, VerifiedCleanup, GroupExists, Process, TypeOK
<1>4. ThreadsJudged'
  BY DEF ThreadsJudged, Alive, Verified, VerifiedCleanup
<1>5. FailureBlamed'
  BY DEF FailureBlamed, Blamed, Verified, VerifiedCleanup
<1>6. StatusSet'
  BY DEF StatusSet, FactsValid, Finished, StatusPairs
<1>7. BytesAccounted' /\ CauseJustified'
  BY DEF BytesAccounted, CauseJustified
<1> QED
  BY <1>1, <1>2, <1>3, <1>4, <1>5, <1>6, <1>7

LEMMA ParentStep ==
    ASSUME IInv, Parent
    PROVE  IInv'
<1> USE DEF IInv, Parent, GroupExists, Goto, treeVars, pipeVars, threadVars
<1>1. TypeOK'
  BY DEF TypeOK, MainStep, StatusPairs
<1>2. NotLaunched'
  BY DEF NotLaunched
<1>3. GroupKept'
  BY DEF GroupKept, Verified, VerifiedCleanup, Process
<1>4. ThreadsJudged'
  BY DEF ThreadsJudged, Alive, Verified, VerifiedCleanup
<1>5. FailureBlamed'
  BY DEF FailureBlamed, Blamed, Verified, VerifiedCleanup
<1>6. StatusSet'
  BY DEF StatusSet, FactsValid, Finished, StatusPairs
<1>7. BytesAccounted' /\ CauseJustified'
  BY DEF BytesAccounted, CauseJustified
<1> QED
  BY <1>1, <1>2, <1>3, <1>4, <1>5, <1>6, <1>7

LEMMA TerminateStep ==
    ASSUME IInv, Terminate
    PROVE  IInv'
<1> USE DEF IInv, Terminate, Goto, treeVars, pipeVars, threadVars
<1>1. TypeOK'
  BY DEF TypeOK, MainStep, StatusPairs
<1>2. NotLaunched'
  BY DEF NotLaunched
<1>3. GroupKept'
  BY DEF GroupKept, Verified, VerifiedCleanup, GroupExists, Process
<1>4. ThreadsJudged'
  BY DEF ThreadsJudged, Alive, Verified, VerifiedCleanup
<1>5. FailureBlamed'
  BY DEF FailureBlamed, Blamed, Verified, VerifiedCleanup
<1>6. StatusSet'
  BY DEF StatusSet, FactsValid, Finished, StatusPairs
<1>7. BytesAccounted' /\ CauseJustified'
  BY DEF BytesAccounted, CauseJustified
<1> QED
  BY <1>1, <1>2, <1>3, <1>4, <1>5, <1>6, <1>7

LEMMA GroupGoneStep ==
    ASSUME IInv, GroupGone
    PROVE  IInv'
<1> USE DEF IInv, GroupGone, GroupExists, Goto, treeVars, pipeVars, threadVars
<1>1. TypeOK'
  BY DEF TypeOK, MainStep, StatusPairs
<1>2. NotLaunched'
  BY DEF NotLaunched
<1>3. GroupKept'
  BY DEF GroupKept, Verified, VerifiedCleanup, Process
<1>4. ThreadsJudged'
  BY DEF ThreadsJudged, Alive, Verified, VerifiedCleanup
<1>5. FailureBlamed'
  BY DEF FailureBlamed, Blamed, Verified, VerifiedCleanup
<1>6. StatusSet'
  BY DEF StatusSet, FactsValid, Finished, StatusPairs
<1>7. BytesAccounted' /\ CauseJustified'
  BY DEF BytesAccounted, CauseJustified
<1> QED
  BY <1>1, <1>2, <1>3, <1>4, <1>5, <1>6, <1>7

LEMMA KillGroupStep ==
    ASSUME IInv, KillGroup
    PROVE  IInv'
<1> USE DEF IInv, KillGroup, Running, GroupExists, Goto, pipeVars, threadVars
<1>1. TypeOK'
  BY DEF TypeOK, MainStep, StatusPairs, Process
<1>2. NotLaunched'
  BY DEF NotLaunched
<1>3. GroupKept'
  BY DEF GroupKept, Verified, VerifiedCleanup, Process
<1>4. ThreadsJudged'
  BY DEF ThreadsJudged, Alive, Verified, VerifiedCleanup
<1>5. FailureBlamed'
  BY DEF FailureBlamed, Blamed, Verified, VerifiedCleanup
<1>6. StatusSet'
  BY DEF StatusSet, FactsValid, Finished, StatusPairs
<1>7. BytesAccounted' /\ CauseJustified'
  BY DEF BytesAccounted, CauseJustified
<1> QED
  BY <1>1, <1>2, <1>3, <1>4, <1>5, <1>6, <1>7

LEMMA SignalFailsStep ==
    ASSUME IInv, SignalFails
    PROVE  IInv'
<1> USE DEF IInv, SignalFails, GroupExists, Spend, Goto, treeVars, pipeVars, threadVars
<1>1. TypeOK'
  BY ContainmentAssumption DEF TypeOK, MainStep, StatusPairs
<1>2. NotLaunched'
  BY DEF NotLaunched
<1>3. GroupKept'
  BY DEF GroupKept, Verified, VerifiedCleanup, Process
<1>4. ThreadsJudged'
  BY DEF ThreadsJudged, Alive, Verified, VerifiedCleanup
<1>5. FailureBlamed'
  BY DEF FailureBlamed, Blamed, Verified, VerifiedCleanup, TypeOK
<1>6. StatusSet'
  BY DEF StatusSet, FactsValid, Finished, StatusPairs
<1>7. CauseJustified'
  BY ContainmentAssumption DEF CauseJustified, TypeOK
<1>8. BytesAccounted'
  BY DEF BytesAccounted
<1> QED
  BY <1>1, <1>2, <1>3, <1>4, <1>5, <1>6, <1>7, <1>8

LEMMA ReapStep ==
    ASSUME IInv, Reap
    PROVE  IInv'
<1> USE DEF IInv, Reap, Running, Goto, Reaped, pipeVars, threadVars
<1>1. TypeOK'
  BY DEF TypeOK, MainStep, StatusPairs, Process
<1>2. NotLaunched'
  BY DEF NotLaunched, Process
<1>3. GroupKept'
  BY DEF GroupKept, Verified, VerifiedCleanup, GroupExists, Process, TypeOK
<1>4. ThreadsJudged'
  BY DEF ThreadsJudged, Alive, Verified, VerifiedCleanup
<1>5. FailureBlamed'
  BY DEF FailureBlamed, Blamed, Verified, VerifiedCleanup
<1>6. StatusSet'
  BY DEF StatusSet, FactsValid, Finished, StatusPairs
<1>7. BytesAccounted' /\ CauseJustified'
  BY DEF BytesAccounted, CauseJustified
<1> QED
  BY <1>1, <1>2, <1>3, <1>4, <1>5, <1>6, <1>7

LEMMA GroupExitStep ==
    ASSUME IInv, GroupExit
    PROVE  IInv'
<1> USE DEF IInv, GroupExit, GroupExists, Goto, treeVars, pipeVars, threadVars
<1>1. TypeOK'
  BY DEF TypeOK, MainStep, StatusPairs
<1>2. NotLaunched'
  BY DEF NotLaunched
<1>3. GroupKept'
  BY DEF GroupKept, Verified, VerifiedCleanup, Process
<1>4. ThreadsJudged'
  BY DEF ThreadsJudged, Alive, Verified, VerifiedCleanup
<1>5. FailureBlamed'
  BY DEF FailureBlamed, Blamed, Verified, VerifiedCleanup
<1>6. StatusSet'
  BY DEF StatusSet, FactsValid, Finished, StatusPairs
<1>7. BytesAccounted' /\ CauseJustified'
  BY DEF BytesAccounted, CauseJustified
<1> QED
  BY <1>1, <1>2, <1>3, <1>4, <1>5, <1>6, <1>7

LEMMA KillStep ==
    ASSUME IInv, Kill
    PROVE  IInv'
<1> USE DEF IInv, Kill, Running, Goto, pipeVars, threadVars
<1>1. TypeOK'
  BY DEF TypeOK, MainStep, StatusPairs, Process
<1>2. NotLaunched'
  BY DEF NotLaunched
<1>3. GroupKept'
  BY DEF GroupKept, Verified, VerifiedCleanup, GroupExists, Process
<1>4. ThreadsJudged'
  BY DEF ThreadsJudged, Alive, Verified, VerifiedCleanup
<1>5. FailureBlamed'
  BY DEF FailureBlamed, Blamed, Verified, VerifiedCleanup
<1>6. StatusSet'
  BY DEF StatusSet, FactsValid, Finished, StatusPairs
<1>7. BytesAccounted' /\ CauseJustified'
  BY DEF BytesAccounted, CauseJustified
<1> QED
  BY <1>1, <1>2, <1>3, <1>4, <1>5, <1>6, <1>7

LEMMA KillWaitStep ==
    ASSUME IInv, KillWait
    PROVE  IInv'
<1> USE DEF IInv, KillWait, Running, Goto, Reaped, pipeVars, threadVars
<1>1. TypeOK'
  BY DEF TypeOK, MainStep, StatusPairs, Process
<1>2. NotLaunched'
  BY DEF NotLaunched, Process
<1>3. GroupKept'
  BY DEF GroupKept, Verified, VerifiedCleanup, GroupExists, Process, TypeOK
<1>4. ThreadsJudged'
  BY DEF ThreadsJudged, Alive, Verified, VerifiedCleanup
<1>5. FailureBlamed'
  BY DEF FailureBlamed, Blamed, Verified, VerifiedCleanup
<1>6. StatusSet'
  BY DEF StatusSet, FactsValid, Finished, StatusPairs
<1>7. BytesAccounted' /\ CauseJustified'
  BY DEF BytesAccounted, CauseJustified
<1> QED
  BY <1>1, <1>2, <1>3, <1>4, <1>5, <1>6, <1>7

LEMMA JoinStep ==
    ASSUME IInv, Join
    PROVE  IInv'
<1> USE DEF IInv, Join, Goto, Alive, treeVars, pipeVars, threadVars
<1>1. TypeOK'
  BY DEF TypeOK, MainStep, StatusPairs
<1>2. NotLaunched'
  BY DEF NotLaunched
<1>3. GroupKept'
  BY DEF GroupKept, Verified, VerifiedCleanup, GroupExists, Process
<1>4. ThreadsJudged'
  BY DEF ThreadsJudged, Verified, VerifiedCleanup
<1>5. FailureBlamed'
  BY DEF FailureBlamed, Blamed, Verified, VerifiedCleanup
<1>6. StatusSet'
  BY DEF StatusSet, FactsValid, Finished, StatusPairs
<1>7. BytesAccounted' /\ CauseJustified'
  BY DEF BytesAccounted, CauseJustified
<1> QED
  BY <1>1, <1>2, <1>3, <1>4, <1>5, <1>6, <1>7

LEMMA CheckAliveStep ==
    ASSUME IInv, CheckAlive
    PROVE  IInv'
<1> USE DEF IInv, CheckAlive, Rejected, Alive, treeVars, pipeVars, threadVars
<1>1. TypeOK'
  BY DEF TypeOK, MainStep, Cause, NoCause
<1>2. NotLaunched'
  BY DEF NotLaunched, NoCause
<1>3. GroupKept'
  BY DEF GroupKept, Verified, VerifiedCleanup, GroupExists, NoCause, Process
<1>4. BytesAccounted'
  BY DEF BytesAccounted, NoCause
<1>5. ThreadsJudged'
  BY DEF ThreadsJudged, Verified, VerifiedCleanup, NoCause
<1>6. FailureBlamed'
  BY DEF FailureBlamed, Blamed, Verified, VerifiedCleanup, ThreadsJudged
<1>7. StatusSet'
  BY DEF StatusSet, FactsValid, Finished, StatusPairs, NoCause
<1>8. CauseJustified'
  BY DEF CauseJustified, NoCause, ThreadsJudged
<1> QED
  BY <1>1, <1>2, <1>3, <1>4, <1>5, <1>6, <1>7, <1>8

LEMMA ResultStep ==
    ASSUME IInv, Result
    PROVE  IInv'
<1> USE DEF IInv, Result, VerifiedCleanup, treeVars, pipeVars, threadVars
<1>1. TypeOK'
  BY DEF TypeOK, MainStep, StatusPairs
<1>2. NotLaunched'
  BY DEF NotLaunched
<1>3. GroupKept'
  BY DEF GroupKept, Verified, GroupExists, Process
<1>4. ThreadsJudged'
  BY DEF ThreadsJudged, Alive, Verified, NotLaunched
<1>5. FailureBlamed'
  BY DEF FailureBlamed, Blamed, Verified
<1>6. StatusSet'
  BY DEF StatusSet, FactsValid, Finished, StatusPairs, NotLaunched, GroupKept, TypeOK,
         NoCause
<1>7. BytesAccounted' /\ CauseJustified'
  BY DEF BytesAccounted, CauseJustified
<1> QED
  BY <1>1, <1>2, <1>3, <1>4, <1>5, <1>6, <1>7

-----------------------------------------------------------------------------
(* The reader and feeder threads *)

LEMMA ReadChunkStep ==
    ASSUME IInv, NEW s \in Stream, ReadChunk(s)
    PROVE  IInv'
<1> USE DEF IInv, ReadChunk, treeVars, mainVars
<1>1. TypeOK'
  <2> DEFINE room == Limit[s] - buffer[s]
  <2>1. PICK n \in 1 .. unread[s] :
           /\ n <= room + 1
           /\ unread' = [unread EXCEPT ![s] = @ - n]
           /\ buffer' = [buffer EXCEPT ![s] = IF n <= room THEN @ + n ELSE Limit[s]]
           /\ reader' = [reader EXCEPT ![s] = IF n <= room THEN "reading" ELSE "over"]
    OBVIOUS
  <2>2. Limit[s] \in Nat /\ buffer[s] \in Nat /\ unread[s] \in 0 .. MaxBytes[s]
        /\ MaxBytes[s] \in Nat
    BY ContainmentAssumption DEF TypeOK
  <2>3. /\ \A t \in Stream : unread'[t] \in 0 .. MaxBytes[t]
        /\ buffer' \in [Stream -> Nat] /\ \A t \in Stream : buffer'[t] <= Limit[t]
        /\ reader' \in [Stream -> {"reading", "over", "closing", "done"}]
    BY <2>1, <2>2 DEF TypeOK, BytesAccounted
  <2> QED
    BY <2>3 DEF TypeOK
<1>2. NotLaunched'
  BY DEF NotLaunched
<1>3. BytesAccounted'
  <2> DEFINE room == Limit[s] - buffer[s]
  <2>1. PICK n \in 1 .. unread[s] :
           /\ n <= room + 1
           /\ unread' = [unread EXCEPT ![s] = @ - n]
           /\ buffer' = [buffer EXCEPT ![s] = IF n <= room THEN @ + n ELSE Limit[s]]
           /\ reader' = [reader EXCEPT ![s] = IF n <= room THEN "reading" ELSE "over"]
    OBVIOUS
  <2>2. /\ Limit[s] \in Nat /\ buffer[s] \in Nat /\ unread[s] \in Nat /\ written[s] \in Nat
        /\ unread[s] <= written[s] /\ written[s] = buffer[s] + unread[s]
    BY ContainmentAssumption DEF TypeOK, BytesAccounted
  <2>3. \A t \in Stream \ {s} : /\ unread'[t] = unread[t] /\ buffer'[t] = buffer[t]
                               /\ reader'[t] = reader[t]
    BY <2>1 DEF TypeOK, BytesAccounted
  <2>4. /\ unread' \in [Stream -> Nat] /\ unread'[s] = unread[s] - n
        /\ buffer'[s] = IF n <= room THEN buffer[s] + n ELSE Limit[s]
        /\ reader'[s] = IF n <= room THEN "reading" ELSE "over"
    BY <2>1, <2>2 DEF TypeOK, BytesAccounted
  <2> QED
    BY <2>1, <2>2, <2>3, <2>4 DEF BytesAccounted
<1>4. ThreadsJudged'
  BY DEF ThreadsJudged, Alive, Verified, VerifiedCleanup
<1>5. GroupKept' /\ FailureBlamed' /\ StatusSet' /\ CauseJustified'
  BY DEF GroupKept, Verified, VerifiedCleanup, GroupExists, FailureBlamed, Blamed,
         StatusSet, FactsValid, Finished, StatusPairs, CauseJustified
<1> QED
  BY <1>1, <1>2, <1>3, <1>4, <1>5

LEMMA EndOfStreamStep ==
    ASSUME IInv, NEW s \in Stream, EndOfStream(s)
    PROVE  IInv'
<1> USE DEF IInv, EndOfStream, treeVars, pipeVars, mainVars
<1>1. TypeOK'
  BY DEF TypeOK
<1>2. NotLaunched'
  BY DEF NotLaunched
<1>3. BytesAccounted'
  BY DEF BytesAccounted, TypeOK
<1>4. ThreadsJudged'
  BY DEF ThreadsJudged, Alive, Verified, VerifiedCleanup
<1>5. GroupKept' /\ FailureBlamed' /\ StatusSet' /\ CauseJustified'
  BY DEF GroupKept, Verified, VerifiedCleanup, GroupExists, FailureBlamed, Blamed,
         StatusSet, FactsValid, Finished, StatusPairs, CauseJustified
<1> QED
  BY <1>1, <1>2, <1>3, <1>4, <1>5

LEMMA RejectOverflowStep ==
    ASSUME IInv, NEW s \in Stream, RejectOverflow(s)
    PROVE  IInv'
<1> USE DEF IInv, RejectOverflow, Rejected, treeVars, pipeVars, mainVars
<1>1. TypeOK'
  BY DEF TypeOK, Cause, NoCause
<1>2. NotLaunched'
  BY DEF NotLaunched, NoCause
<1>3. BytesAccounted'
  BY DEF BytesAccounted, NoCause
<1>4. ThreadsJudged'
  BY DEF ThreadsJudged, Alive, Verified, VerifiedCleanup, NoCause
<1>5. CauseJustified'
  BY DEF CauseJustified, NoCause, BytesAccounted
<1>6. GroupKept' /\ FailureBlamed' /\ StatusSet'
  BY DEF GroupKept, Verified, VerifiedCleanup, GroupExists, FailureBlamed, Blamed,
         StatusSet, FactsValid, Finished, StatusPairs
<1> QED
  BY <1>1, <1>2, <1>3, <1>4, <1>5, <1>6

LEMMA ReadFailsStep ==
    ASSUME IInv, NEW s \in Stream, ReadFails(s)
    PROVE  IInv'
<1> USE DEF IInv, ReadFails, Rejected, Spend, treeVars, pipeVars, mainVars
<1>1. TypeOK'
  BY ContainmentAssumption DEF TypeOK, Cause, NoCause
<1>2. NotLaunched'
  BY DEF NotLaunched, NoCause
<1>3. BytesAccounted'
  BY DEF BytesAccounted, NoCause
<1>4. ThreadsJudged'
  BY DEF ThreadsJudged, Alive, Verified, VerifiedCleanup, NoCause
<1>5. FailureBlamed'
  BY DEF FailureBlamed, Blamed, Verified, VerifiedCleanup, TypeOK
<1>6. CauseJustified'
  BY ContainmentAssumption DEF CauseJustified, NoCause, Cause, TypeOK
<1>7. GroupKept' /\ StatusSet'
  BY DEF GroupKept, Verified, VerifiedCleanup, GroupExists, StatusSet, FactsValid, Finished,
         StatusPairs
<1> QED
  BY <1>1, <1>2, <1>3, <1>4, <1>5, <1>6, <1>7

LEMMA CloseStreamStep ==
    ASSUME IInv, NEW s \in Stream, CloseStream(s)
    PROVE  IInv'
<1> USE DEF IInv, CloseStream, treeVars, pipeVars, mainVars
<1>1. TypeOK'
  BY DEF TypeOK
<1>2. NotLaunched'
  BY DEF NotLaunched
<1>3. BytesAccounted'
  BY DEF BytesAccounted
<1>4. ThreadsJudged'
  BY DEF ThreadsJudged, Alive, Verified, VerifiedCleanup
<1>5. GroupKept' /\ FailureBlamed' /\ StatusSet' /\ CauseJustified'
  BY DEF GroupKept, Verified, VerifiedCleanup, GroupExists, FailureBlamed, Blamed,
         StatusSet, FactsValid, Finished, StatusPairs, CauseJustified
<1> QED
  BY <1>1, <1>2, <1>3, <1>4, <1>5

LEMMA CloseFailsStep ==
    ASSUME IInv, NEW s \in Stream, CloseFails(s)
    PROVE  IInv'
<1> USE DEF IInv, CloseFails, Rejected, Spend, treeVars, pipeVars, mainVars
<1>1. TypeOK'
  BY ContainmentAssumption DEF TypeOK, Cause, NoCause
<1>2. NotLaunched'
  BY DEF NotLaunched, NoCause
<1>3. BytesAccounted'
  BY DEF BytesAccounted, NoCause
<1>4. ThreadsJudged'
  BY DEF ThreadsJudged, Alive, Verified, VerifiedCleanup, NoCause
<1>5. FailureBlamed'
  BY DEF FailureBlamed, Blamed, Verified, VerifiedCleanup, TypeOK
<1>6. CauseJustified'
  BY ContainmentAssumption DEF CauseJustified, NoCause, Cause, TypeOK
<1>7. GroupKept' /\ StatusSet'
  BY DEF GroupKept, Verified, VerifiedCleanup, GroupExists, StatusSet, FactsValid, Finished,
         StatusPairs
<1> QED
  BY <1>1, <1>2, <1>3, <1>4, <1>5, <1>6, <1>7

LEMMA FeedDoneStep ==
    ASSUME IInv, FeedDone
    PROVE  IInv'
<1> USE DEF IInv, FeedDone, treeVars, pipeVars, mainVars
<1>1. TypeOK'
  BY DEF TypeOK
<1>2. ThreadsJudged'
  BY DEF ThreadsJudged, Alive, Verified, VerifiedCleanup
<1>3. NotLaunched' /\ GroupKept' /\ BytesAccounted' /\ FailureBlamed' /\ StatusSet' /\ CauseJustified'
  BY DEF NotLaunched, GroupKept, Verified, VerifiedCleanup, GroupExists, BytesAccounted,
         FailureBlamed, Blamed, StatusSet, FactsValid, Finished, StatusPairs, CauseJustified
<1> QED
  BY <1>1, <1>2, <1>3

LEMMA FeedFailsStep ==
    ASSUME IInv, FeedFails
    PROVE  IInv'
<1> USE DEF IInv, FeedFails, Rejected, Spend, treeVars, pipeVars, mainVars
<1>1. TypeOK'
  BY ContainmentAssumption DEF TypeOK, Cause, NoCause
<1>2. NotLaunched'
  BY DEF NotLaunched, NoCause
<1>3. BytesAccounted'
  BY DEF BytesAccounted, NoCause
<1>4. ThreadsJudged'
  BY DEF ThreadsJudged, Alive, Verified, VerifiedCleanup, NoCause
<1>5. FailureBlamed'
  BY DEF FailureBlamed, Blamed, Verified, VerifiedCleanup, TypeOK
<1>6. CauseJustified'
  BY ContainmentAssumption DEF CauseJustified, NoCause, Cause, TypeOK
<1>7. GroupKept' /\ StatusSet'
  BY DEF GroupKept, Verified, VerifiedCleanup, GroupExists, StatusSet, FactsValid, Finished,
         StatusPairs
<1> QED
  BY <1>1, <1>2, <1>3, <1>4, <1>5, <1>6, <1>7

LEMMA FeedCloseStep ==
    ASSUME IInv, FeedClose
    PROVE  IInv'
<1> USE DEF IInv, FeedClose, treeVars, pipeVars, mainVars
<1>1. TypeOK'
  BY DEF TypeOK
<1>2. ThreadsJudged'
  BY DEF ThreadsJudged, Alive, Verified, VerifiedCleanup
<1>3. NotLaunched' /\ GroupKept' /\ BytesAccounted' /\ FailureBlamed' /\ StatusSet' /\ CauseJustified'
  BY DEF NotLaunched, GroupKept, Verified, VerifiedCleanup, GroupExists, BytesAccounted,
         FailureBlamed, Blamed, StatusSet, FactsValid, Finished, StatusPairs, CauseJustified
<1> QED
  BY <1>1, <1>2, <1>3

-----------------------------------------------------------------------------
(* The child and its descendants *)

LEMMA ForkStep ==
    ASSUME IInv, NEW p \in Process, NEW q \in Child, Fork(p, q)
    PROVE  IInv'
<1> USE DEF IInv, Fork, Running, pipeVars, threadVars, mainVars
<1>1. TypeOK'
  BY DEF TypeOK, Process
<1>2. NotLaunched'
  BY DEF NotLaunched, Process
<1>3. GroupKept'
  BY ContainmentAssumption DEF GroupKept, Verified, VerifiedCleanup, GroupExists, Process,
         TypeOK
<1>4. BytesAccounted'
  BY DEF BytesAccounted
<1>5. ThreadsJudged' /\ FailureBlamed' /\ StatusSet' /\ CauseJustified'
  BY DEF ThreadsJudged, Alive, Verified, VerifiedCleanup, FailureBlamed, Blamed, StatusSet,
         FactsValid, Finished, StatusPairs, CauseJustified
<1> QED
  BY <1>1, <1>2, <1>3, <1>4, <1>5

LEMMA WriteByteStep ==
    ASSUME IInv, NEW p \in Process, NEW s \in Stream, WriteByte(p, s)
    PROVE  IInv'
<1> USE DEF IInv, WriteByte, Running, treeVars, threadVars, mainVars
<1>1. TypeOK'
  <2>1. /\ written' = [written EXCEPT ![s] = @ + 1] /\ unread' = [unread EXCEPT ![s] = @ + 1]
        /\ written \in [Stream -> Nat] /\ unread \in [Stream -> Nat]
        /\ written[s] < MaxBytes[s] /\ MaxBytes[s] \in Nat /\ unread[s] <= written[s]
    BY ContainmentAssumption DEF BytesAccounted
  <2>2. \A t \in Stream : /\ written'[t] = IF t = s THEN written[t] + 1 ELSE written[t]
                          /\ unread'[t] = IF t = s THEN unread[t] + 1 ELSE unread[t]
    BY <2>1
  <2>3. \A t \in Stream : written'[t] \in 0 .. MaxBytes[t] /\ unread'[t] \in 0 .. MaxBytes[t]
    BY <2>1, <2>2 DEF TypeOK
  <2> QED
    BY <2>3 DEF TypeOK
<1>2. BytesAccounted'
  <2>1. /\ written' = [written EXCEPT ![s] = @ + 1] /\ unread' = [unread EXCEPT ![s] = @ + 1]
        /\ written \in [Stream -> Nat] /\ unread \in [Stream -> Nat]
        /\ written[s] < MaxBytes[s] /\ MaxBytes[s] \in Nat /\ unread[s] <= written[s]
    BY ContainmentAssumption DEF BytesAccounted
  <2>2. \A t \in Stream : /\ written'[t] = IF t = s THEN written[t] + 1 ELSE written[t]
                          /\ unread'[t] = IF t = s THEN unread[t] + 1 ELSE unread[t]
    BY <2>1
  <2>3. written' \in [Stream -> Nat] /\ unread' \in [Stream -> Nat]
    BY <2>1
  <2>4. \A t \in Stream : written[t] \in Nat /\ unread[t] \in Nat /\ buffer[t] \in Nat /\ Limit[t] \in Nat
    BY ContainmentAssumption DEF BytesAccounted, TypeOK
  <2>5. ~(reader[s] \in {"closing", "done"} /\ cause = NoCause)
    BY DEF BytesAccounted
  <2> QED
    BY <2>2, <2>3, <2>4, <2>5 DEF BytesAccounted
<1>3. CauseJustified'
  <2>1. /\ written' = [written EXCEPT ![s] = @ + 1] /\ unread' = [unread EXCEPT ![s] = @ + 1]
        /\ written \in [Stream -> Nat] /\ unread \in [Stream -> Nat]
        /\ written[s] < MaxBytes[s] /\ MaxBytes[s] \in Nat /\ unread[s] <= written[s]
    BY ContainmentAssumption DEF BytesAccounted
  <2>2. \A t \in Stream : /\ written'[t] = IF t = s THEN written[t] + 1 ELSE written[t]
                          /\ unread'[t] = IF t = s THEN unread[t] + 1 ELSE unread[t]
    BY <2>1
  <2>3. \A t \in Stream : written[t] > Limit[t] => written'[t] > Limit[t]
    <3> TAKE t \in Stream
    <3>1. written[t] \in Nat /\ Limit[t] \in Nat
      BY <2>1, ContainmentAssumption
    <3> QED
      BY <2>2, <3>1
  <2> QED
    BY <2>3 DEF CauseJustified
<1>4. NotLaunched' /\ GroupKept' /\ ThreadsJudged' /\ FailureBlamed' /\ StatusSet'
  BY DEF NotLaunched, GroupKept, Verified, VerifiedCleanup, GroupExists, ThreadsJudged,
         Alive, FailureBlamed, Blamed, StatusSet, FactsValid, Finished, StatusPairs
<1> QED
  BY <1>1, <1>2, <1>3, <1>4

LEMMA EscapeStep ==
    ASSUME IInv, NEW p \in Process, Escape(p)
    PROVE  IInv'
<1> USE DEF IInv, Escape, Running, pipeVars, threadVars, mainVars
<1>1. TypeOK'
  BY DEF TypeOK, Process
<1>2. NotLaunched'
  BY DEF NotLaunched
<1>3. GroupKept'
  BY DEF GroupKept, Verified, VerifiedCleanup, GroupExists, Process
<1>4. BytesAccounted' /\ ThreadsJudged' /\ FailureBlamed' /\ StatusSet' /\ CauseJustified'
  BY DEF BytesAccounted, ThreadsJudged, Alive, Verified, VerifiedCleanup, FailureBlamed,
         Blamed, StatusSet, FactsValid, Finished, StatusPairs, CauseJustified
<1> QED
  BY <1>1, <1>2, <1>3, <1>4

LEMMA ClosePipesStep ==
    ASSUME IInv, NEW p \in Process, ClosePipes(p)
    PROVE  IInv'
<1> USE DEF IInv, ClosePipes, Running, pipeVars, threadVars, mainVars
<1>1. TypeOK'
  BY DEF TypeOK, Process
<1>2. NotLaunched'
  BY DEF NotLaunched
<1>3. BytesAccounted'
  BY DEF BytesAccounted
<1>4. GroupKept' /\ ThreadsJudged' /\ FailureBlamed' /\ StatusSet' /\ CauseJustified'
  BY DEF GroupKept, Verified, VerifiedCleanup, GroupExists, ThreadsJudged, Alive,
         FailureBlamed, Blamed, StatusSet, FactsValid, Finished, StatusPairs, CauseJustified
<1> QED
  BY <1>1, <1>2, <1>3, <1>4

LEMMA ExitStep ==
    ASSUME IInv, NEW p \in Process, Exit(p)
    PROVE  IInv'
<1> USE DEF IInv, Exit, Running, pipeVars, threadVars, mainVars
<1>1. TypeOK'
  BY DEF TypeOK, Process
<1>2. NotLaunched'
  BY DEF NotLaunched, Process
<1>3. GroupKept'
  BY ContainmentAssumption DEF GroupKept, Verified, VerifiedCleanup, GroupExists, Process,
         TypeOK
<1>4. BytesAccounted'
  BY DEF BytesAccounted
<1>5. ThreadsJudged' /\ FailureBlamed' /\ StatusSet' /\ CauseJustified'
  BY DEF ThreadsJudged, Alive, Verified, VerifiedCleanup, FailureBlamed, Blamed, StatusSet,
         FactsValid, Finished, StatusPairs, CauseJustified
<1> QED
  BY <1>1, <1>2, <1>3, <1>4, <1>5

-----------------------------------------------------------------------------
(* Deadlines *)

LEMMA ExpireStep ==
    ASSUME IInv, NEW d \in Deadline, Expire(d)
    PROVE  IInv'
<1> USE DEF IInv, Expire, treeVars, pipeVars, threadVars, mainVars
<1>1. TypeOK'
  BY DEF TypeOK, Deadline
<1>2. ThreadsJudged'
  BY DEF ThreadsJudged, Alive, Verified, VerifiedCleanup
<1>3. FailureBlamed'
  BY DEF FailureBlamed, Blamed, Verified, VerifiedCleanup
<1>4. CauseJustified'
  BY DEF CauseJustified
<1>5. NotLaunched' /\ GroupKept' /\ BytesAccounted' /\ StatusSet'
  BY DEF NotLaunched, GroupKept, Verified, VerifiedCleanup, GroupExists, BytesAccounted,
         StatusSet, FactsValid, Finished, StatusPairs
<1> QED
  BY <1>1, <1>2, <1>3, <1>4, <1>5

-----------------------------------------------------------------------------
(* The invariant and what follows from it *)

LEMMA Initially == Init => IInv
<1> SUFFICES ASSUME Init PROVE IInv
  OBVIOUS
<1> USE DEF Init, NoCause
<1>1. TypeOK
  <2>1. /\ faults \in 0 .. MaxFaults
        /\ \A s \in Stream : written[s] \in 0 .. MaxBytes[s] /\ unread[s] \in 0 .. MaxBytes[s]
        /\ buffer \in [Stream -> Nat] /\ \A s \in Stream : buffer[s] <= Limit[s]
    BY ContainmentAssumption
  <2> QED
    BY <2>1 DEF TypeOK, Cause, MainStep
<1>2. NotLaunched /\ GroupKept
  BY DEF NotLaunched, GroupKept, Process
<1>3. BytesAccounted
  BY DEF BytesAccounted
<1>4. ThreadsJudged /\ FailureBlamed /\ StatusSet /\ CauseJustified
  BY DEF ThreadsJudged, FailureBlamed, StatusSet, FactsValid, Finished, CauseJustified
<1> QED
  BY <1>1, <1>2, <1>3, <1>4 DEF IInv

LEMMA CallerKeeps ==
    ASSUME IInv, CallerStep \/ Interrupt
    PROVE  IInv'
BY LaunchStep, LaunchFailsStep, PollStep, ClockStep, InterruptStep, LeavingStep, ParentStep,
   TerminateStep, GroupGoneStep, KillGroupStep, SignalFailsStep, ReapStep, GroupExitStep,
   KillStep, KillWaitStep, JoinStep, CheckAliveStep, ResultStep DEF CallerStep

LEMMA ThreadsKeep ==
    ASSUME IInv, ThreadStep
    PROVE  IInv'
BY ReadChunkStep, EndOfStreamStep, RejectOverflowStep, ReadFailsStep, CloseStreamStep,
   CloseFailsStep, FeedDoneStep, FeedFailsStep, FeedCloseStep DEF ThreadStep

LEMMA TreeKeeps ==
    ASSUME IInv, TreeStep
    PROVE  IInv'
BY ForkStep, WriteByteStep, EscapeStep, ClosePipesStep, ExitStep DEF TreeStep

LEMMA StutterKeeps ==
    ASSUME IInv, UNCHANGED vars
    PROVE  IInv'
<1> USE DEF IInv, vars, treeVars, pipeVars, threadVars, mainVars
<1>1. TypeOK' /\ NotLaunched'
  BY DEF TypeOK, NotLaunched
<1>2. GroupKept' /\ BytesAccounted'
  BY DEF GroupKept, Verified, GroupExists, BytesAccounted
<1>3. ThreadsJudged' /\ FailureBlamed'
  BY DEF ThreadsJudged, Alive, Verified, FailureBlamed, Blamed
<1>4. StatusSet' /\ CauseJustified'
  BY DEF StatusSet, FactsValid, Finished, CauseJustified
<1> QED
  BY <1>1, <1>2, <1>3, <1>4

LEMMA Invariance == Spec => []IInv
<1>1. IInv /\ [Next]_vars => IInv'
  <2> SUFFICES ASSUME IInv, [Next]_vars PROVE IInv'
    OBVIOUS
  <2>1. CASE CallerStep \/ Interrupt
    BY <2>1, CallerKeeps
  <2>2. CASE ThreadStep
    BY <2>2, ThreadsKeep
  <2>3. CASE TreeStep
    BY <2>3, TreeKeeps
  <2>4. CASE \E d \in Deadline : Expire(d)
    BY <2>4, ExpireStep
  <2>5. CASE UNCHANGED vars
    BY <2>5, StutterKeeps
  <2> QED
    BY <2>1, <2>2, <2>3, <2>4, <2>5 DEF Next
<1> QED
  BY <1>1, Initially, PTL DEF Spec

\* A verified cleanup: no live or unreaped member of the group, no thread on the pipes.
LEMMA VerifiedIsClean == IInv => VerifiedLeavesNothing
<1> SUFFICES ASSUME IInv, main = "done", Verified
             PROVE  /\ ~GroupExists
                    /\ proc[Leader] \in {"absent", "gone"}
                    /\ started => ~Alive
  BY DEF VerifiedLeavesNothing
<1>1. CASE started
  <2>1. ~GroupExists /\ Leader \in grouped
    BY <1>1 DEF IInv, GroupKept
  <2>2. proc[Leader] \in {"absent", "gone"}
    BY <2>1 DEF GroupExists, IInv, TypeOK, Process
  <2> QED
    BY <2>1, <2>2, <1>1 DEF IInv, ThreadsJudged
<1>2. CASE ~started
  BY <1>2 DEF IInv, TypeOK, NotLaunched, GroupExists, Process
<1> QED
  BY <1>1, <1>2 DEF IInv, TypeOK

\* Without a cause every reader has met the end of its stream.
LEMMA CompletedHoldsAll == IInv => CompletedIsComplete
<1> SUFFICES ASSUME IInv, Finished, status = "completed", NEW s \in Stream
             PROVE  buffer[s] = written[s]
  BY DEF CompletedIsComplete
<1>1. cause = NoCause /\ reader[s] = "done"
  BY DEF IInv, ThreadsJudged, Finished, Alive
<1> QED
  BY <1>1 DEF IInv, BytesAccounted

\* What a contained call returns is true and complete for every process tree, limit
\* and schedule of exits, deadlines, overflows and failing calls (run_process_contained).
THEOREM ReportIsTruthful == Spec => []ReportTruthful
<1>1. IInv => ReportTruthful
  <2> SUFFICES ASSUME IInv PROVE ReportTruthful
    OBVIOUS
  <2>1. FactsValid /\ CauseJustified /\ TypeOK
    BY DEF IInv, StatusSet
  <2>2. FailureJustified
    BY DEF IInv, FailureBlamed, Blamed, FailureJustified
  <2> QED
    BY <2>1, <2>2, VerifiedIsClean, CompletedHoldsAll DEF ReportTruthful
<1> QED
  BY <1>1, Invariance, PTL

\* The first cause is the one reported: neither a later failure of a thread, nor the
\* deadline, nor the failed cleanup replaces it (reject).
THEOREM FirstCauseStands == Spec => CauseKept
<1>1. [Next]_vars => [cause # NoCause => cause' = cause]_vars
  BY DEF Next, CallerStep, ThreadStep, TreeStep, Launch, LaunchFails, Poll, Clock, Interrupt,
         Leaving, Parent, Terminate, GroupGone, KillGroup, SignalFails, Reap, GroupExit, Kill,
         KillWait, Join, CheckAlive, Result, ReadChunk, EndOfStream, RejectOverflow, ReadFails,
         CloseStream, CloseFails, FeedDone, FeedFails, FeedClose, Fork, WriteByte, Escape,
         ClosePipes, Exit, Expire, Rejected, treeVars, pipeVars, threadVars, mainVars
<1> QED
  BY <1>1, PTL DEF Spec, CauseKept

\* The bytes handed to the caller are the caller's: once the call is over and its
\* cleanup verified, nothing touches the buffers or the cause (the threads are gone).
THEOREM CaptureIsFinal ==
    Spec => [][main = "done" /\ started /\ Verified =>
                   UNCHANGED <<buffer, cause, reader, feeder>>]_vars
<1>1. IInv /\ [Next]_vars => [main = "done" /\ started /\ Verified =>
                                  UNCHANGED <<buffer, cause, reader, feeder>>]_vars
  <2> SUFFICES ASSUME IInv, Next, main = "done", started, Verified
               PROVE  UNCHANGED <<buffer, cause, reader, feeder>>
    BY DEF vars
  <2>1. feeder = "done" /\ \A s \in Stream : reader[s] = "done"
    BY DEF IInv, ThreadsJudged, Alive
  <2>2. CASE CallerStep \/ Interrupt
    BY <2>2 DEF CallerStep, Launch, LaunchFails, Poll, Clock, Interrupt, Leaving, Parent,
         Terminate, GroupGone, KillGroup, SignalFails, Reap, GroupExit, Kill, KillWait, Join,
         CheckAlive, Result
  <2>3. CASE ThreadStep
    BY <2>1, <2>3 DEF ThreadStep, ReadChunk, EndOfStream, RejectOverflow, ReadFails,
         CloseStream, CloseFails, FeedDone, FeedFails, FeedClose
  <2>4. CASE TreeStep
    BY <2>4 DEF TreeStep, Fork, WriteByte, Escape, ClosePipes, Exit, pipeVars, threadVars
  <2>5. CASE \E d \in Deadline : Expire(d)
    BY <2>5 DEF Expire, pipeVars, threadVars
  <2> QED
    BY <2>2, <2>3, <2>4, <2>5 DEF Next
<1> QED
  BY <1>1, Invariance, PTL DEF Spec

=============================================================================
