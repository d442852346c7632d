------------------------- MODULE ProcessContainment -------------------------
(***************************************************************************)
(* evolution/_process_containment.py on POSIX: one run_process_contained   *)
(* call.  The caller's thread polls the child against a deadline and then  *)
(* cleans its process group up; two reader threads drain its output up to  *)
(* a limit and one thread feeds its input; the child forks, writes, leaves *)
(* the group, ignores signals and exits whenever it likes.                 *)
(*                                                                         *)
(* Time is the set of deadlines that have passed.  Output is counted in    *)
(* bytes.  Starting the three threads and the first failed.wait of the     *)
(* loop are not steps of their own.                                        *)
(***************************************************************************)
EXTENDS Naturals, FiniteSets

CONSTANTS Leader,    \* the process Popen started
          Child,     \* processes it or its descendants may fork
          Stream,    \* "stdout" and "stderr"
          Limit,     \* stdout_max_bytes, stderr_max_bytes
          MaxBytes,  \* bound on the bytes written to each stream
          MaxFaults  \* bound on failing system calls

ASSUME ContainmentAssumption ==
    /\ Leader \notin Child
    /\ Limit \in [Stream -> Nat \ {0}]
    /\ MaxBytes \in [Stream -> Nat]
    /\ MaxFaults \in Nat

Process == {Leader} \cup Child

VARIABLES
    proc,     \* life of each process
    grouped,  \* processes still in the process group of the leader
    holding,  \* processes holding the write ends of the output pipes
    deadly,   \* running processes SIGKILL was sent to
    written,  \* bytes written to each stream
    buffer,   \* bytes captured of each stream
    unread,   \* bytes in each pipe
    reader,   \* where each drain thread is
    feeder,   \* where the feed thread is
    cause,    \* causes[0], or NoCause
    expired,  \* the deadlines that have passed
    main,     \* where run_process_contained is
    started,  \* process_started
    cleanup,  \* cleanup_status; cleanup_verified is Verified
    status,   \* execution_status of the result
    faults    \* failed system calls so far

treeVars == <<proc, grouped, holding, deadly>>
pipeVars == <<written, buffer, unread>>
threadVars == <<reader, feeder>>
mainVars == <<main, started, cleanup, status>>
vars == <<treeVars, pipeVars, threadVars, cause, expired, mainVars, faults>>

-----------------------------------------------------------------------------

StatusPairs ==
    {<<"completed", "not_required">>, <<"completed", "verified">>, <<"completed", "failed">>,
     <<"timeout", "verified">>, <<"launch_failed", "not_started">>,
     <<"cleanup_failed", "failed">>, <<"executor_failed", "unverified">>,
     <<"executor_failed", "verified">>}

VerifiedCleanup == {"not_required", "not_started", "verified"}

NoCause == <<"none">>
Cause == {NoCause, <<"timeout">>, <<"stdin_write_failed">>, <<"pipe_cleanup_failed">>}
         \cup ({"limit_exceeded", "read_failed", "close_failed"} \X Stream)

Deadline == {"run", "graceful", "cleanup", "kill", "join"}

MainStep == {"launch", "poll", "clock", "leaving", "terminate", "graceful", "reap",
             "groupExit", "kill", "killWait", "parent", "join", "alive", "result", "done"}

TypeOK ==
    /\ proc \in [Process -> {"absent", "running", "zombie", "gone"}]
    /\ grouped \in SUBSET Process
    /\ holding \in SUBSET Process
    /\ deadly \in SUBSET Process
    /\ \A s \in Stream : written[s] \in 0 .. MaxBytes[s] /\ unread[s] \in 0 .. MaxBytes[s]
    /\ buffer \in [Stream -> Nat]
    /\ \A s \in Stream : buffer[s] <= Limit[s]
    /\ reader \in [Stream -> {"reading", "over", "closing", "done"}]
    /\ feeder \in {"feeding", "closing", "done"}
    /\ cause \in Cause
    /\ expired \in SUBSET Deadline
    /\ main \in MainStep
    /\ started \in BOOLEAN
    /\ cleanup \in {"failed", "not_required", "not_started", "verified"}
    /\ status \in {"pending", "raised"} \cup {pair[1] : pair \in StatusPairs}
    /\ faults \in 0 .. MaxFaults

Init ==
    /\ proc = [p \in Process |-> "absent"]
    /\ grouped = {}
    /\ holding = {}
    /\ deadly = {}
    /\ written = [s \in Stream |-> 0]
    /\ buffer = [s \in Stream |-> 0]
    /\ unread = [s \in Stream |-> 0]
    /\ reader = [s \in Stream |-> "reading"]
    /\ feeder = "feeding"
    /\ cause = NoCause
    /\ expired = {}
    /\ main = "launch"
    /\ started = FALSE
    /\ cleanup = "failed"
    /\ status = "pending"
    /\ faults = 0

-----------------------------------------------------------------------------
(* The child and its descendants *)

Running(p) == proc[p] = "running"

\* os.killpg(pgid, 0): an unreaped leader keeps its group in existence.
GroupExists == \E p \in grouped : proc[p] \in {"running", "zombie"}

\* A fork inherits the group and the pipes of its parent.
Fork(p, q) ==
    /\ Running(p) /\ p \notin deadly
    /\ proc[q] = "absent"
    /\ proc' = [proc EXCEPT ![q] = "running"]
    /\ grouped' = IF p \in grouped THEN grouped \cup {q} ELSE grouped
    /\ holding' = IF p \in holding THEN holding \cup {q} ELSE holding
    /\ UNCHANGED <<deadly, pipeVars, threadVars, cause, expired, mainVars, faults>>

\* setsid: a descendant, never the leader, leaves the process group.
Escape(p) ==
    /\ Running(p) /\ p \notin deadly
    /\ p \in grouped \ {Leader}
    /\ grouped' = grouped \ {p}
    /\ UNCHANGED <<proc, holding, deadly, pipeVars, threadVars, cause, expired, mainVars,
                   faults>>

\* A daemon closes the output it inherited.
ClosePipes(p) ==
    /\ Running(p)
    /\ p \in holding
    /\ holding' = holding \ {p}
    /\ UNCHANGED <<proc, grouped, deadly, pipeVars, threadVars, cause, expired, mainVars,
                   faults>>

\* After the reader has closed its end a write fails and adds nothing.
WriteByte(p, s) ==
    /\ Running(p)
    /\ p \in holding
    /\ reader[s] # "done"
    /\ written[s] < MaxBytes[s]
    /\ written' = [written EXCEPT ![s] = @ + 1]
    /\ unread' = [unread EXCEPT ![s] = @ + 1]
    /\ UNCHANGED <<buffer, treeVars, threadVars, cause, expired, mainVars, faults>>

\* Of its own accord, by SIGTERM or by SIGKILL.  The leader stays a zombie until the
\* caller waits for it; a descendant is reaped by its parent or by init.
Exit(p) ==
    /\ Running(p)
    /\ proc' = [proc EXCEPT ![p] = IF p = Leader THEN "zombie" ELSE "gone"]
    /\ holding' = holding \ {p}
    /\ deadly' = deadly \ {p}
    /\ UNCHANGED <<grouped, pipeVars, threadVars, cause, expired, mainVars, faults>>

-----------------------------------------------------------------------------
(* The reader and feeder threads *)

\* Mutant of Rejected: the last cause wins.
RejectedLast(code) == code

\* reject: the first cause is kept; failed is set whenever there is one.
Rejected(code) == IF cause = NoCause THEN code ELSE cause

Spend == faults < MaxFaults /\ faults' = faults + 1

\* read1 of at most limit + 1 - len(buffer) bytes, then the locked extend.
ReadChunk(s) ==
    /\ started
    /\ reader[s] = "reading"
    /\ \E n \in 1 .. unread[s] :
        LET room == Limit[s] - buffer[s] IN
        /\ n <= room + 1
        /\ unread' = [unread EXCEPT ![s] = @ - n]
        /\ buffer' = [buffer EXCEPT ![s] = IF n <= room THEN @ + n ELSE Limit[s]]
        /\ reader' = [reader EXCEPT ![s] = IF n <= room THEN "reading" ELSE "over"]
    /\ UNCHANGED <<written, treeVars, feeder, cause, expired, mainVars, faults>>

\* read1 returns nothing: nobody holds the write end any more.
EndOfStream(s) ==
    /\ started
    /\ reader[s] = "reading"
    /\ unread[s] = 0
    /\ holding = {}
    /\ reader' = [reader EXCEPT ![s] = "closing"]
    /\ UNCHANGED <<treeVars, pipeVars, feeder, cause, expired, mainVars, faults>>

RejectOverflow(s) ==
    /\ reader[s] = "over"
    /\ cause' = Rejected(<<"limit_exceeded", s>>)
    /\ reader' = [reader EXCEPT ![s] = "closing"]
    /\ UNCHANGED <<treeVars, pipeVars, feeder, expired, mainVars, faults>>

ReadFails(s) ==
    /\ started
    /\ reader[s] = "reading"
    /\ Spend
    /\ cause' = Rejected(<<"read_failed", s>>)
    /\ reader' = [reader EXCEPT ![s] = "closing"]
    /\ UNCHANGED <<treeVars, pipeVars, feeder, expired, mainVars>>

CloseStream(s) ==
    /\ reader[s] = "closing"
    /\ reader' = [reader EXCEPT ![s] = "done"]
    /\ UNCHANGED <<treeVars, pipeVars, feeder, cause, expired, mainVars, faults>>

CloseFails(s) ==
    /\ reader[s] = "closing"
    /\ Spend
    /\ cause' = Rejected(<<"close_failed", s>>)
    /\ reader' = [reader EXCEPT ![s] = "done"]
    /\ UNCHANGED <<treeVars, pipeVars, feeder, expired, mainVars>>

\* The input is written, or nobody reads it any more and BrokenPipeError is ignored.
\* A process that does not read its input can block this for as long as it lives.
FeedDone ==
    /\ started
    /\ feeder = "feeding"
    /\ feeder' = "closing"
    /\ UNCHANGED <<treeVars, pipeVars, reader, cause, expired, mainVars, faults>>

FeedFails ==
    /\ started
    /\ feeder = "feeding"
    /\ Spend
    /\ cause' = Rejected(<<"stdin_write_failed">>)
    /\ feeder' = "closing"
    /\ UNCHANGED <<treeVars, pipeVars, reader, expired, mainVars>>

\* Closing stdin; a failure is swallowed.
FeedClose ==
    /\ feeder = "closing"
    /\ feeder' = "done"
    /\ UNCHANGED <<treeVars, pipeVars, reader, cause, expired, mainVars, faults>>

Alive == feeder # "done" \/ \E s \in Stream : reader[s] # "done"

-----------------------------------------------------------------------------
(* run_process_contained *)

Launch ==
    /\ main = "launch"
    /\ proc' = [proc EXCEPT ![Leader] = "running"]
    /\ grouped' = {Leader}
    /\ holding' = {Leader}
    /\ started' = TRUE
    /\ main' = "poll"
    /\ UNCHANGED <<deadly, pipeVars, threadVars, cause, expired, cleanup, status, faults>>

LaunchFails ==
    /\ main = "launch"
    /\ Spend
    /\ main' = "done"
    /\ status' = "launch_failed"
    /\ cleanup' = "not_started"
    /\ UNCHANGED <<treeVars, pipeVars, threadVars, cause, expired, started>>

Goto(step) ==
    /\ main' = step
    /\ UNCHANGED <<started, cleanup, status>>

\* Popen.poll and Popen.wait reap the leader once it has exited.
Reaped == proc[Leader] # "running" /\ proc' = [proc EXCEPT ![Leader] = "gone"]

Poll ==
    /\ main = "poll"
    /\ \/ cause # NoCause /\ Goto("leaving") /\ UNCHANGED proc
       \/ cause = NoCause /\ Reaped /\ Goto("leaving")
       \/ cause = NoCause /\ Running(Leader) /\ Goto("clock") /\ UNCHANGED proc
    /\ UNCHANGED <<grouped, holding, deadly, pipeVars, threadVars, cause, expired, faults>>

Clock ==
    /\ main = "clock"
    /\ IF "run" \in expired THEN cause' = Rejected(<<"timeout">>) /\ Goto("leaving")
                            ELSE UNCHANGED cause /\ Goto("poll")
    /\ UNCHANGED <<treeVars, pipeVars, threadVars, expired, faults>>

\* Cancellation or an unexpected exception of the caller: finally runs, nothing is
\* returned.
Interrupt ==
    /\ main \in {"poll", "clock"}
    /\ Spend
    /\ main' = "leaving"
    /\ status' = "raised"
    /\ UNCHANGED <<treeVars, pipeVars, threadVars, cause, expired, started, cleanup>>

\* The finally block: the leader may have exited since the loop looked at it.
Leaving ==
    /\ main = "leaving"
    /\ \/ Running(Leader) /\ Goto("terminate") /\ UNCHANGED proc
       \/ Reaped /\ Goto("parent")
    /\ UNCHANGED <<grouped, holding, deadly, pipeVars, threadVars, cause, expired, faults>>

\* _cleanup_after_completed_parent
Parent ==
    /\ main = "parent"
    /\ IF GroupExists
       THEN Goto("terminate")
       ELSE main' = "join" /\ cleanup' = "not_required" /\ UNCHANGED <<started, status>>
    /\ UNCHANGED <<treeVars, pipeVars, threadVars, cause, expired, faults>>

-----------------------------------------------------------------------------
(* _terminate_posix_process_tree *)

\* killpg(SIGTERM): what a process does with it is its own affair (Exit).
Terminate ==
    /\ main = "terminate"
    /\ Goto("graceful")
    /\ UNCHANGED <<treeVars, pipeVars, threadVars, cause, expired, faults>>

GroupGone ==
    /\ main = "graceful"
    /\ ~GroupExists
    /\ Goto("reap")
    /\ UNCHANGED <<treeVars, pipeVars, threadVars, cause, expired, faults>>

\* killpg(SIGKILL) once half of the grace has passed.
KillGroup ==
    /\ main = "graceful"
    /\ GroupExists
    /\ "graceful" \in expired
    /\ deadly' = deadly \cup {p \in grouped : Running(p)}
    /\ Goto("reap")
    /\ UNCHANGED <<proc, grouped, holding, pipeVars, threadVars, cause, expired, faults>>

\* killpg raises an OSError other than ProcessLookupError: not verified.
SignalFails ==
    /\ \/ main = "terminate"
       \/ main = "graceful" /\ GroupExists /\ "graceful" \in expired
    /\ Spend
    /\ Goto("kill")
    /\ UNCHANGED <<treeVars, pipeVars, threadVars, cause, expired>>

Reap ==
    /\ main = "reap"
    /\ \/ Reaped /\ Goto("groupExit")
       \/ Running(Leader) /\ "cleanup" \in expired /\ Goto("kill") /\ UNCHANGED proc
    /\ UNCHANGED <<grouped, holding, deadly, pipeVars, threadVars, cause, expired, faults>>

GroupExit ==
    /\ main = "groupExit"
    /\ \/ ~GroupExists /\ main' = "join" /\ cleanup' = "verified" /\ UNCHANGED <<started, status>>
       \/ GroupExists /\ "cleanup" \in expired /\ Goto("kill")
    /\ UNCHANGED <<treeVars, pipeVars, threadVars, cause, expired, faults>>

-----------------------------------------------------------------------------
(* Last resort, joins and the result *)

\* process.kill after an unverified cleanup; it does nothing to a reaped leader, so
\* that the path of a completed parent, which has no such call, may share it.
Kill ==
    /\ main = "kill"
    /\ deadly' = IF Running(Leader) THEN deadly \cup {Leader} ELSE deadly
    /\ Goto("killWait")
    /\ UNCHANGED <<proc, grouped, holding, pipeVars, threadVars, cause, expired, faults>>

KillWait ==
    /\ main = "killWait"
    /\ Goto("join")
    /\ \/ Reaped
       \/ Running(Leader) /\ "kill" \in expired /\ UNCHANGED proc
    /\ UNCHANGED <<grouped, holding, deadly, pipeVars, threadVars, cause, expired, faults>>

\* Mutants of Join: the threads get no time; they get all the time they want.
JoinNoTime ==
    /\ main = "join"
    /\ Goto("alive")
    /\ UNCHANGED <<treeVars, pipeVars, threadVars, cause, expired, faults>>
JoinForEver ==
    /\ main = "join"
    /\ ~Alive
    /\ Goto("alive")
    /\ UNCHANGED <<treeVars, pipeVars, threadVars, cause, expired, faults>>

Join ==
    /\ main = "join"
    /\ ~Alive \/ "join" \in expired
    /\ Goto("alive")
    /\ UNCHANGED <<treeVars, pipeVars, threadVars, cause, expired, faults>>

\* A thread that is still there invalidates the cleanup.
CheckAlive ==
    /\ main = "alive"
    /\ main' = IF status = "raised" THEN "done" ELSE "result"
    /\ IF Alive THEN cause' = Rejected(<<"pipe_cleanup_failed">>) /\ cleanup' = "failed"
                ELSE UNCHANGED <<cause, cleanup>>
    /\ UNCHANGED <<treeVars, pipeVars, threadVars, expired, started, status, faults>>

\* Mutant of Result: the cleanup status is left as the cleanup found it.
ResultKeepingCleanup ==
    /\ main = "result"
    /\ main' = "done"
    /\ status' = IF cause = NoCause THEN "completed"
                 ELSE IF cleanup \notin VerifiedCleanup THEN "cleanup_failed"
                 ELSE IF cause = <<"timeout">> THEN "timeout" ELSE "executor_failed"
    /\ UNCHANGED <<treeVars, pipeVars, threadVars, cause, expired, started, cleanup, faults>>

Result ==
    /\ main = "result"
    /\ main' = "done"
    /\ status' = IF cause = NoCause THEN "completed"
                 ELSE IF cleanup \notin VerifiedCleanup THEN "cleanup_failed"
                 ELSE IF cause = <<"timeout">> THEN "timeout" ELSE "executor_failed"
    /\ cleanup' = IF cause # NoCause /\ cleanup \in VerifiedCleanup THEN "verified" ELSE cleanup
    /\ UNCHANGED <<treeVars, pipeVars, threadVars, cause, expired, started, faults>>

\* Deadlines are set one after the other; each is only looked at in its own steps.
Expire(d) ==
    /\ d \notin expired
    /\ CASE d = "run" -> main \in {"poll", "clock"}
         [] d = "graceful" -> main = "graceful"
         [] d = "cleanup" -> \/ main = "graceful" /\ "graceful" \in expired
                             \/ main \in {"reap", "groupExit"}
         [] d = "kill" -> main = "killWait"
         [] d = "join" -> main = "join"
    /\ expired' = expired \cup {d}
    /\ UNCHANGED <<treeVars, pipeVars, threadVars, cause, mainVars, faults>>

-----------------------------------------------------------------------------

CallerStep ==
    \/ Launch \/ LaunchFails \/ Poll \/ Clock \/ Leaving \/ Parent
    \/ Terminate \/ GroupGone \/ KillGroup \/ SignalFails \/ Reap \/ GroupExit
    \/ Kill \/ KillWait \/ Join \/ CheckAlive \/ Result

ThreadStep ==
    \/ \E s \in Stream : \/ ReadChunk(s) \/ EndOfStream(s) \/ RejectOverflow(s)
                         \/ ReadFails(s) \/ CloseStream(s) \/ CloseFails(s)
    \/ FeedDone \/ FeedFails \/ FeedClose

TreeStep ==
    \E p \in Process : \/ \E q \in Child : Fork(p, q)
                       \/ \E s \in Stream : WriteByte(p, s)
                       \/ Escape(p) \/ ClosePipes(p) \/ Exit(p)

Next == CallerStep \/ Interrupt \/ ThreadStep \/ TreeStep \/ \E d \in Deadline : Expire(d)

Spec == Init /\ [][Next]_vars

\* The caller's thread runs and time passes; nothing is assumed of the processes and
\* of the three worker threads.
FairSpec ==
    /\ Spec
    /\ WF_vars(CallerStep)
    /\ WF_vars(\E d \in Deadline : Expire(d))

-----------------------------------------------------------------------------
(* Properties *)

Finished == main = "done" /\ status # "raised"
Verified == cleanup \in VerifiedCleanup

\* Execution and cleanup facts always form one of the pairs the consumers accept
\* (process_facts_are_valid), in every interleaving of exit, deadline and rejection.
FactsValid == Finished => <<status, cleanup>> \in StatusPairs

\* A cleanup reported as verified (or as not required) leaves no member of the owned
\* process group, no unreaped leader and no thread on the pipes, now or later.
VerifiedLeavesNothing ==
    main = "done" /\ Verified => /\ ~GroupExists
                                 /\ proc[Leader] \in {"absent", "gone"}
                                 /\ started => ~Alive

\* "completed" vouches for the captured bytes: they are all that was ever written,
\* neither truncated at the limit nor cut by the end of the call.
CompletedIsComplete ==
    Finished /\ status = "completed" => \A s \in Stream : buffer[s] = written[s]

\* The primary cause is real, whatever was racing it: a timeout only past the
\* deadline, an overflow only past the limit, a failure only after a failing call.
CauseJustified ==
    /\ cause = <<"timeout">> => "run" \in expired
    /\ cause = <<"pipe_cleanup_failed">> => "join" \in expired
    /\ \A s \in Stream : cause = <<"limit_exceeded", s>> => written[s] > Limit[s]
    /\ cause = <<"stdin_write_failed">> => faults > 0
    /\ \A s \in Stream, code \in {"read_failed", "close_failed"} : cause = <<code, s>> => faults > 0

\* A cleanup is reported failed only if a signal could not be sent, a cleanup
\* deadline passed or the joins ran out of time: a process tree that goes away in
\* time is never reported as left behind.
FailureJustified ==
    main = "done" /\ ~Verified => faults > 0 \/ expired \cap {"cleanup", "join"} # {}

\* What the call returns is true and complete, for every interleaving of the exit,
\* the deadlines, the overflows and the failing calls (run_process_contained).
ReportTruthful ==
    /\ TypeOK
    /\ FactsValid
    /\ VerifiedLeavesNothing
    /\ CompletedIsComplete
    /\ CauseJustified
    /\ FailureJustified

\* Primary execution failure survives a later cleanup failure.
CauseKept == [][cause # NoCause => cause' = cause]_vars

\* Every call comes to an end, also when the child ignores SIGTERM, when it never
\* reads its input, or when an escaped descendant keeps the pipes open.
CallReturns == <>(main = "done")
=============================================================================
