------------------------------ MODULE CodexTrace ------------------------------
(***************************************************************************)
(* The reader of an agent's event trace (evolution/_codex_jsonl.py): one   *)
(* pass over the lines, in which the first event out of place rejects the  *)
(* whole trace, and a completed turn is attested only at its end.          *)
(*                                                                         *)
(* An event is a record: its kind, the tool it completed (0 for none), and *)
(* whether its own fields are well formed (identity, usage, item).         *)
(***************************************************************************)
EXTENDS Integers, Sequences, FiniteSets

VARIABLES trace,     \* the events read so far
          reading    \* the locals of the loop: what they have shown

traceVars == <<trace, reading>>

Kinds == {"thread.started", "turn.started", "turn.failed", "error", "turn.completed",
          "item", "unknown_critical", "other", "malformed"}

FactsBegin == [session |-> FALSE, turn |-> FALSE, completed |-> FALSE, tools |-> {},
               error |-> "none"]

\* The events that are accepted in a state of the reading.
InOrder(facts, event) ==
    /\ event.sound
    /\ CASE event.kind = "thread.started" -> ~facts.session /\ ~facts.completed /\ ~facts.turn
         [] event.kind = "turn.started"   -> facts.session /\ ~facts.completed /\ ~facts.turn
         [] event.kind = "turn.completed" -> facts.session /\ ~facts.completed
         [] event.kind = "item"           -> /\ facts.session /\ ~facts.completed
                                             /\ event.tool \notin facts.tools
         [] OTHER                         -> event.kind = "other"

\* Mutant of ReadEvent: an event after the end of the turn is skipped.
ReadEventSkipping(facts, event) ==
    IF facts.error # "none" \/ (facts.completed /\ event.kind # "thread.started") THEN facts
    ELSE CASE event.kind = "thread.started" -> [facts EXCEPT !.session = TRUE]
           [] event.kind = "turn.completed" -> [facts EXCEPT !.completed = facts.session]
           [] OTHER                         -> facts

ReadEvent(facts, event) ==
    IF facts.error # "none" THEN facts
    ELSE IF ~InOrder(facts, event) THEN [facts EXCEPT !.error = event.kind]
    ELSE CASE event.kind = "thread.started" -> [facts EXCEPT !.session = TRUE]
           [] event.kind = "turn.started"   -> [facts EXCEPT !.turn = TRUE]
           [] event.kind = "turn.completed" -> [facts EXCEPT !.completed = TRUE]
           [] event.kind = "item" /\ event.tool # 0 -> [facts EXCEPT !.tools = @ \cup {event.tool}]
           [] OTHER                         -> facts

TraceInit == trace = << >> /\ reading = FactsBegin

\* One turn of the loop; a rejected trace stays rejected whatever follows.
Emit(event) ==
    /\ trace' = Append(trace, event)
    /\ reading' = ReadEvent(reading, event)

\* What a trace that ends here attests: a rejected one keeps its session but no turn.
ParseTrace ==
    LET whole == reading.error = "none" /\ reading.session /\ reading.completed
    IN  [session |-> reading.session, completed |-> whole,
         tools |-> Cardinality(reading.tools), error |-> ~whole]
-----------------------------------------------------------------------------
Places(kind) == {n \in DOMAIN trace : trace[n].kind = kind}

\* A completed turn is attested exactly by a trace of one session that is opened
\* before anything happens in it and one turn that is closed after everything
\* else, in which nothing failed and no tool call ended twice
\* (_codex_jsonl.parse_codex_trace).
TurnAttested ==
    ParseTrace.completed <=>
        \E open \in Places("thread.started"), close \in Places("turn.completed") :
            /\ Places("thread.started") = {open} /\ Places("turn.completed") = {close}
            /\ open < close
            /\ Places("turn.failed") \cup Places("error") \cup Places("unknown_critical")
               \cup Places("malformed") = {}
            /\ \A n \in Places("item") \cup Places("turn.started") : open < n /\ n < close
            /\ Cardinality(Places("turn.started")) <= 1
            /\ \A n \in DOMAIN trace : trace[n].sound
            /\ \A n, k \in Places("item") :
                  n # k /\ trace[n].tool # 0 => trace[n].tool # trace[k].tool
=============================================================================
