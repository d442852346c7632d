------------------------------ MODULE AgentTrial ------------------------------
(***************************************************************************)
(* The agent smoke trial (evolution/agent_forward_trial.py): one job with  *)
(* a baseline and a candidate arm in sibling directories of one temporary  *)
(* root, each called once; the status is drawn from both observations and  *)
(* the one clean-up.                                                       *)
(***************************************************************************)
EXTENDS AgentCall

TrialArms == <<"baseline", "candidate">>

\* Everything refused by an exception before the root is made.
TrialReady(p) ==
    /\ p.kind = "trial"
    /\ p.retries = 0 /\ ~p.seeded /\ ~p.restricted
    /\ "skill_runtime" \in DOMAIN p.config.floors /\ p.config.floors["skill_runtime"] = 1
    /\ LeastPrivilege(p)
    /\ p.routed /\ p.exact
    /\ p.pinned /\ p.config.runner = p.runner /\ p.config.scorer # "any"
    /\ p.static = "static_pass" /\ p.semantic = "protocol_accept" /\ p.synthetic

BeginTrial(p) ==
    /\ TrialReady(p)
    /\ Begin(p, TrialArms)

\* Which Skill an arm's answer must report as loaded.
RuntimeExpectation(p, arm) ==
    IF arm = "candidate" /\ p.expectLoaded THEN "candidate" ELSE "none"

RuntimeMatches(p, seen, arm) == seen[arm].loaded = RuntimeExpectation(p, arm)

\* One arm through the evaluation pipeline, its oracle extended by the runtime
\* expected of it.  The output's own account of the runtime is right if it says
\* exactly what was observed and that is what was expected.
TrialEvaluation(p, seen, arm) ==
    LET replay == seen[arm].replay
        scored == replay.output.right
                  \ {d \in {"skill_runtime"} : ~RuntimeMatches(p, seen, arm)}
    IN  Observe([replay EXCEPT !.output = [right |-> scored, marks |-> replay.output.marks,
                                           readable |-> replay.output.readable]],
                p.oracle \cup {"skill_runtime"}, p.runner, p.config)

SessionsDistinct(seen) == seen["baseline"].session # seen["candidate"].session

\* "result": of some arm there is none, or its verdict is not pass.
PairBlockers(p, seen) ==
    {b \in {"workspace_cleanup_failed", "runtime", "result", "sessions"} :
        \/ b = "workspace_cleanup_failed" /\ root = "left"
        \/ b = "runtime" /\ \E arm \in DOMAIN seen : ~RuntimeMatches(p, seen, arm)
        \/ b = "result" /\ \E arm \in DOMAIN seen :
              TrialEvaluation(p, seen, arm).verdict # "pass"
        \/ b = "sessions" /\ p.real /\ ~SessionsDistinct(seen)
              /\ \A arm \in DOMAIN seen : seen[arm].session # 0}

TrialBlockers(p, seen) ==
    PairBlockers(p, seen) \cup UNION {ArmBlockers(arm, p.real) : arm \in DOMAIN seen}

TrialStatus(p, seen) ==
    CASE TrialBlockers(p, seen) = {} -> "smoke_completed"
      [] TrialBlockers(p, seen) # {}
         /\ \A arm \in DOMAIN seen : TrialEvaluation(p, seen, arm).result -> "smoke_rejected"
      [] OTHER -> "smoke_inconclusive"

ConcludeTrial ==
    /\ job.kind = "trial" /\ step = "conclude"
    /\ Over(IF job.raised THEN "raised" ELSE TrialStatus(job, observed))
-----------------------------------------------------------------------------
\* A smoke is completed only if both arms ran, with the Skill loaded in exactly
\* the arm it was expected in, both outputs meet every floor and carry no mark the
\* safety or privacy patterns forbid, neither arm left a process and the directory
\* is gone, and real agents ended their turns in two sessions of their own
\* (agent_forward_trial.run_agent_skill_forward_trial).
SmokeJustified ==
    outcome.status = "smoke_completed" =>
        LET p == outcome.plan
            o == outcome.seen
            output(arm) == o[arm].replay.output
        IN  /\ DOMAIN o = {"baseline", "candidate"}
            /\ outcome.root = "gone" /\ outcome.alive = {}
            /\ o["baseline"].loaded = "none"
            /\ o["candidate"].loaded = "candidate" <=> p.expectLoaded
            /\ \A arm \in DOMAIN o :
                  /\ o[arm].replay.ok /\ Verified(o[arm])
                  /\ \A d \in DOMAIN p.config.floors :
                        p.config.floors[d] = 1 => d \in output(arm).right
                  /\ p.config.safety  => "unsafe"  \notin output(arm).marks
                  /\ p.config.privacy => "private" \notin output(arm).marks
            /\ p.real => /\ o["baseline"].turn /\ o["candidate"].turn
                         /\ o["baseline"].session # o["candidate"].session
=============================================================================
