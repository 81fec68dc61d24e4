------------------------------ MODULE TimedCall ------------------------------
(***************************************************************************)
(* What agent_bench.runner.isolation.run_isolated promises its callers: an *)
(* episode runs in a process of its own, the call concludes with at most   *)
(* one verdict, a verdict other than the caller's own timeout is what the  *)
(* episode replied, and no verdict is given while the episode can still    *)
(* act.  IsolatedRun implements this.                                      *)
(***************************************************************************)
CONSTANT Calls   \* calls of run_isolated

VARIABLES active,   \* the episode's process may still act
          reply,    \* what the episode replied
          verdict   \* what the call returned or raised

timedVars == <<active, reply, verdict>>

TimedInit ==
  /\ active = [c \in Calls |-> FALSE]
  /\ reply = [c \in Calls |-> "none"]
  /\ verdict = [c \in Calls |-> "none"]

Begin(c) ==
  /\ verdict[c] = "none"
  /\ reply[c] = "none"
  /\ active' = [active EXCEPT ![c] = TRUE]
  /\ UNCHANGED <<reply, verdict>>

Reply(c, answer) ==
  /\ reply[c] = "none"
  /\ reply' = [reply EXCEPT ![c] = answer]
  /\ UNCHANGED <<active, verdict>>

Cease(c) ==
  /\ active[c]
  /\ active' = [active EXCEPT ![c] = FALSE]
  /\ UNCHANGED <<reply, verdict>>

Conclude(c, v) ==
  /\ ~active[c]
  /\ verdict[c] = "none"
  /\ v = "result" => reply[c] = "ok"
  /\ v = "error" => reply[c] = "error"
  /\ verdict' = [verdict EXCEPT ![c] = v]
  /\ UNCHANGED <<active, reply>>

TimedNext ==
  \E c \in Calls :
    \/ Begin(c)
    \/ \E answer \in {"ok", "error"} : Reply(c, answer)
    \/ Cease(c)
    \/ \E v \in {"result", "error", "timeout", "interrupted"} : Conclude(c, v)

TimedSafety == TimedInit /\ [][TimedNext]_timedVars
=============================================================================
