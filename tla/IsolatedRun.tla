----------------------------- MODULE IsolatedRun -----------------------------
(***************************************************************************)
(* run_isolated (agent_bench/runner/isolation.py): the calling process     *)
(* spawns a child that runs one episode, waits for its answer on a         *)
(* multiprocessing queue with a wall-clock timeout, and kills the child    *)
(* whatever happened.  Several calls may be in progress, as in a batch.    *)
(*                                                                         *)
(* The queue is external code, modelled by what CPython does with it: put  *)
(* hands the answer to a feeder thread of the child, which writes it into  *)
(* a pipe; get(timeout) polls the pipe until the timeout and, once a first *)
(* byte has arrived, reads the whole message without any timeout.  A       *)
(* message larger than the pipe is complete only while it is being read.   *)
(***************************************************************************)
EXTENDS FiniteSets

CONSTANTS Calls,   \* calls of run_isolated
          Timed    \* the calls made with a timeout

ASSUME IsolationAssumption == Timed \subseteq Calls

VARIABLES caller,    \* where run_isolated is
          child,     \* the child process
          pipe,      \* the child's message in the queue's pipe
          answer,    \* what the child's episode came to
          killed,    \* proc.kill() was called on a live child
          outcome    \* what the call returns or raises

callVars == <<caller, child, pipe, answer, killed, outcome>>

CallTypeOK ==
  /\ caller \in [Calls -> {"idle", "waiting", "reading", "finally", "joining",
                           "returned", "dead"}]
  /\ child \in [Calls -> {"none", "running", "sending", "gone"}]
  /\ pipe \in [Calls -> {"empty", "partial", "full"}]
  /\ answer \in [Calls -> {"none", "ok", "error", "exit"}]
  /\ killed \in [Calls -> BOOLEAN]
  /\ outcome \in [Calls -> {"none", "result", "error", "timeout",
                            "interrupted"}]

Alive(c) == child[c] \in {"running", "sending"}

-----------------------------------------------------------------------------
CallInit ==
  /\ caller = [c \in Calls |-> "idle"]
  /\ child = [c \in Calls |-> "none"]
  /\ pipe = [c \in Calls |-> "empty"]
  /\ answer = [c \in Calls |-> "none"]
  /\ killed = [c \in Calls |-> FALSE]
  /\ outcome = [c \in Calls |-> "none"]

Start(c) ==
  /\ caller[c] = "idle"
  /\ caller' = [caller EXCEPT ![c] = "waiting"]
  /\ child' = [child EXCEPT ![c] = "running"]
  /\ UNCHANGED <<pipe, answer, killed, outcome>>

\* The child: run() returns, or raises an Exception; _worker puts the answer.
EpisodeAnswers(c, reply) ==
  /\ child[c] = "running"
  /\ child' = [child EXCEPT ![c] = "sending"]
  /\ answer' = [answer EXCEPT ![c] = reply]
  /\ UNCHANGED <<caller, pipe, killed, outcome>>

\* The child: run() raises what is not an Exception (SystemExit), so _worker
\* puts nothing and the process ends.
EpisodeExits(c) ==
  /\ child[c] = "running"
  /\ child' = [child EXCEPT ![c] = "gone"]
  /\ answer' = [answer EXCEPT ![c] = "exit"]
  /\ UNCHANGED <<caller, pipe, killed, outcome>>

\* The child's feeder thread writes the message.
FeederWrites(c, amount) ==
  /\ child[c] = "sending"
  /\ \/ pipe[c] = "empty"
     \/ pipe[c] = "partial" /\ amount = "full" /\ caller[c] = "reading"
  /\ pipe' = [pipe EXCEPT ![c] = amount]
  /\ UNCHANGED <<caller, child, answer, killed, outcome>>

\* The child ends: it is done, the message cannot be pickled, the operating
\* system or one of its own threads ends it, or a kill takes effect.
ChildEnds(c) ==
  /\ Alive(c)
  /\ child' = [child EXCEPT ![c] = "gone"]
  /\ UNCHANGED <<caller, pipe, answer, killed, outcome>>

\* result_q.get: the poll sees data.
Poll(c) ==
  /\ caller[c] = "waiting"
  /\ pipe[c] # "empty"
  /\ caller' = [caller EXCEPT ![c] = "reading"]
  /\ UNCHANGED <<child, pipe, answer, killed, outcome>>

\* result_q.get: the message is complete; its "ok" decides between the result
\* and RuntimeError.
Receive(c) ==
  /\ caller[c] = "reading"
  /\ pipe[c] = "full"
  /\ caller' = [caller EXCEPT ![c] = "finally"]
  /\ outcome' = [outcome EXCEPT ![c] = IF answer[c] = "ok" THEN "result"
                                                           ELSE "error"]
  /\ UNCHANGED <<child, pipe, answer, killed>>

\* Mutants: the get retried when it raises Empty; the clock looked at before
\* the queue.
ExpireRetried(c) ==
  /\ caller[c] = "waiting"
  /\ c \in Timed
  /\ pipe[c] = "empty"
  /\ UNCHANGED callVars
ExpireEager(c) ==
  /\ caller[c] = "waiting"
  /\ c \in Timed
  /\ caller' = [caller EXCEPT ![c] = "finally"]
  /\ killed' = [killed EXCEPT ![c] = Alive(c)]
  /\ outcome' = [outcome EXCEPT ![c] = "timeout"]
  /\ UNCHANGED <<child, pipe, answer>>

\* result_q.get raises Empty: kill, then TimeoutError once joined.
Expire(c) ==
  /\ caller[c] = "waiting"
  /\ c \in Timed
  /\ pipe[c] = "empty"
  /\ caller' = [caller EXCEPT ![c] = "finally"]
  /\ killed' = [killed EXCEPT ![c] = Alive(c)]
  /\ outcome' = [outcome EXCEPT ![c] = "timeout"]
  /\ UNCHANGED <<child, pipe, answer>>

\* KeyboardInterrupt while waiting or reading.
Interrupt(c) ==
  /\ caller[c] \in {"waiting", "reading"}
  /\ caller' = [caller EXCEPT ![c] = "finally"]
  /\ outcome' = [outcome EXCEPT ![c] = "interrupted"]
  /\ UNCHANGED <<child, pipe, answer, killed>>

\* Mutant: no finally clause, the child is killed on a timeout only.
CleanupSkipped(c) ==
  /\ caller[c] = "finally"
  /\ caller' = [caller EXCEPT ![c] = "joining"]
  /\ UNCHANGED <<child, pipe, answer, killed, outcome>>

\* The finally clause.
Cleanup(c) ==
  /\ caller[c] = "finally"
  /\ caller' = [caller EXCEPT ![c] = "joining"]
  /\ killed' = [killed EXCEPT ![c] = killed[c] \/ Alive(c)]
  /\ UNCHANGED <<child, pipe, answer, outcome>>

\* proc.join(timeout=5) has joined, or given up.
Return(c) ==
  /\ caller[c] = "joining"
  /\ caller' = [caller EXCEPT ![c] = "returned"]
  /\ UNCHANGED <<child, pipe, answer, killed, outcome>>

\* The calling process is killed itself: its finally clause does not run.
CallerDies(c) ==
  /\ caller[c] \in {"waiting", "reading", "finally", "joining"}
  /\ caller' = [caller EXCEPT ![c] = "dead"]
  /\ UNCHANGED <<child, pipe, answer, killed, outcome>>

ChildStep(c) ==
  \/ \E reply \in {"ok", "error"} : EpisodeAnswers(c, reply)
  \/ EpisodeExits(c)
  \/ \E amount \in {"partial", "full"} : FeederWrites(c, amount)
  \/ ChildEnds(c)

CallerStep(c) == Poll(c) \/ Receive(c) \/ Expire(c) \/ Cleanup(c) \/ Return(c)

CallNext ==
  \E c \in Calls : \/ Start(c)
                   \/ ChildStep(c)
                   \/ CallerStep(c)
                   \/ Interrupt(c)
                   \/ CallerDies(c)

CallSafety == CallInit /\ [][CallNext]_callVars

(***************************************************************************)
(* Fairness: the calling process is scheduled and its clock advances, the  *)
(* feeder thread of a live child is scheduled and a kill takes effect.  An *)
(* episode owes nothing: it may hang.                                      *)
(***************************************************************************)
CallFairness ==
  \A c \in Calls :
    /\ WF_callVars(CallerStep(c))
    /\ WF_callVars(\E amount \in {"partial", "full"} : FeederWrites(c, amount))
    /\ WF_callVars(killed[c] /\ ChildEnds(c))

CallSpec == CallSafety /\ CallFairness

-----------------------------------------------------------------------------
\* What relates the two ends of the queue: the strengthening that makes the
\* next two invariants inductive.
QueueInv ==
  \A c \in Calls :
    /\ child[c] \in {"none", "running"} => answer[c] = "none"
    /\ child[c] = "sending" \/ pipe[c] # "empty" =>
         answer[c] \in {"ok", "error"}
    /\ child[c] = "none" <=> caller[c] = "idle"
    /\ caller[c] \in {"idle", "waiting", "reading"} =>
         outcome[c] = "none" /\ ~killed[c]
    /\ caller[c] \in {"finally", "joining", "returned"} => outcome[c] # "none"

\* No episode runs on behind a call that is over: once the finally clause has
\* run, the child is gone or has been killed (isolation.py:82-92).
NothingOutlivesCall ==
  \A c \in Calls :
    caller[c] \in {"joining", "returned"} => ~Alive(c) \/ killed[c]

\* A call returns a result, or raises RuntimeError, only for what its own
\* child answered in full; TimeoutError only if it had a timeout
\* (isolation.py:80-97).
OutcomeIsAnswer ==
  \A c \in Calls :
    /\ outcome[c] = "result" => answer[c] = "ok" /\ pipe[c] = "full"
    /\ outcome[c] = "error" => answer[c] = "error" /\ pipe[c] = "full"
    /\ outcome[c] = "timeout" => c \in Timed

CallInv == CallTypeOK /\ QueueInv /\ NothingOutlivesCall /\ OutcomeIsAnswer

\* The child has died with its message half written and half read.
Torn(c) == pipe[c] = "partial" /\ ~Alive(c)

\* A call with a timeout ends however the episode hangs, but for the reader
\* left with half a message.
TimedCallEnds ==
  \A c \in Timed :
    caller[c] = "waiting" ~> (caller[c] \in {"returned", "dead"} \/ Torn(c))

\* A call that has ended, however it ended, leaves no process behind.
NoProcessLeftBehind ==
  \A c \in Calls : caller[c] = "returned" ~> child[c] = "gone"

\* An answer that is completely written is taken, with a timeout or without.
AnswerIsTaken ==
  \A c \in Calls :
    pipe[c] = "full" /\ caller[c] = "waiting"
      ~> \/ caller[c] = "dead"
         \/ caller[c] = "returned" /\ outcome[c] # "timeout"

\* run_isolated keeps the promise of TimedCall.
Call == INSTANCE TimedCall
  WITH active <- [c \in Calls |-> Alive(c) /\ ~killed[c]],
       reply <- [c \in Calls |-> IF answer[c] = "exit" THEN "none"
                                                       ELSE answer[c]],
       verdict <- [c \in Calls |-> IF caller[c] = "returned" THEN outcome[c]
                                                             ELSE "none"]

ImplementsTimedCall == Call!TimedSafety

-----------------------------------------------------------------------------
\* isolation.py:57-58 "Wall-clock timeout in seconds.  Raises TimeoutError if
\* exceeded", and architecture.md:32: no call with a timeout blocks for ever.
TimeoutIsEnforced ==
  \A c \in Timed : caller[c] = "waiting" ~> caller[c] \in {"returned", "dead"}

\* isolation.py:69-70 "RuntimeError: If the child process raises an unexpected
\* exception".
ChildExceptionIsAnError ==
  \A c \in Calls :
    answer[c] = "exit" /\ outcome[c] # "none" =>
      outcome[c] \in {"error", "interrupted"}
=============================================================================
