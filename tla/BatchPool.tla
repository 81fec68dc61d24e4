------------------------------ MODULE BatchPool ------------------------------
(***************************************************************************)
(* run_batch (agent_bench/runner/batch.py): the main process submits every *)
(* job to a ProcessPoolExecutor and collects the futures as they complete; *)
(* a worker runs _run_job, which calls run_isolated for a job with a       *)
(* timeout and run() in its own process for a job without, then persists   *)
(* the artifact.                                                           *)
(*                                                                         *)
(* The executor is external code, modelled by what it does for run_batch:  *)
(* jobs are started in submission order, an exception of a job, even one   *)
(* that is no Exception, is raised again by future.result, and the death   *)
(* of a worker breaks the pool: unfinished futures fail, the other workers *)
(* are terminated, and submit raises.                                      *)
(***************************************************************************)
EXTENDS IsolatedRun, Sequences, Integers

CONSTANTS Workers,  \* the worker processes of the pool
          Strict,   \* strict_spec
          NoCall    \* an idle worker has no job

ASSUME PoolAssumption ==
  /\ Strict \in BOOLEAN /\ NoCall \notin Calls
  /\ IsFiniteSet(Calls) /\ IsFiniteSet(Workers)

VARIABLES main,     \* where run_batch is
          future,   \* the future of each job
          payload,  \* what _run_job came to
          queue,    \* submitted jobs no worker has taken
          worker,   \* each worker: the job and where _run_job is
          stored,   \* jobs whose artifact is under .agent_bench/runs
          broken,   \* the executor has found a worker dead
          yielded,  \* futures as_completed has yielded
          results   \* batch_results

poolVars == <<main, future, payload, queue, worker, stored, broken,
              yielded, results>>
vars == <<callVars, poolVars>>

Direct == Calls \ Timed
Places == {"idle", "isolated", "direct", "persist", "reply", "dead"}
Payloads == {"none", "success", "failure", "error", "exit"}
HasArtifact(j) == payload[j] \in {"success", "failure"}

PoolTypeOK ==
  /\ CallTypeOK
  /\ main \in {"submitting", "collecting", "returned", "raised"}
  /\ future \in [Calls -> {"none", "pending", "done", "broken"}]
  /\ payload \in [Calls -> Payloads]
  /\ queue \in Seq(Calls)
  /\ worker \in [Workers -> [job: Calls \cup {NoCall}, at: Places]]
  /\ stored \in SUBSET Calls
  /\ broken \in BOOLEAN
  /\ yielded \in SUBSET Calls
  /\ results \in Seq([job: Calls, success: BOOLEAN, artifact: BOOLEAN])
  /\ Len(results) <= Cardinality(Calls)

-----------------------------------------------------------------------------
PoolInit ==
  /\ CallInit
  /\ main = "submitting"
  /\ future = [j \in Calls |-> "none"]
  /\ payload = [j \in Calls |-> "none"]
  /\ queue = <<>>
  /\ worker = [w \in Workers |-> [job |-> NoCall, at |-> "idle"]]
  /\ stored = {}
  /\ broken = FALSE
  /\ yielded = {}
  /\ results = <<>>

\* pool.submit, which raises BrokenProcessPool once the pool is broken.
Submit(j) ==
  /\ main = "submitting"
  /\ future[j] = "none"
  /\ ~broken
  /\ future' = [future EXCEPT ![j] = "pending"]
  /\ queue' = Append(queue, j)
  /\ main' = IF \A i \in Calls : future'[i] # "none" THEN "collecting"
                                                     ELSE main
  /\ UNCHANGED <<callVars, payload, worker, stored, broken,
                 yielded, results>>

SubmitFails ==
  /\ main = "submitting"
  /\ broken
  /\ main' = "raised"
  /\ UNCHANGED <<callVars, future, payload, queue, worker, stored,
                 broken, yielded, results>>

GoTo(w, j, place) == worker' = [worker EXCEPT ![w] = [job |-> j, at |-> place]]

\* A worker takes the oldest job; "if timeout:" decides how it is run.
TakeIsolated(w) ==
  /\ worker[w].at = "idle"
  /\ queue # <<>>
  /\ Head(queue) \in Timed
  /\ GoTo(w, Head(queue), "isolated")
  /\ queue' = Tail(queue)
  /\ Start(Head(queue))
  /\ UNCHANGED <<main, future, payload, stored, broken,
                 yielded, results>>

TakeDirect(w) ==
  /\ worker[w].at = "idle"
  /\ queue # <<>>
  /\ Head(queue) \in Direct
  /\ GoTo(w, Head(queue), "direct")
  /\ queue' = Tail(queue)
  /\ UNCHANGED <<callVars, main, future, payload, stored, broken,
                 yielded, results>>

\* run() in the worker: it returns an artifact, raises, or exits.
DirectEnds(w, came) ==
  /\ worker[w].at = "direct"
  /\ payload' = [payload EXCEPT ![worker[w].job] = came]
  /\ GoTo(w, worker[w].job, IF came \in {"success", "failure"} THEN "persist"
                                                              ELSE "reply")
  /\ UNCHANGED <<callVars, main, future, queue, stored, broken,
                 yielded, results>>

\* run_isolated returned an artifact, or raised TimeoutError or RuntimeError.
IsolatedEnds(w, came) ==
  LET j == worker[w].job
  IN  /\ worker[w].at = "isolated"
      /\ caller[j] = "returned"
      /\ IF outcome[j] = "result"
           THEN came \in {"success", "failure"} /\ GoTo(w, j, "persist")
           ELSE came = "error" /\ GoTo(w, j, "reply")
      /\ payload' = [payload EXCEPT ![j] = came]
      /\ UNCHANGED <<callVars, main, future, queue, stored, broken,
                     yielded, results>>

\* persist_run; its exception is swallowed.
Persist(w, saved) ==
  /\ worker[w].at = "persist"
  /\ stored' = IF saved THEN stored \cup {worker[w].job} ELSE stored
  /\ GoTo(w, worker[w].job, "reply")
  /\ UNCHANGED <<callVars, main, future, payload, queue, broken,
                 yielded, results>>

\* The worker's answer reaches the future.
ReplyDone(w) ==
  /\ worker[w].at = "reply"
  /\ future' = [future EXCEPT ![worker[w].job] = "done"]
  /\ GoTo(w, NoCall, "idle")
  /\ UNCHANGED <<callVars, main, payload, queue, stored, broken,
                 yielded, results>>

\* A worker at work dies: os._exit or a fault of an episode it hosts, or the
\* operating system.  The run_isolated it may be in dies with it.
Abandon(lost) ==
  caller' = [j \in Calls |->
               IF [job |-> j, at |-> "isolated"] \in {worker[w] : w \in lost}
                 THEN "dead" ELSE caller[j]]

WorkerDies(w) ==
  /\ worker[w].at \notin {"idle", "dead"}
  /\ Abandon({w})
  /\ GoTo(w, NoCall, "dead")
  /\ UNCHANGED <<child, pipe, answer, killed, outcome, main, future, payload,
                 queue, stored, broken, yielded, results>>

\* The executor finds a worker dead.
PoolBreaks ==
  /\ ~broken
  /\ \E w \in Workers : worker[w].at = "dead"
  /\ broken' = TRUE
  /\ future' = [j \in Calls |-> IF future[j] = "pending" THEN "broken"
                                                         ELSE future[j]]
  /\ queue' = <<>>
  /\ Abandon(Workers)
  /\ worker' = [w \in Workers |-> [job |-> NoCall, at |-> "dead"]]
  /\ UNCHANGED <<child, pipe, answer, killed, outcome, main, payload,
                 stored, yielded, results>>

Report(j, success) ==
  Append(results, [job |-> j, success |-> success,
                   artifact |-> future[j] = "done" /\ HasArtifact(j)])

Yield(j) ==
  /\ main = "collecting"
  /\ future[j] \in {"done", "broken"}
  /\ j \notin yielded
  /\ future[j] = "done" => payload[j] # "exit"
  /\ yielded' = yielded \cup {j}
  /\ UNCHANGED <<callVars, main, future, payload, queue, worker,
                 stored, broken>>

\* Mutants: a result with an artifact counts as passed whatever it says; a
\* job that raised is left out of the results.
CollectAnyArtifact(j, compliant) ==
  Yield(j) /\ results' = Report(j, future[j] = "done" /\ HasArtifact(j))
CollectArtifacts(j, compliant) ==
  /\ Yield(j)
  /\ results' = IF HasArtifact(j) THEN Report(j, payload[j] = "success")
                                  ELSE results

\* as_completed yields a future; its result or its Exception is recorded.
Collect(j, compliant) ==
  /\ Yield(j)
  /\ results' = Report(j, /\ future[j] = "done"
                          /\ payload[j] = "success"
                          /\ Strict => compliant)

\* future.result raises SystemExit, which "except Exception" does not catch.
CollectExit(j) ==
  /\ main = "collecting"
  /\ future[j] = "done"
  /\ payload[j] = "exit"
  /\ main' = "raised"
  /\ UNCHANGED <<callVars, future, payload, queue, worker, stored,
                 broken, yielded, results>>

\* as_completed is exhausted: the summary is computed.
Summarise ==
  /\ main = "collecting"
  /\ yielded = Calls
  /\ main' = "returned"
  /\ UNCHANGED <<callVars, future, payload, queue, worker, stored,
                 broken, yielded, results>>

Passed == Cardinality({i \in DOMAIN results : results[i].success})
Failed == Len(results) - Passed

MainStep ==
  \/ \E j \in Calls : Submit(j)
  \/ SubmitFails
  \/ \E j \in Calls, compliant \in BOOLEAN : Collect(j, compliant)
  \/ \E j \in Calls : CollectExit(j)
  \/ Summarise

WorkerStep(w) ==
  \/ TakeIsolated(w)
  \/ TakeDirect(w)
  \/ \E came \in Payloads : IsolatedEnds(w, came)
  \/ \E saved \in BOOLEAN : Persist(w, saved)
  \/ ReplyDone(w)

\* The steps of run_isolated and of its child, inside a live worker or behind
\* a dead one.
CallStep ==
  /\ \E j \in Calls : ChildStep(j) \/ CallerStep(j)
  /\ UNCHANGED poolVars

PoolNext ==
  \/ MainStep
  \/ \E w \in Workers : WorkerStep(w)
  \/ \E w \in Workers, came \in Payloads \ {"none"} : DirectEnds(w, came)
  \/ \E w \in Workers : WorkerDies(w)
  \/ PoolBreaks
  \/ CallStep

PoolSafety == PoolInit /\ [][PoolNext]_vars

(***************************************************************************)
(* Fairness: the main process, the executor's management thread and the    *)
(* workers are scheduled, and so is each call of run_isolated, as in       *)
(* IsolatedRun.  An episode in a worker may hang.                          *)
(***************************************************************************)
PoolSpec ==
  /\ PoolSafety
  /\ WF_vars(MainStep)
  /\ WF_vars(PoolBreaks)
  /\ \A w \in Workers : WF_vars(WorkerStep(w))
  /\ \A j \in Calls :
       /\ WF_vars(CallerStep(j) /\ UNCHANGED poolVars)
       /\ WF_vars(/\ \E amount \in {"partial", "full"} :
                       FeederWrites(j, amount)
                  /\ UNCHANGED poolVars)
       /\ WF_vars(killed[j] /\ ChildEnds(j) /\ UNCHANGED poolVars)

-----------------------------------------------------------------------------
Reported == {results[i].job : i \in DOMAIN results}

\* The summary accounts for every job exactly once, and passed + failed is
\* their number, whatever broke on the way (batch.py:146-182).
EveryJobReportedOnce ==
  /\ \A i, k \in DOMAIN results : results[i].job = results[k].job => i = k
  /\ main = "returned" =>
       Reported = Calls /\ Passed + Failed = Cardinality(Calls)

\* A job counts as passed only if its episode succeeded and the artifact came
\* back; what is reported without an artifact is on disk only if a worker died
\* between persist_run and its reply (batch.py:83-93, 153-174).
ReportMatchesEpisode ==
  \A i \in DOMAIN results :
    LET j == results[i].job
    IN  /\ results[i].success => results[i].artifact /\ payload[j] = "success"
        /\ results[i].artifact /\ j \in Timed => outcome[j] = "result"
        /\ j \in stored /\ ~results[i].artifact => broken

\* While no worker has died, at most one episode per worker is running that
\* has not been killed, timeouts notwithstanding.
RunningEpisodes == {j \in Timed : Alive(j) /\ ~killed[j]}
                     \cup {j \in Calls : \E w \in Workers :
                             worker[w].job = j /\ worker[w].at = "direct"}
PoolIsBounded ==
  (\A w \in Workers : worker[w].at # "dead") =>
    Cardinality(RunningEpisodes) <= Cardinality(Workers)

\* The inductive invariant behind the theorems of BatchPoolProofs.  A job is
\* with at most one worker or once in the queue, and pending while it is; a
\* worker without a job is idle or dead.
Employed(w) == worker[w].at \notin {"idle", "dead"}

JobInv ==
  /\ \A w \in Workers :
       /\ Employed(w) <=> worker[w].job # NoCall
       /\ Employed(w) => future[worker[w].job] = "pending"
  /\ \A v, w \in Workers :
       Employed(v) /\ worker[v].job = worker[w].job => v = w
  /\ \A i \in DOMAIN queue :
       /\ future[queue[i]] = "pending"
       /\ \A w \in Workers : worker[w].job # queue[i]
       /\ \A k \in DOMAIN queue : queue[i] = queue[k] => i = k

\* What came of a job before, while and after a worker has it: the artifact of
\* a job with a timeout is the result of its run_isolated.
WorkInv ==
  /\ \A j \in Calls : future[j] = "none" => payload[j] = "none"
  /\ \A j \in Calls : future[j] = "broken" => broken
  /\ \A i \in DOMAIN queue : payload[queue[i]] = "none"
  /\ \A w \in Workers :
       /\ worker[w].at \in {"isolated", "direct"} => payload[worker[w].job] = "none"
       /\ worker[w].at = "isolated" =>
            worker[w].job \in Timed /\ caller[worker[w].job] # "idle"
       /\ worker[w].at = "direct" => worker[w].job \in Direct
       /\ worker[w].at = "persist" => HasArtifact(worker[w].job)
  /\ \A j \in Timed : HasArtifact(j) => caller[j] = "returned" /\ outcome[j] = "result"
  /\ \A j \in stored : HasArtifact(j)

\* A call in progress is that of a worker at work; only the death of a worker
\* takes its caller away.
OwnerInv ==
  \A j \in Calls :
    /\ caller[j] \in {"waiting", "reading", "finally", "joining"} =>
         \E w \in Workers : worker[w] = [job |-> j, at |-> "isolated"]
    /\ caller[j] = "dead" => \E w \in Workers : worker[w].at = "dead"

ResultInv ==
  /\ \A i \in DOMAIN results :
       /\ results[i].job \in yielded
       /\ \A k \in DOMAIN results : results[i].job = results[k].job => i = k
  /\ \A j \in yielded :
       /\ future[j] \in {"done", "broken"}
       /\ \E i \in DOMAIN results : results[i].job = j
  /\ \A i \in DOMAIN results :
       /\ results[i].artifact => HasArtifact(results[i].job)
       /\ results[i].success =>
            results[i].artifact /\ payload[results[i].job] = "success"
       /\ results[i].job \in stored /\ ~results[i].artifact => broken
  /\ main = "returned" => yielded = Calls

PoolInv == PoolTypeOK /\ CallInv /\ JobInv /\ WorkInv /\ OwnerInv /\ ResultInv

\* A batch ends, whatever its episodes do and whichever workers die, but for
\* a reader left with half a message and an episode that hangs in the worker
\* itself, where no timeout reaches it.
BatchEnds ==
  \/ <>(main \in {"returned", "raised"} \/ \E j \in Calls : Torn(j))
  \/ <>[](\E w \in Workers : worker[w].at = "direct")

-----------------------------------------------------------------------------
\* tracecore-spec-v1.0.md:51 "Per-job timeout enforcement MUST produce
\* failure_type=timeout artifacts rather than silent drops".
TimeoutsHaveArtifacts ==
  \A i \in DOMAIN results :
    outcome[results[i].job] = "timeout" => results[i].artifact \/ broken

\* batch.py:3-4 "collects results, and returns an aggregate summary": an
\* episode that exits does not take the batch with it.
BatchReturnsSummary == main = "raised" => broken
=============================================================================
