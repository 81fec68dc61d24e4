---------------------------- MODULE BatchPoolProofs ----------------------------
(***************************************************************************)
(* Theorems about IsolatedRun, for every set of calls, and about BatchPool,*)
(* which makes them, for any number of workers: no episode outlives its    *)
(* call, every outcome is what the call's own child answered, and          *)
(* run_isolated implements TimedCall; the accounting of a batch, what a    *)
(* reported result means, and how many episodes run at once.               *)
(***************************************************************************)
EXTENDS BatchPool, FiniteSetTheorems, TLAPS

\* The calls of run_isolated.
LEMMA CallInitInv == CallInit => CallInv
BY DEF CallInit, CallInv, CallTypeOK, QueueInv, NothingOutlivesCall,
       OutcomeIsAnswer, Alive

\* One step of one call preserves the invariant.
LEMMA CallStepInv ==
  ASSUME CallInv, NEW c \in Calls,
         Start(c) \/ ChildStep(c) \/ CallerStep(c) \/ Interrupt(c)
           \/ CallerDies(c)
  PROVE  CallInv'
<1> USE DEF CallInv, CallTypeOK, QueueInv, NothingOutlivesCall,
            OutcomeIsAnswer, Alive
<1>1. CASE Start(c)
  BY <1>1 DEF Start
<1>2. ASSUME NEW reply \in {"ok", "error"}, EpisodeAnswers(c, reply)
      PROVE  CallInv'
  BY <1>2 DEF EpisodeAnswers
<1>3. CASE EpisodeExits(c)
  BY <1>3 DEF EpisodeExits
<1>4. ASSUME NEW amount \in {"partial", "full"}, FeederWrites(c, amount)
      PROVE  CallInv'
  BY <1>4 DEF FeederWrites
<1>5. CASE ChildEnds(c)
  BY <1>5 DEF ChildEnds
<1>6. CASE Poll(c)
  BY <1>6 DEF Poll
<1>7. CASE Receive(c)
  BY <1>7 DEF Receive
<1>8. CASE Expire(c)
  BY <1>8 DEF Expire
<1>9. CASE Cleanup(c)
  <2>1. CASE killed[c]
    <3>1. (killed[c] \/ Alive(c)) = TRUE
      BY <2>1
    <3>2. killed' = [killed EXCEPT ![c] = TRUE]
      BY <1>9, <3>1 DEF Cleanup
    <3>3. QED
      BY <1>9, <3>2 DEF Cleanup
  <2>2. CASE ~killed[c] /\ Alive(c)
    <3>1. killed' = [killed EXCEPT ![c] = TRUE]
      BY <1>9, <2>2 DEF Cleanup
    <3>2. QED
      BY <1>9, <3>1 DEF Cleanup
  <2>3. CASE ~killed[c] /\ ~Alive(c)
    <3>1. killed' = killed
      BY <1>9, <2>3 DEF Cleanup
    <3>2. QED
      BY <1>9, <2>3, <3>1 DEF Cleanup
  <2>4. QED
    BY <2>1, <2>2, <2>3
<1>10. CASE Return(c)
  BY <1>10 DEF Return
<1>11. CASE Interrupt(c)
  BY <1>11 DEF Interrupt
<1>12. CASE CallerDies(c)
  BY <1>12 DEF CallerDies
<1>13. QED
  BY <1>1, <1>2, <1>3, <1>4, <1>5, <1>6, <1>7, <1>8, <1>9, <1>10, <1>11,
     <1>12 DEF ChildStep, CallerStep

LEMMA CallInvCorrect == CallSafety => []CallInv
<1>1. CallInit => CallInv
  BY CallInitInv
<1>2. CallInv /\ [CallNext]_callVars => CallInv'
  <2>1. ASSUME CallInv, CallNext PROVE CallInv'
    BY <2>1, CallStepInv DEF CallNext
  <2>2. ASSUME CallInv, UNCHANGED callVars PROVE CallInv'
    BY <2>2 DEF callVars, CallInv, CallTypeOK, QueueInv, NothingOutlivesCall,
       OutcomeIsAnswer, Alive
  <2>3. QED
    BY <2>1, <2>2
<1>3. QED
  BY <1>1, <1>2, PTL DEF CallSafety

\* The state of every call has its type.
THEOREM CallTypeCorrect == CallSafety => []CallTypeOK
<1>1. CallInv => CallTypeOK
  BY DEF CallInv
<1>2. QED
  BY <1>1, CallInvCorrect, PTL

\* Once run_isolated's finally clause has run, its child is gone or killed.
THEOREM NothingOutlivesCallCorrect == CallSafety => []NothingOutlivesCall
<1>1. CallInv => NothingOutlivesCall
  BY DEF CallInv
<1>2. QED
  BY <1>1, CallInvCorrect, PTL

\* A result or an error is what the call's own child answered, and only a
\* call with a timeout times out.
THEOREM OutcomeIsAnswerCorrect == CallSafety => []OutcomeIsAnswer
<1>1. CallInv => OutcomeIsAnswer
  BY DEF CallInv
<1>2. QED
  BY <1>1, CallInvCorrect, PTL

-----------------------------------------------------------------------------
\* The steps of one call map to steps of TimedCall.
LEMMA CallStepRefines ==
  ASSUME CallInv, NEW c \in Calls,
         Start(c) \/ ChildStep(c) \/ CallerStep(c) \/ Interrupt(c)
           \/ CallerDies(c)
  PROVE  [Call!TimedNext]_(Call!timedVars)
<1> DEFINE active == [d \in Calls |-> Alive(d) /\ ~killed[d]]
           reply == [d \in Calls |-> IF answer[d] = "exit" THEN "none"
                                                           ELSE answer[d]]
           verdict == [d \in Calls |-> IF caller[d] = "returned"
                                         THEN outcome[d] ELSE "none"]
<1> USE DEF CallInv, CallTypeOK, QueueInv, Alive
<1>1. CASE Start(c)
  <2>1. verdict[c] = "none" /\ reply[c] = "none"
    BY <1>1 DEF Start
  <2>2. verdict' = verdict /\ reply' = reply
    BY <1>1 DEF Start
  <2>3. active' = [active EXCEPT ![c] = TRUE]
    BY <1>1 DEF Start
  <2>4. QED
    BY <2>1, <2>2, <2>3 DEF Call!TimedNext, Call!Begin
<1>2. ASSUME NEW ans \in {"ok", "error"}, EpisodeAnswers(c, ans)
      PROVE  [Call!TimedNext]_(Call!timedVars)
  <2>1. reply[c] = "none"
    BY <1>2 DEF EpisodeAnswers
  <2>2. verdict' = verdict /\ active' = active
    BY <1>2 DEF EpisodeAnswers
  <2>3. reply' = [reply EXCEPT ![c] = ans]
    BY <1>2 DEF EpisodeAnswers
  <2>4. QED
    BY <2>1, <2>2, <2>3 DEF Call!TimedNext, Call!Reply
<1>3. CASE EpisodeExits(c) \/ ChildEnds(c)
  <2>1. verdict' = verdict /\ reply' = reply
    BY <1>3 DEF EpisodeExits, ChildEnds
  <2>2. CASE killed[c]
    <3>1. active' = active
      BY <1>3, <2>2 DEF EpisodeExits, ChildEnds
    <3>2. QED
      BY <3>1, <2>1 DEF Call!timedVars
  <2>3. CASE ~killed[c]
    <3>1. Alive(c) /\ killed' = killed
      BY <1>3 DEF EpisodeExits, ChildEnds
    <3>2. active[c]
      BY <3>1, <2>3
    <3>3. child' = [child EXCEPT ![c] = "gone"]
      BY <1>3 DEF EpisodeExits, ChildEnds
    <3>4. active' = [active EXCEPT ![c] = FALSE]
      BY <3>1, <3>3
    <3>5. QED
      BY <3>2, <3>4, <2>1 DEF Call!TimedNext, Call!Cease
  <2>4. QED
    BY <2>2, <2>3
<1>4. CASE \/ \E amount \in {"partial", "full"} : FeederWrites(c, amount)
           \/ Poll(c) \/ Receive(c) \/ Interrupt(c) \/ CallerDies(c)
  <2>1. verdict' = verdict /\ reply' = reply /\ active' = active
    BY <1>4 DEF FeederWrites, Poll, Receive, Interrupt, CallerDies
  <2>2. QED
    BY <2>1 DEF Call!timedVars
<1>5. CASE Expire(c) \/ Cleanup(c)
  <2>1. verdict' = verdict /\ reply' = reply
    BY <1>5 DEF Expire, Cleanup
  <2>2. CASE ~Alive(c) \/ killed[c]
    <3>1. active' = active
      BY <1>5, <2>2 DEF Expire, Cleanup
    <3>2. QED
      BY <3>1, <2>1 DEF Call!timedVars
  <2>3. CASE Alive(c) /\ ~killed[c]
    <3>1. active[c] /\ active' = [active EXCEPT ![c] = FALSE]
      BY <1>5, <2>3 DEF Expire, Cleanup
    <3>2. QED
      BY <3>1, <2>1 DEF Call!TimedNext, Call!Cease
  <2>4. QED
    BY <2>2, <2>3
<1>6. CASE Return(c)
  <2>1. ~active[c] /\ verdict[c] = "none"
    BY <1>6 DEF Return, NothingOutlivesCall
  <2>2. active' = active /\ reply' = reply
    BY <1>6 DEF Return
  <2>3. verdict' = [verdict EXCEPT ![c] = outcome[c]]
    BY <1>6 DEF Return
  <2>4. outcome[c] \in {"result", "error", "timeout", "interrupted"}
    BY <1>6 DEF Return
  <2>5. /\ outcome[c] = "result" => reply[c] = "ok"
        /\ outcome[c] = "error" => reply[c] = "error"
    BY DEF OutcomeIsAnswer
  <2> HIDE DEF CallInv, CallTypeOK, QueueInv, Alive
  <2>6. \E v \in {"result", "error", "timeout", "interrupted"} :
          /\ ~active[c] /\ verdict[c] = "none"
          /\ v = "result" => reply[c] = "ok"
          /\ v = "error" => reply[c] = "error"
          /\ verdict' = [verdict EXCEPT ![c] = v]
          /\ UNCHANGED <<active, reply>>
    <3> HIDE DEF active, reply, verdict
    <3>1. QED
      BY <2>1, <2>2, <2>3, <2>4, <2>5
  <2>7. \E v \in {"result", "error", "timeout", "interrupted"} :
          Call!Conclude(c, v)
    BY <2>6, Zenon DEF Call!Conclude
  <2>8. Call!TimedNext
    BY <2>7, Zenon DEF Call!TimedNext
  <2>9. QED
    BY <2>8
<1>7. QED
  BY <1>1, <1>2, <1>3, <1>4, <1>5, <1>6 DEF ChildStep, CallerStep

\* run_isolated implements TimedCall: a call concludes only after its episode
\* has stopped acting, and its result or error is the episode's own reply.
THEOREM TimedCallRefinement == CallSafety => ImplementsTimedCall
<1>1. CallInit => Call!TimedInit
  BY DEF CallInit, Call!TimedInit, Alive
<1>2. CallInv /\ [CallNext]_callVars => [Call!TimedNext]_(Call!timedVars)
  <2>1. ASSUME CallInv, CallNext PROVE [Call!TimedNext]_(Call!timedVars)
    BY <2>1, CallStepRefines DEF CallNext
  <2>2. ASSUME UNCHANGED callVars PROVE UNCHANGED Call!timedVars
    BY <2>2 DEF callVars, Call!timedVars, Alive
  <2>3. QED
    BY <2>1, <2>2
<1>3. QED
  BY <1>1, <1>2, CallInvCorrect, PTL
     DEF CallSafety, ImplementsTimedCall, Call!TimedSafety

-----------------------------------------------------------------------------
\* The pool that makes them.
WorkerStates == [job : Calls \cup {NoCall}, at : Places]
ResultRecords == [job : Calls, success : BOOLEAN, artifact : BOOLEAN]

\* What a worker that goes to a place changes.
LEMMA GoToChanges ==
  ASSUME PoolTypeOK, NEW w \in Workers, NEW j \in Calls \cup {NoCall},
         NEW place \in Places, GoTo(w, j, place)
  PROVE  /\ worker' \in [Workers -> WorkerStates]
         /\ worker'[w] = [job |-> j, at |-> place]
         /\ worker'[w].job = j /\ worker'[w].at = place
         /\ \A v \in Workers : v # w => worker'[v] = worker[v]
BY DEF PoolTypeOK, GoTo, WorkerStates

\* The oldest job of the queue, and the queue without it.
LEMMA QueueHead ==
  ASSUME PoolTypeOK, JobInv, WorkInv, queue # <<>>
  PROVE  /\ Head(queue) \in Calls /\ Tail(queue) \in Seq(Calls)
         /\ future[Head(queue)] = "pending" /\ payload[Head(queue)] = "none"
         /\ \A w \in Workers : worker[w].job # Head(queue)
         /\ \A i \in DOMAIN Tail(queue) :
              /\ i + 1 \in DOMAIN queue /\ Tail(queue)[i] = queue[i + 1]
              /\ Tail(queue)[i] # Head(queue)
<1>1. queue \in Seq(Calls) /\ 1 \in DOMAIN queue /\ Head(queue) = queue[1]
  BY DEF PoolTypeOK
<1>2. \A i \in DOMAIN Tail(queue) :
        i + 1 \in DOMAIN queue /\ i + 1 # 1 /\ Tail(queue)[i] = queue[i + 1]
  BY <1>1
<1>3. Tail(queue) \in Seq(Calls) /\ Head(queue) \in Calls
  BY <1>1
<1>4. QED
  BY <1>1, <1>2, <1>3 DEF JobInv, WorkInv

\* Steps that leave the calls alone keep the invariant of the calls.
LEMMA CallsUntouched ==
  ASSUME CallInv, UNCHANGED callVars PROVE CallInv'
BY DEF callVars, CallInv, CallTypeOK, QueueInv, NothingOutlivesCall,
   OutcomeIsAnswer, Alive

\* No two results name one job, so there are at most as many as jobs.
LEMMA ResultsFit ==
  ASSUME NEW reports \in Seq(ResultRecords),
         \A i, k \in DOMAIN reports : reports[i].job = reports[k].job => i = k
  PROVE  Len(reports) <= Cardinality(Calls)
<1> DEFINE jobOf == [i \in 1 .. Len(reports) |-> reports[i].job]
<1>1. Len(reports) \in Nat /\ DOMAIN reports = 1 .. Len(reports)
  OBVIOUS
<1>2. jobOf \in Injection(1 .. Len(reports), Calls)
  <2>1. \A i \in 1 .. Len(reports) : reports[i] \in ResultRecords
    BY <1>1
  <2>2. \A i \in 1 .. Len(reports) : reports[i].job \in Calls
    BY <2>1 DEF ResultRecords
  <2>3. jobOf \in [1 .. Len(reports) -> Calls]
    BY <2>2
  <2>4. \A i, k \in 1 .. Len(reports) : jobOf[i] = jobOf[k] => i = k
    BY <1>1
  <2> HIDE DEF jobOf
  <2>5. QED
    BY <2>3, <2>4 DEF Injection, IsInjective
<1>3. Cardinality(1 .. Len(reports)) = Len(reports)
  BY <1>1, FS_Interval
<1>4. Cardinality(1 .. Len(reports)) <= Cardinality(Calls)
  BY <1>2, PoolAssumption, FS_Injection
<1>5. QED
  BY <1>3, <1>4

-----------------------------------------------------------------------------
LEMMA PoolInitInv == PoolInit => PoolInv
<1> SUFFICES ASSUME PoolInit PROVE PoolInv
  OBVIOUS
<1>1. CallInv
  BY CallInitInv DEF PoolInit
<1>2. Cardinality(Calls) \in Nat
  BY PoolAssumption, FS_CardinalityType
<1>3. PoolTypeOK
  <2>1. worker \in [Workers -> [job: Calls \cup {NoCall}, at: Places]]
    BY DEF PoolInit, Places
  <2>2. /\ queue \in Seq(Calls)
        /\ results \in Seq([job: Calls, success: BOOLEAN, artifact: BOOLEAN])
        /\ Len(results) = 0
    BY DEF PoolInit
  <2>3. /\ future \in [Calls -> {"none", "pending", "done", "broken"}]
        /\ payload \in [Calls -> Payloads]
        /\ stored \in SUBSET Calls /\ yielded \in SUBSET Calls
    BY DEF PoolInit, Payloads
  <2>4. /\ main \in {"submitting", "collecting", "returned", "raised"}
        /\ broken \in BOOLEAN
    BY DEF PoolInit
  <2>5. Len(results) <= Cardinality(Calls) /\ CallTypeOK
    BY <1>1, <1>2, <2>2 DEF CallInv
  <2>6. QED
    BY <2>1, <2>2, <2>3, <2>4, <2>5, Zenon DEF PoolTypeOK
<1>4. JobInv
  BY DEF PoolInit, JobInv, Employed
<1>5. WorkInv
  BY IsolationAssumption DEF PoolInit, WorkInv, HasArtifact
<1>6. OwnerInv
  BY DEF PoolInit, CallInit, OwnerInv
<1>7. ResultInv
  BY DEF PoolInit, ResultInv
<1>8. QED
  BY <1>1, <1>3, <1>4, <1>5, <1>6, <1>7 DEF PoolInv

LEMMA SubmitInv ==
  ASSUME PoolInv, NEW j \in Calls, Submit(j) PROVE PoolInv'
<1> USE DEF PoolInv
<1>1. CallInv'
  BY CallsUntouched DEF Submit
<1>2. /\ future[j] = "none" /\ future' = [future EXCEPT ![j] = "pending"]
      /\ queue \in Seq(Calls) /\ queue' = Append(queue, j)
      /\ UNCHANGED <<callVars, payload, worker, stored, broken, yielded, results>>
      /\ main = "submitting" /\ main' \in {"submitting", "collecting"}
  BY DEF Submit, PoolTypeOK
<1>3. /\ future' \in [Calls -> {"none", "pending", "done", "broken"}]
      /\ future'[j] = "pending" /\ \A i \in Calls : i # j => future'[i] = future[i]
  BY <1>2 DEF PoolTypeOK
<1>4. /\ queue' \in Seq(Calls) /\ DOMAIN queue' = DOMAIN queue \cup {Len(queue) + 1}
      /\ DOMAIN queue = 1 .. Len(queue) /\ Len(queue) \in Nat
      /\ \A i \in DOMAIN queue : queue'[i] = queue[i] /\ queue[i] \in Calls
      /\ queue'[Len(queue) + 1] = j
  BY <1>2
<1>5. PoolTypeOK'
  BY <1>1, <1>2, <1>3, <1>4 DEF PoolTypeOK, CallInv
<1>6. /\ \A w \in Workers : worker[w].job # j
      /\ \A i \in DOMAIN queue : queue[i] # j
  <2>1. \A w \in Workers : worker[w].job = j => Employed(w)
    BY PoolAssumption DEF JobInv
  <2>2. QED
    BY <1>2, <2>1 DEF JobInv
<1>7. JobInv'
  <2>1. \A w \in Workers : (Employed(w) <=> Employed(w)') /\ worker'[w] = worker[w]
    BY <1>2 DEF Employed
  <2>2. \A w \in Workers : Employed(w) => worker[w].job \in Calls
    BY DEF JobInv, PoolTypeOK
  <2>3. QED
    BY <1>2, <1>3, <1>4, <1>6, <2>1, <2>2 DEF JobInv
<1>8. WorkInv'
  BY <1>2, <1>3, <1>4 DEF WorkInv, HasArtifact, callVars
<1>9. OwnerInv'
  BY <1>2 DEF OwnerInv, callVars
<1>10. ResultInv'
  <2>1. \A i \in yielded : i \in Calls /\ future'[i] = future[i]
    BY <1>2, <1>3 DEF ResultInv, PoolTypeOK
  <2>2. QED
    BY <1>2, <2>1 DEF ResultInv, HasArtifact
<1>11. QED
  BY <1>1, <1>5, <1>7, <1>8, <1>9, <1>10

\* Steps of the main process that change only where it is.
LEMMA MainInv ==
  ASSUME PoolInv, SubmitFails \/ (\E j \in Calls : CollectExit(j)) \/ Summarise
  PROVE  PoolInv'
<1> USE DEF PoolInv
<1>1. /\ UNCHANGED <<callVars, future, payload, queue, worker, stored, broken,
                     yielded, results>>
      /\ main' = "raised" \/ (main' = "returned" /\ yielded = Calls)
  BY DEF SubmitFails, CollectExit, Summarise
<1>2. CallInv'
  BY <1>1, CallsUntouched
<1>3. PoolTypeOK'
  BY <1>1, <1>2 DEF PoolTypeOK, CallInv
<1>4. JobInv'
  BY <1>1 DEF JobInv, Employed
<1>5. WorkInv'
  BY <1>1 DEF WorkInv, HasArtifact, callVars
<1>6. OwnerInv'
  BY <1>1 DEF OwnerInv, callVars
<1>7. ResultInv'
  BY <1>1 DEF ResultInv, HasArtifact
<1>8. QED
  BY <1>2, <1>3, <1>4, <1>5, <1>6, <1>7

LEMMA CollectInv ==
  ASSUME PoolInv, NEW j \in Calls, NEW compliant \in BOOLEAN,
         Collect(j, compliant)
  PROVE  PoolInv'
<1> USE DEF PoolInv
<1> DEFINE success == /\ future[j] = "done"
                      /\ payload[j] = "success"
                      /\ Strict => compliant
           artifact == future[j] = "done" /\ HasArtifact(j)
           report == [job |-> j, success |-> success, artifact |-> artifact]
<1>1. /\ UNCHANGED <<callVars, main, future, payload, queue, worker, stored, broken>>
      /\ main = "collecting" /\ future[j] \in {"done", "broken"}
      /\ j \notin yielded /\ yielded' = yielded \cup {j}
      /\ results' = Append(results, report)
  BY DEF Collect, Yield, Report
<1>2. /\ report \in ResultRecords /\ report.job = j
      /\ report.success = success /\ report.artifact = artifact
  BY PoolAssumption DEF ResultRecords
<1>3. /\ report.artifact => HasArtifact(j)
      /\ report.success => report.artifact /\ payload[j] = "success"
      /\ j \in stored /\ ~report.artifact => broken
  BY <1>1, <1>2 DEF WorkInv, HasArtifact
<1> HIDE DEF report
<1>4. /\ results \in Seq(ResultRecords) /\ results' \in Seq(ResultRecords)
      /\ DOMAIN results' = DOMAIN results \cup {Len(results) + 1}
      /\ DOMAIN results = 1 .. Len(results) /\ Len(results) \in Nat
      /\ \A i \in DOMAIN results : results'[i] = results[i]
      /\ results'[Len(results) + 1] = report
  BY <1>1, <1>2 DEF PoolTypeOK, ResultRecords
<1>5. CallInv'
  BY <1>1, CallsUntouched
<1>6. JobInv'
  BY <1>1 DEF JobInv, Employed
<1>7. WorkInv'
  BY <1>1 DEF WorkInv, HasArtifact, callVars
<1>8. OwnerInv'
  BY <1>1 DEF OwnerInv, callVars
<1>9. ResultInv'
  <2>1. \A i \in DOMAIN results : results[i].job # j
    BY <1>1 DEF ResultInv
  <2>2. \A i \in DOMAIN results' :
          /\ results'[i].job \in yielded'
          /\ \A k \in DOMAIN results' : results'[i].job = results'[k].job => i = k
    BY <1>1, <1>2, <1>4, <2>1 DEF ResultInv
  <2>3. \A i \in yielded' :
          /\ future'[i] \in {"done", "broken"}
          /\ \E k \in DOMAIN results' : results'[k].job = i
    BY <1>1, <1>2, <1>4 DEF ResultInv
  <2>4. \A i \in DOMAIN results' :
          /\ results'[i].artifact => HasArtifact(results'[i].job)
          /\ results'[i].success =>
               results'[i].artifact /\ payload[results'[i].job] = "success"
          /\ results'[i].job \in stored /\ ~results'[i].artifact => broken
    <3>1. \A i \in DOMAIN results :
            /\ results'[i].artifact => HasArtifact(results'[i].job)
            /\ results'[i].success =>
                 results'[i].artifact /\ payload[results'[i].job] = "success"
            /\ results'[i].job \in stored /\ ~results'[i].artifact => broken
      BY <1>4 DEF ResultInv
    <3>2. \A i \in DOMAIN results' : i \in DOMAIN results \/ results'[i] = report
      BY <1>4
    <3> HIDE DEF success, artifact
    <3>3. QED
      BY <1>2, <1>3, <3>1, <3>2, Zenon
  <2>5. QED
    BY <1>1, <2>2, <2>3, <2>4 DEF ResultInv, HasArtifact
<1>10. PoolTypeOK'
  <2>1. Len(results') <= Cardinality(Calls)
    BY <1>4, <1>9, ResultsFit DEF ResultInv
  <2>2. yielded' \in SUBSET Calls
    BY <1>1 DEF PoolTypeOK
  <2>3. QED
    BY <1>1, <1>4, <1>5, <2>1, <2>2 DEF PoolTypeOK, CallInv, ResultRecords
<1>11. QED
  BY <1>5, <1>6, <1>7, <1>8, <1>9, <1>10

-----------------------------------------------------------------------------
\* Whoever is not working on them leaves the reported jobs as they are.
LEMMA ReportsKept ==
  ASSUME PoolTypeOK, ResultInv, UNCHANGED <<main, results, yielded>>,
         broken => broken',
         \A j \in yielded :
           /\ payload'[j] = payload[j] /\ future'[j] = future[j]
           /\ j \in stored' => j \in stored
  PROVE  ResultInv'
<1>1. \A i \in DOMAIN results : results[i].job \in yielded
  BY DEF ResultInv
<1>2. QED
  BY <1>1 DEF ResultInv, HasArtifact

\* A job that a worker has, or that waits, has not been reported.
LEMMA UnreportedJobs ==
  ASSUME PoolTypeOK, JobInv, ResultInv
  PROVE  /\ \A w \in Workers : Employed(w) =>
              worker[w].job \in Calls /\ worker[w].job \notin yielded
         /\ \A w \in Workers : worker[w].at \notin {"idle", "dead"} => Employed(w)
BY DEF PoolTypeOK, JobInv, ResultInv, Employed

LEMMA TakeInv ==
  ASSUME PoolInv, NEW w \in Workers, TakeIsolated(w) \/ TakeDirect(w)
  PROVE  PoolInv'
<1> USE DEF PoolInv
<1> DEFINE j == Head(queue)
           place == IF j \in Timed THEN "isolated" ELSE "direct"
<1>1. /\ worker[w].at = "idle" /\ queue # <<>> /\ queue' = Tail(queue)
      /\ UNCHANGED <<main, future, payload, stored, broken, yielded, results>>
  BY DEF TakeIsolated, TakeDirect
<1>2. /\ j \in Calls /\ queue' \in Seq(Calls)
      /\ future[j] = "pending" /\ payload[j] = "none"
      /\ \A v \in Workers : worker[v].job # j
      /\ \A i \in DOMAIN queue' :
           i + 1 \in DOMAIN queue /\ queue'[i] = queue[i + 1] /\ queue'[i] # j
  BY <1>1, QueueHead
<1>3. GoTo(w, j, place) /\ place \in Places
  BY <1>2 DEF TakeIsolated, TakeDirect, Direct, Places
<1>4. /\ worker' \in [Workers -> WorkerStates]
      /\ worker'[w] = [job |-> j, at |-> place]
      /\ worker'[w].job = j /\ worker'[w].at = place
      /\ \A v \in Workers : v # w => worker'[v] = worker[v]
  BY <1>2, <1>3, GoToChanges
<1>5. (j \in Timed /\ Start(j)) \/ (j \in Direct /\ UNCHANGED callVars)
  BY DEF TakeIsolated, TakeDirect
<1>6. CallInv'
  BY <1>2, <1>5, CallStepInv, CallsUntouched
<1>7. /\ \A i \in Calls : i # j => caller'[i] = caller[i]
      /\ outcome' = outcome
      /\ j \in Timed => caller'[j] = "waiting" /\ caller[j] = "idle"
      /\ j \notin Timed => caller' = caller
  BY <1>2, <1>5 DEF Start, callVars, Direct, PoolTypeOK, CallTypeOK
<1> HIDE DEF j
<1>8. (place = "isolated" /\ j \in Timed) \/ (place = "direct" /\ j \in Direct)
  BY <1>2 DEF Direct
<1> HIDE DEF place
<1>9. PoolTypeOK'
  BY <1>1, <1>2, <1>4, <1>6 DEF PoolTypeOK, CallInv, WorkerStates
<1>10. JobInv'
  <2>1. Employed(w)' /\ ~Employed(w) /\ j # NoCall
    BY <1>1, <1>2, <1>4, <1>8, PoolAssumption DEF Employed
  <2>2. \A v \in Workers : v # w => (Employed(v)' <=> Employed(v))
    BY <1>4 DEF Employed
  <2>3. \A i \in DOMAIN queue' :
          /\ future[queue'[i]] = "pending"
          /\ \A v \in Workers : worker'[v].job # queue'[i]
    BY <1>2, <1>4 DEF JobInv
  <2>4. \A i, k \in DOMAIN queue' : queue'[i] = queue'[k] => i = k
    <3>1. SUFFICES ASSUME NEW i \in DOMAIN queue', NEW k \in DOMAIN queue',
                          queue'[i] = queue'[k]
                   PROVE  i = k
      OBVIOUS
    <3>2. i + 1 = k + 1
      BY <1>2, <3>1 DEF JobInv
    <3>3. i \in Int /\ k \in Int
      BY <1>2
    <3>4. QED
      BY <3>2, <3>3
  <2>5. \A v \in Workers :
          /\ Employed(v)' <=> worker'[v].job # NoCall
          /\ Employed(v)' => future[worker'[v].job] = "pending"
    BY <1>2, <1>4, <2>1, <2>2 DEF JobInv
  <2>6. \A u, v \in Workers :
          Employed(u)' /\ worker'[u].job = worker'[v].job => u = v
    BY <1>2, <1>4, <2>1, <2>2 DEF JobInv
  <2>7. QED
    BY <1>1, <2>3, <2>4, <2>5, <2>6 DEF JobInv
<1>11. WorkInv'
  <2>1. \A v \in Workers : v # w => worker[v].job # j
    BY <1>2
  <2>2. \A v \in Workers : worker[v].at = "isolated" => worker[v].job \in Calls
    BY IsolationAssumption DEF WorkInv
  <2>3. \A v \in Workers :
          /\ worker'[v].at \in {"isolated", "direct"} => payload[worker'[v].job] = "none"
          /\ worker'[v].at = "isolated" =>
               worker'[v].job \in Timed /\ caller'[worker'[v].job] # "idle"
          /\ worker'[v].at = "direct" => worker'[v].job \in Direct
          /\ worker'[v].at = "persist" => HasArtifact(worker'[v].job)
    BY <1>2, <1>4, <1>7, <1>8, <2>1, <2>2 DEF WorkInv
  <2>4. \A i \in Timed :
          HasArtifact(i) => caller'[i] = "returned" /\ outcome'[i] = "result"
    BY <1>2, <1>7, IsolationAssumption DEF WorkInv, HasArtifact
  <2>5. \A i \in DOMAIN queue' : payload[queue'[i]] = "none"
    BY <1>2 DEF WorkInv
  <2>6. QED
    BY <1>1, <2>3, <2>4, <2>5 DEF WorkInv, HasArtifact
<1>12. OwnerInv'
  <2>1. SUFFICES ASSUME NEW i \in Calls
                 PROVE  /\ caller'[i] \in {"waiting", "reading", "finally", "joining"} =>
                             \E v \in Workers : worker'[v] = [job |-> i, at |-> "isolated"]
                        /\ caller'[i] = "dead" => \E v \in Workers : worker'[v].at = "dead"
    BY DEF OwnerInv
  <2>2. CASE i = j /\ j \in Timed
    BY <1>4, <1>7, <1>8, <2>2 DEF Direct
  <2>3. CASE ~(i = j /\ j \in Timed)
    <3>1. caller'[i] = caller[i]
      BY <1>7, <2>3
    <3>2. \A v \in Workers : worker[v].at # "idle" => worker'[v] = worker[v]
      BY <1>1, <1>4
    <3>3. \A v \in Workers :
            worker[v] = [job |-> i, at |-> "isolated"] => worker[v].at = "isolated"
      OBVIOUS
    <3>4. QED
      BY <3>1, <3>2, <3>3 DEF OwnerInv
  <2>4. QED
    BY <2>2, <2>3
<1>13. ResultInv'
  BY <1>1 DEF ResultInv, HasArtifact
<1>14. QED
  BY <1>6, <1>9, <1>10, <1>11, <1>12, <1>13

\* A worker that has come to something: run() in it, or run_isolated.
LEMMA EndsInv ==
  ASSUME PoolInv, NEW w \in Workers, NEW came \in Payloads,
         (DirectEnds(w, came) /\ came # "none") \/ IsolatedEnds(w, came)
  PROVE  PoolInv'
<1> USE DEF PoolInv
<1> DEFINE j == worker[w].job
           place == IF came \in {"success", "failure"} THEN "persist" ELSE "reply"
<1>1. /\ worker[w].at \in {"direct", "isolated"}
      /\ payload' = [payload EXCEPT ![j] = came]
      /\ UNCHANGED <<callVars, main, future, queue, stored, broken, yielded, results>>
      /\ GoTo(w, j, place)
      /\ came \in {"success", "failure"} /\ j \in Timed =>
           caller[j] = "returned" /\ outcome[j] = "result"
  BY DEF DirectEnds, IsolatedEnds, WorkInv, Direct
<1>2. /\ j \in Calls /\ j # NoCall /\ Employed(w) /\ future[j] = "pending"
      /\ j \notin yielded /\ payload[j] = "none" /\ j \notin stored
  BY <1>1, UnreportedJobs, PoolAssumption DEF JobInv, WorkInv, HasArtifact
<1>3. place \in Places
  BY DEF Places
<1>4. /\ worker' \in [Workers -> WorkerStates]
      /\ worker'[w] = [job |-> j, at |-> place]
      /\ worker'[w].job = j /\ worker'[w].at = place
      /\ \A v \in Workers : v # w => worker'[v] = worker[v]
  BY <1>1, <1>2, <1>3, GoToChanges
<1>5. /\ payload' \in [Calls -> Payloads] /\ payload'[j] = came
      /\ \A i \in Calls : i # j => payload'[i] = payload[i]
  BY <1>1, <1>2 DEF PoolTypeOK
<1>6. (place = "persist" /\ came \in {"success", "failure"}) \/ place = "reply"
  OBVIOUS
<1> HIDE DEF j, place
<1>7. CallInv'
  BY <1>1, CallsUntouched
<1>8. PoolTypeOK'
  BY <1>1, <1>4, <1>5, <1>7 DEF PoolTypeOK, CallInv, WorkerStates
<1>9. JobInv'
  <2>1. \A v \in Workers : worker'[v].job = worker[v].job
    BY <1>4 DEF j
  <2>2. \A v \in Workers : Employed(v)' <=> Employed(v)
    BY <1>2, <1>4, <1>6 DEF Employed
  <2>3. QED
    BY <1>1, <2>1, <2>2 DEF JobInv
<1>10. WorkInv'
  <2>1. \A v \in Workers : v # w /\ Employed(v) => worker[v].job \in Calls /\ worker[v].job # j
    BY <1>2, UnreportedJobs DEF JobInv, j
  <2>2. \A v \in Workers :
          /\ worker'[v].at \in {"isolated", "direct"} => payload'[worker'[v].job] = "none"
          /\ worker'[v].at = "isolated" =>
               worker'[v].job \in Timed /\ caller'[worker'[v].job] # "idle"
          /\ worker'[v].at = "direct" => worker'[v].job \in Direct
          /\ worker'[v].at = "persist" => HasArtifact(worker[v].job)'
    <3>1. SUFFICES ASSUME NEW v \in Workers
          PROVE  /\ worker'[v].at \in {"isolated", "direct"} => payload'[worker'[v].job] = "none"
                 /\ worker'[v].at = "isolated" =>
                      worker'[v].job \in Timed /\ caller'[worker'[v].job] # "idle"
                 /\ worker'[v].at = "direct" => worker'[v].job \in Direct
                 /\ worker'[v].at = "persist" => HasArtifact(worker[v].job)'
      OBVIOUS
    <3>2. CASE v = w
      BY <1>4, <1>5, <1>6, <3>2 DEF HasArtifact
    <3>3. CASE v # w
      <4>1. worker'[v] = worker[v]
        BY <1>4, <3>3
      <4>2. Employed(v) => payload'[worker[v].job] = payload[worker[v].job]
        BY <1>5, <2>1, <3>3
      <4>3. worker[v].at \in {"isolated", "direct", "persist"} => Employed(v)
        BY DEF Employed
      <4>4. caller' = caller
        BY <1>1 DEF callVars
      <4>5. /\ worker[v].at \in {"isolated", "direct"} => payload[worker[v].job] = "none"
            /\ worker[v].at = "isolated" =>
                 worker[v].job \in Timed /\ caller[worker[v].job] # "idle"
            /\ worker[v].at = "direct" => worker[v].job \in Direct
            /\ worker[v].at = "persist" => HasArtifact(worker[v].job)
        BY DEF WorkInv
      <4>6. worker[v].at = "persist" => HasArtifact(worker[v].job)'
        BY <4>1, <4>2, <4>3, <4>5 DEF HasArtifact
      <4>7. QED
        BY <4>1, <4>2, <4>3, <4>4, <4>5, <4>6
    <3>4. QED
      BY <3>2, <3>3
  <2>3. \A i \in Timed :
          HasArtifact(i)' => caller'[i] = "returned" /\ outcome'[i] = "result"
    BY <1>1, <1>5, IsolationAssumption DEF WorkInv, HasArtifact, callVars
  <2>4. \A i \in DOMAIN queue' : payload'[queue'[i]] = "none"
    <3>1. \A i \in DOMAIN queue : queue[i] \in Calls /\ queue[i] # j
      BY DEF JobInv, PoolTypeOK, j
    <3>2. QED
      BY <1>1, <1>5, <3>1 DEF WorkInv
  <2>5. \A i \in Calls : future'[i] = "none" => payload'[i] = "none"
    BY <1>1, <1>2, <1>5 DEF WorkInv
  <2>6. \A i \in stored' : HasArtifact(i)'
    BY <1>1, <1>2, <1>5 DEF WorkInv, HasArtifact, PoolTypeOK
  <2>7. \A i \in Calls : future'[i] = "broken" => broken'
    BY <1>1 DEF WorkInv
  <2>8. QED
    BY <2>2, <2>3, <2>4, <2>5, <2>6, <2>7 DEF WorkInv, HasArtifact
<1>11. OwnerInv'
  <2>1. \A v \in Workers : worker[v].at = "dead" => worker'[v] = worker[v]
    BY <1>1, <1>4
  <2>2. SUFFICES ASSUME NEW i \in Calls,
                        caller[i] \in {"waiting", "reading", "finally", "joining"}
                 PROVE  \E v \in Workers : worker'[v] = [job |-> i, at |-> "isolated"]
    BY <1>1, <2>1 DEF OwnerInv, callVars
  <2>3. PICK v \in Workers : worker[v] = [job |-> i, at |-> "isolated"]
    BY <2>2 DEF OwnerInv
  <2>4. v # w
    <3>1. worker[w].at = "isolated" => caller[j] = "returned"
      BY DEF DirectEnds, IsolatedEnds, j
    <3>2. QED
      BY <2>2, <2>3, <3>1 DEF j
  <2>5. QED
    BY <1>4, <2>3, <2>4
<1>12. ResultInv'
  BY <1>1, <1>2, <1>5, ReportsKept DEF PoolTypeOK
<1>13. QED
  BY <1>7, <1>8, <1>9, <1>10, <1>11, <1>12

LEMMA PersistInv ==
  ASSUME PoolInv, NEW w \in Workers, NEW saved \in BOOLEAN, Persist(w, saved)
  PROVE  PoolInv'
<1> USE DEF PoolInv
<1> DEFINE j == worker[w].job
<1>1. /\ worker[w].at = "persist" /\ GoTo(w, j, "reply")
      /\ stored' \in {stored, stored \cup {j}}
      /\ UNCHANGED <<callVars, main, future, payload, queue, broken, yielded, results>>
  BY DEF Persist
<1>2. j \in Calls /\ Employed(w) /\ j \notin yielded /\ HasArtifact(j)
  BY <1>1, UnreportedJobs DEF WorkInv
<1>3. /\ worker' \in [Workers -> WorkerStates]
      /\ worker'[w].job = j /\ worker'[w].at = "reply"
      /\ \A v \in Workers : v # w => worker'[v] = worker[v]
  BY <1>1, <1>2, GoToChanges DEF Places
<1>4. CallInv'
  BY <1>1, CallsUntouched
<1>5. PoolTypeOK'
  <2>1. stored' \in SUBSET Calls
    BY <1>1, <1>2 DEF PoolTypeOK
  <2>2. QED
    BY <1>1, <1>3, <1>4, <2>1 DEF PoolTypeOK, CallInv, WorkerStates
<1>6. JobInv'
  <2>1. \A v \in Workers : worker'[v].job = worker[v].job
    BY <1>3
  <2>2. \A v \in Workers : Employed(v)' <=> Employed(v)
    BY <1>2, <1>3 DEF Employed
  <2>3. QED
    BY <1>1, <2>1, <2>2 DEF JobInv
<1>7. WorkInv'
  BY <1>1, <1>2, <1>3 DEF WorkInv, HasArtifact, callVars
<1>8. OwnerInv'
  <2>1. \A v \in Workers : worker[v].at \in {"dead", "isolated"} => worker'[v] = worker[v]
    BY <1>1, <1>3
  <2>2. \A v \in Workers, i \in Calls :
          worker[v] = [job |-> i, at |-> "isolated"] => worker[v].at = "isolated"
    OBVIOUS
  <2>3. QED
    BY <1>1, <2>1, <2>2 DEF OwnerInv, callVars
<1>9. ResultInv'
  BY <1>1, <1>2, ReportsKept
<1>10. QED
  BY <1>4, <1>5, <1>6, <1>7, <1>8, <1>9

LEMMA ReplyDoneInv ==
  ASSUME PoolInv, NEW w \in Workers, ReplyDone(w) PROVE PoolInv'
<1> USE DEF PoolInv
<1> DEFINE j == worker[w].job
<1>1. /\ worker[w].at = "reply" /\ GoTo(w, NoCall, "idle")
      /\ future' = [future EXCEPT ![j] = "done"]
      /\ UNCHANGED <<callVars, main, payload, queue, stored, broken, yielded, results>>
  BY DEF ReplyDone
<1>2. j \in Calls /\ Employed(w) /\ j \notin yielded /\ future[j] = "pending"
  BY <1>1, UnreportedJobs DEF JobInv
<1>3. /\ worker' \in [Workers -> WorkerStates]
      /\ worker'[w].job = NoCall /\ worker'[w].at = "idle"
      /\ \A v \in Workers : v # w => worker'[v] = worker[v]
  BY <1>1, GoToChanges DEF Places
<1>4. /\ future' \in [Calls -> {"none", "pending", "done", "broken"}]
      /\ future'[j] = "done" /\ \A i \in Calls : i # j => future'[i] = future[i]
  BY <1>1, <1>2 DEF PoolTypeOK
<1>5. CallInv'
  BY <1>1, CallsUntouched
<1>6. PoolTypeOK'
  BY <1>1, <1>3, <1>4, <1>5 DEF PoolTypeOK, CallInv, WorkerStates
<1>7. JobInv'
  <2>1. \A v \in Workers : v # w => (Employed(v)' <=> Employed(v))
    BY <1>3 DEF Employed
  <2>2. ~Employed(w)'
    BY <1>3 DEF Employed
  <2>3. \A v \in Workers : v # w /\ Employed(v) => worker[v].job \in Calls /\ worker[v].job # j
    BY <1>2, UnreportedJobs DEF JobInv
  <2>4. \A i \in DOMAIN queue : queue[i] \in Calls /\ queue[i] # j /\ queue[i] # NoCall
    BY PoolAssumption DEF JobInv, PoolTypeOK
  <2>5. \A v \in Workers :
          /\ Employed(v)' <=> worker'[v].job # NoCall
          /\ Employed(v)' => future'[worker'[v].job] = "pending"
    BY <1>3, <1>4, <2>1, <2>2, <2>3 DEF JobInv
  <2>6. \A u, v \in Workers :
          Employed(u)' /\ worker'[u].job = worker'[v].job => u = v
    BY <1>3, <2>1, <2>2, <2>5 DEF JobInv
  <2>7. \A i \in DOMAIN queue :
          /\ future'[queue[i]] = "pending"
          /\ \A v \in Workers : worker'[v].job # queue[i]
    BY <1>3, <1>4, <2>4 DEF JobInv
  <2>8. QED
    BY <1>1, <2>5, <2>6, <2>7 DEF JobInv
<1>8. WorkInv'
  BY <1>1, <1>2, <1>3, <1>4 DEF WorkInv, HasArtifact, callVars
<1>9. OwnerInv'
  <2>1. \A v \in Workers : worker[v].at \in {"dead", "isolated"} => worker'[v] = worker[v]
    BY <1>1, <1>3
  <2>2. \A v \in Workers, i \in Calls :
          worker[v] = [job |-> i, at |-> "isolated"] => worker[v].at = "isolated"
    OBVIOUS
  <2>3. QED
    BY <1>1, <2>1, <2>2 DEF OwnerInv, callVars
<1>10. ResultInv'
  BY <1>1, <1>2, <1>4, ReportsKept DEF PoolTypeOK
<1>11. QED
  BY <1>5, <1>6, <1>7, <1>8, <1>9, <1>10

-----------------------------------------------------------------------------
\* The callers that the death of workers takes away.
Lost(j, lost) == [job |-> j, at |-> "isolated"] \in {worker[w] : w \in lost}

LEMMA AbandonKeeps ==
  ASSUME CallInv, NEW lost, Abandon(lost),
         UNCHANGED <<child, pipe, answer, killed, outcome>>,
         \A j \in Calls : Lost(j, lost) => caller[j] # "idle"
  PROVE  /\ CallInv'
         /\ \A j \in Calls : caller'[j] = IF Lost(j, lost) THEN "dead" ELSE caller[j]
<1>1. \A j \in Calls : caller'[j] = IF Lost(j, lost) THEN "dead" ELSE caller[j]
  BY DEF Abandon, Lost
<1>2. caller' \in [Calls -> {"idle", "waiting", "reading", "finally", "joining",
                             "returned", "dead"}]
  BY DEF Abandon, CallInv, CallTypeOK
<1> HIDE DEF Lost
<1>3. CallTypeOK'
  BY <1>2 DEF CallInv, CallTypeOK
<1>4. \A j \in Calls :
        /\ caller'[j] \in {caller[j], "dead"}
        /\ caller'[j] = "idle" <=> caller[j] = "idle"
  BY <1>1
<1>5. QueueInv'
  BY <1>4 DEF CallInv, QueueInv
<1>6. NothingOutlivesCall'
  BY <1>4 DEF CallInv, NothingOutlivesCall, Alive
<1>7. OutcomeIsAnswer'
  BY DEF CallInv, OutcomeIsAnswer
<1>8. QED
  BY <1>1, <1>3, <1>5, <1>6, <1>7 DEF CallInv

\* What the calls of lost workers were at is not known to be a result.
LEMMA LostJobs ==
  ASSUME PoolInv, NEW lost \in SUBSET Workers, NEW j \in Calls, Lost(j, lost)
  PROVE  /\ \E w \in lost : worker[w] = [job |-> j, at |-> "isolated"]
         /\ caller[j] # "idle" /\ ~HasArtifact(j)
<1>1. PICK w \in lost : worker[w] = [job |-> j, at |-> "isolated"]
  BY DEF Lost
<1>2. worker[w].job = j /\ worker[w].at = "isolated" /\ w \in Workers
  BY <1>1
<1>3. QED
  BY <1>1, <1>2 DEF PoolInv, WorkInv, HasArtifact

LEMMA WorkerDiesInv ==
  ASSUME PoolInv, NEW w \in Workers, WorkerDies(w) PROVE PoolInv'
<1> USE DEF PoolInv
<1>1. /\ worker[w].at \notin {"idle", "dead"} /\ GoTo(w, NoCall, "dead")
      /\ Abandon({w})
      /\ UNCHANGED <<child, pipe, answer, killed, outcome>>
      /\ UNCHANGED <<main, future, payload, queue, stored, broken, yielded, results>>
  BY DEF WorkerDies
<1>2. \A j \in Calls : Lost(j, {w}) =>
        /\ worker[w] = [job |-> j, at |-> "isolated"]
        /\ caller[j] # "idle" /\ ~HasArtifact(j)
  <2>1. SUFFICES ASSUME NEW j \in Calls, Lost(j, {w})
                 PROVE  /\ worker[w] = [job |-> j, at |-> "isolated"]
                        /\ caller[j] # "idle" /\ ~HasArtifact(j)
    OBVIOUS
  <2> DEFINE lost == {w}
  <2>2. lost \in SUBSET Workers /\ Lost(j, lost)
    BY <2>1
  <2>3. \A v \in lost : v = w
    OBVIOUS
  <2> HIDE DEF lost
  <2>4. QED
    BY <2>2, <2>3, LostJobs
<1>3. /\ CallInv'
      /\ \A j \in Calls : caller'[j] = IF Lost(j, {w}) THEN "dead" ELSE caller[j]
  BY <1>1, <1>2, AbandonKeeps
<1>4. /\ worker' \in [Workers -> WorkerStates]
      /\ worker'[w].job = NoCall /\ worker'[w].at = "dead"
      /\ \A v \in Workers : v # w => worker'[v] = worker[v]
  BY <1>1, GoToChanges DEF Places
<1> HIDE DEF Lost
<1>5. PoolTypeOK'
  BY <1>1, <1>3, <1>4 DEF PoolTypeOK, CallInv, WorkerStates
<1>6. JobInv'
  <2>1. \A v \in Workers : v # w => (Employed(v)' <=> Employed(v))
    BY <1>4 DEF Employed
  <2>2. ~Employed(w)'
    BY <1>4 DEF Employed
  <2>3. \A i \in DOMAIN queue : queue[i] \in Calls /\ queue[i] # NoCall
    BY PoolAssumption DEF PoolTypeOK
  <2>4. \A v \in Workers :
          /\ Employed(v)' <=> worker'[v].job # NoCall
          /\ Employed(v)' => future[worker'[v].job] = "pending"
    BY <1>4, <2>1, <2>2 DEF JobInv
  <2>5. \A u, v \in Workers :
          Employed(u)' /\ worker'[u].job = worker'[v].job => u = v
    BY <1>4, <2>1, <2>2, <2>4 DEF JobInv
  <2>6. \A i \in DOMAIN queue :
          /\ future[queue[i]] = "pending"
          /\ \A v \in Workers : worker'[v].job # queue[i]
    BY <1>4, <2>3 DEF JobInv
  <2>7. QED
    BY <1>1, <2>4, <2>5, <2>6 DEF JobInv
<1>7. WorkInv'
  <2>1. \A v \in Workers : worker'[v].at # "dead" => worker'[v] = worker[v]
    BY <1>4
  <2>2. \A j \in Calls : caller'[j] = "idle" <=> caller[j] = "idle"
    BY <1>2, <1>3
  <2>3. \A j \in Calls : HasArtifact(j) => caller'[j] = caller[j]
    BY <1>2, <1>3
  <2>4. QED
    BY <1>1, <2>1, <2>2, <2>3, IsolationAssumption DEF WorkInv, HasArtifact
<1>8. OwnerInv'
  <2>1. SUFFICES ASSUME NEW j \in Calls,
                        caller'[j] \in {"waiting", "reading", "finally", "joining"}
                 PROVE  \E v \in Workers : worker'[v] = [job |-> j, at |-> "isolated"]
    BY <1>4 DEF OwnerInv
  <2>2. caller[j] = caller'[j] /\ ~Lost(j, {w})
    BY <1>3, <2>1
  <2>3. PICK v \in Workers : worker[v] = [job |-> j, at |-> "isolated"]
    BY <2>1, <2>2 DEF OwnerInv
  <2>4. v # w
    BY <2>2, <2>3 DEF Lost
  <2>5. QED
    BY <1>4, <2>3, <2>4
<1>9. ResultInv'
  BY <1>1, ReportsKept
<1>10. QED
  BY <1>3, <1>5, <1>6, <1>7, <1>8, <1>9

LEMMA PoolBreaksInv ==
  ASSUME PoolInv, PoolBreaks PROVE PoolInv'
<1> USE DEF PoolInv
<1>1. /\ ~broken /\ broken' = TRUE /\ queue' = <<>> /\ Abandon(Workers)
      /\ future' = [j \in Calls |-> IF future[j] = "pending" THEN "broken"
                                                             ELSE future[j]]
      /\ worker' = [w \in Workers |-> [job |-> NoCall, at |-> "dead"]]
      /\ UNCHANGED <<child, pipe, answer, killed, outcome>>
      /\ UNCHANGED <<main, payload, stored, yielded, results>>
      /\ \E w \in Workers : worker[w].at = "dead"
  BY DEF PoolBreaks
<1>2. \A j \in Calls : Lost(j, Workers) =>
        /\ caller[j] # "idle" /\ ~HasArtifact(j)
  BY LostJobs
<1>3. /\ CallInv'
      /\ \A j \in Calls : caller'[j] = IF Lost(j, Workers) THEN "dead" ELSE caller[j]
  BY <1>1, <1>2, AbandonKeeps
<1>4. /\ worker' \in [Workers -> [job: Calls \cup {NoCall}, at: Places]]
      /\ \A w \in Workers : worker'[w].job = NoCall /\ worker'[w].at = "dead"
      /\ \E w \in Workers : TRUE
  BY <1>1 DEF Places
<1>5. /\ future' \in [Calls -> {"none", "pending", "done", "broken"}]
      /\ \A j \in Calls : \/ future'[j] = future[j]
                          \/ future[j] = "pending" /\ future'[j] = "broken"
  BY <1>1 DEF PoolTypeOK
<1>6. queue' \in Seq(Calls) /\ DOMAIN queue' = {}
  BY <1>1
<1>7. PoolTypeOK'
  BY <1>1, <1>3, <1>4, <1>5, <1>6 DEF PoolTypeOK, CallInv
<1>8. JobInv'
  BY <1>4, <1>6 DEF JobInv, Employed
<1>9. WorkInv'
  <2>1. \A j \in Calls : HasArtifact(j) => caller'[j] = caller[j]
    BY <1>2, <1>3
  <2>2. \A j \in Timed :
          HasArtifact(j)' => caller'[j] = "returned" /\ outcome'[j] = "result"
    BY <1>1, <2>1, IsolationAssumption DEF WorkInv, HasArtifact
  <2>3. \A j \in Calls : future'[j] = "none" => payload'[j] = "none"
    BY <1>1, <1>5 DEF WorkInv
  <2>4. \A j \in stored' : HasArtifact(j)'
    BY <1>1 DEF WorkInv, HasArtifact
  <2>5. QED
    BY <1>1, <1>4, <1>6, <2>2, <2>3, <2>4 DEF WorkInv, HasArtifact
<1>10. OwnerInv'
  <2>1. SUFFICES ASSUME NEW j \in Calls
                 PROVE  caller'[j] \notin {"waiting", "reading", "finally", "joining"}
    BY <1>4 DEF OwnerInv
  <2>2. CASE Lost(j, Workers)
    BY <1>3, <2>2
  <2>3. CASE ~Lost(j, Workers)
    <3>1. caller'[j] = caller[j]
      BY <1>3, <2>3
    <3>2. ~\E w \in Workers : worker[w] = [job |-> j, at |-> "isolated"]
      BY <2>3 DEF Lost
    <3>3. QED
      BY <3>1, <3>2 DEF OwnerInv
  <2>4. QED
    BY <2>2, <2>3
<1>11. ResultInv'
  <2>1. \A j \in yielded : j \in Calls /\ future'[j] = future[j] /\ payload'[j] = payload[j]
    BY <1>1, <1>5 DEF ResultInv, PoolTypeOK
  <2>2. QED
    BY <1>1, <2>1, ReportsKept
<1>12. QED
  BY <1>3, <1>7, <1>8, <1>9, <1>10, <1>11

-----------------------------------------------------------------------------
\* A step of a call of run_isolated, or of its child, keeps the caller where it
\* belongs and leaves what a returned call came to.
LEMMA CallStepChanges ==
  ASSUME CallTypeOK, NEW c \in Calls, ChildStep(c) \/ CallerStep(c)
  PROVE  /\ \A j \in Calls : j # c => caller'[j] = caller[j] /\ outcome'[j] = outcome[j]
         /\ caller[c] \in {"idle", "returned", "dead"} =>
              caller'[c] = caller[c] /\ outcome'[c] = outcome[c]
         /\ caller[c] \notin {"idle", "returned", "dead"} =>
              caller'[c] \notin {"idle", "dead"}
<1> USE DEF CallTypeOK
<1>1. CASE ChildStep(c)
  BY <1>1 DEF ChildStep, EpisodeAnswers, EpisodeExits, FeederWrites, ChildEnds
<1>2. CASE CallerStep(c)
  BY <1>2 DEF CallerStep, Poll, Receive, Expire, Cleanup, Return
<1>3. QED
  BY <1>1, <1>2

LEMMA CallStepPoolInv ==
  ASSUME PoolInv, CallStep PROVE PoolInv'
<1> USE DEF PoolInv
<1>1. PICK c \in Calls : ChildStep(c) \/ CallerStep(c)
  BY DEF CallStep
<1>2. UNCHANGED poolVars
  BY DEF CallStep
<1>3. CallInv'
  BY <1>1, CallStepInv
<1>4. /\ \A j \in Calls : j # c => caller'[j] = caller[j] /\ outcome'[j] = outcome[j]
      /\ caller[c] \in {"idle", "returned", "dead"} =>
           caller'[c] = caller[c] /\ outcome'[c] = outcome[c]
      /\ caller[c] \notin {"idle", "returned", "dead"} =>
           caller'[c] \notin {"idle", "dead"}
  BY <1>1, CallStepChanges DEF CallInv
<1>5. PoolTypeOK'
  BY <1>2, <1>3 DEF PoolTypeOK, CallInv, poolVars
<1>6. JobInv'
  BY <1>2 DEF JobInv, Employed, poolVars
<1>7. WorkInv'
  <2>1. \A j \in Timed :
          HasArtifact(j) => caller'[j] = "returned" /\ outcome'[j] = "result"
    BY <1>4, IsolationAssumption DEF WorkInv
  <2>2. \A j \in Calls : caller[j] # "idle" => caller'[j] # "idle"
    BY <1>4
  <2>3. \A w \in Workers : worker[w].at = "isolated" =>
          worker[w].job \in Timed /\ caller'[worker[w].job] # "idle"
    BY <2>2, IsolationAssumption DEF WorkInv
  <2>4. QED
    BY <1>2, <2>1, <2>3 DEF WorkInv, HasArtifact, poolVars
<1>8. OwnerInv'
  BY <1>2, <1>4 DEF OwnerInv, poolVars, CallInv, CallTypeOK
<1>9. ResultInv'
  BY <1>2 DEF ResultInv, HasArtifact, poolVars
<1>10. QED
  BY <1>3, <1>5, <1>6, <1>7, <1>8, <1>9

LEMMA PoolStutters ==
  ASSUME PoolInv, UNCHANGED vars PROVE PoolInv'
<1> USE DEF PoolInv
<1>1. UNCHANGED callVars /\ UNCHANGED poolVars
  BY DEF vars
<1>2. CallInv'
  BY <1>1, CallsUntouched
<1>3. QED
  BY <1>1, <1>2 DEF callVars, poolVars, PoolTypeOK, CallInv, JobInv, Employed, WorkInv,
     HasArtifact, OwnerInv, ResultInv

LEMMA PoolInvCorrect == PoolSafety => []PoolInv
<1>1. PoolInit => PoolInv
  BY PoolInitInv
<1>2. PoolInv /\ [PoolNext]_vars => PoolInv'
  <2>1. ASSUME PoolInv, MainStep PROVE PoolInv'
    BY <2>1, SubmitInv, MainInv, CollectInv DEF MainStep
  <2>2. ASSUME PoolInv, NEW w \in Workers, WorkerStep(w) PROVE PoolInv'
    BY <2>2, TakeInv, EndsInv, PersistInv, ReplyDoneInv DEF WorkerStep
  <2>3. ASSUME PoolInv, NEW w \in Workers, NEW came \in Payloads \ {"none"},
               DirectEnds(w, came)
        PROVE  PoolInv'
    BY <2>3, EndsInv
  <2>4. ASSUME PoolInv, PoolNext PROVE PoolInv'
    BY <2>1, <2>2, <2>3, <2>4, WorkerDiesInv, PoolBreaksInv, CallStepPoolInv
       DEF PoolNext
  <2>5. QED
    BY <2>4, PoolStutters
<1>3. QED
  BY <1>1, <1>2, PTL DEF PoolSafety

\* The state of a batch has its type: no more results than jobs.
THEOREM PoolTypeCorrect == PoolSafety => []PoolTypeOK
<1>1. PoolInv => PoolTypeOK
  BY DEF PoolInv
<1>2. QED
  BY <1>1, PoolInvCorrect, PTL

\* The results and the jobs they report correspond one to one.
LEMMA ReportsCounted ==
  ASSUME PoolTypeOK, ResultInv, yielded = Calls
  PROVE  Reported = Calls /\ Passed + Failed = Cardinality(Calls)
<1> DEFINE n == Len(results)
           jobOf == [i \in 1 .. n |-> results[i].job]
<1>1. results \in Seq(ResultRecords) /\ n \in Nat /\ DOMAIN results = 1 .. n
  BY DEF PoolTypeOK, ResultRecords
<1>2. \A i \in 1 .. n : results[i] \in ResultRecords
  BY <1>1
<1>3. Reported = Calls
  <2>1. \A i \in DOMAIN results : results[i].job \in Calls
    BY <1>1, <1>2 DEF ResultRecords
  <2>2. \A j \in Calls : \E i \in DOMAIN results : results[i].job = j
    BY DEF ResultInv
  <2>3. QED
    BY <2>1, <2>2 DEF Reported
<1>4. jobOf \in Bijection(1 .. n, Calls)
  <2>1. jobOf \in [1 .. n -> Calls]
    BY <1>2 DEF ResultRecords
  <2>2. \A i, k \in 1 .. n : jobOf[i] = jobOf[k] => i = k
    BY <1>1 DEF ResultInv
  <2>3. \A j \in Calls : \E i \in 1 .. n : jobOf[i] = j
    BY <1>1 DEF ResultInv
  <2> HIDE DEF jobOf
  <2>4. jobOf \in Injection(1 .. n, Calls)
    BY <2>1, <2>2 DEF Injection, IsInjective
  <2>5. jobOf \in Surjection(1 .. n, Calls)
    BY <2>1, <2>3 DEF Surjection
  <2>6. QED
    BY <2>4, <2>5 DEF Bijection
<1>5. ExistsBijection(1 .. n, Calls)
  BY <1>4 DEF ExistsBijection
<1>6. Cardinality(Calls) = n
  BY <1>1, <1>5, FS_CountingElements
<1>7. Passed \in Nat
  <2>1. IsFiniteSet(1 .. n)
    BY <1>1, FS_Interval
  <2>2. {i \in DOMAIN results : results[i].success} \subseteq 1 .. n
    BY <1>1
  <2>3. IsFiniteSet({i \in DOMAIN results : results[i].success})
    BY <2>1, <2>2, FS_Subset
  <2>4. QED
    BY <2>3, FS_CardinalityType DEF Passed
<1> HIDE DEF n
<1>8. Failed = n - Passed
  BY DEF Failed, n
<1>9. QED
  BY <1>1, <1>3, <1>6, <1>7, <1>8

\* run_batch's summary accounts for every job exactly once, whatever broke.
THEOREM EveryJobReportedOnceCorrect == PoolSafety => []EveryJobReportedOnce
<1>1. PoolInv => EveryJobReportedOnce
  <2>1. ASSUME PoolInv, main = "returned"
        PROVE  Reported = Calls /\ Passed + Failed = Cardinality(Calls)
    BY <2>1, ReportsCounted DEF PoolInv, ResultInv
  <2>2. QED
    BY <2>1 DEF PoolInv, ResultInv, EveryJobReportedOnce
<1>2. QED
  BY <1>1, PoolInvCorrect, PTL

\* A job passes only on its own successful artifact, which came back whole from
\* its child if it had a timeout; an artifact on disk goes unreported only if a
\* worker died.
THEOREM ReportMatchesEpisodeCorrect == PoolSafety => []ReportMatchesEpisode
<1>1. PoolInv => ReportMatchesEpisode
  BY DEF PoolInv, ResultInv, WorkInv, ReportMatchesEpisode
<1>2. QED
  BY <1>1, PoolInvCorrect, PTL

\* While no worker has died, every running episode is that of a worker of its
\* own, so there are no more of them than workers.
THEOREM PoolIsBoundedCorrect == PoolSafety => []PoolIsBounded
<1>1. ASSUME PoolInv, \A w \in Workers : worker[w].at # "dead"
      PROVE  Cardinality(RunningEpisodes) <= Cardinality(Workers)
  <2> DEFINE host == [j \in RunningEpisodes |-> CHOOSE w \in Workers : worker[w].job = j]
  <2>1. \A j \in RunningEpisodes : \E w \in Workers : worker[w].job = j
    <3>1. SUFFICES ASSUME NEW j \in Timed, Alive(j), ~killed[j]
                   PROVE  \E w \in Workers : worker[w].job = j
      BY DEF RunningEpisodes
    <3>2. j \in Calls /\ caller[j] # "dead"
      BY <1>1, IsolationAssumption DEF PoolInv, OwnerInv
    <3>3. caller[j] \in {"waiting", "reading", "finally"}
      BY <1>1, <3>1, <3>2 DEF PoolInv, CallInv, CallTypeOK, QueueInv,
         NothingOutlivesCall, Alive
    <3>4. PICK w \in Workers : worker[w] = [job |-> j, at |-> "isolated"]
      BY <1>1, <3>2, <3>3 DEF PoolInv, OwnerInv
    <3>5. QED
      BY <3>4
  <2>2. \A j \in RunningEpisodes : host[j] \in Workers /\ worker[host[j]].job = j
    BY <2>1
  <2>3. host \in [RunningEpisodes -> Workers]
    BY <2>2
  <2> HIDE DEF host
  <2>4. host \in Injection(RunningEpisodes, Workers)
    BY <2>2, <2>3 DEF Injection, IsInjective
  <2>5. QED
    BY <2>4, PoolAssumption, FS_Injection
<1>2. PoolInv => PoolIsBounded
  BY <1>1 DEF PoolIsBounded
<1>3. QED
  BY <1>2, PoolInvCorrect, PTL
=============================================================================
