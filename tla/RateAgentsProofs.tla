--------------------------- MODULE RateAgentsProofs ---------------------------
(***************************************************************************)
(* Theorems about RateAgents, for every budget of tool calls and every     *)
(* bound of the clock: types, what success takes, and when handshakes are  *)
(* confirmed.                                                              *)
(***************************************************************************)
EXTENDS RateAgents, TLAPS

\* What the token's delivery follows: an answer to the last action.
Granting == Called("/token") /\ reply.ok

\* What an agent says is a call, a wait of so many steps, the delivery of a
\* token it has obtained, or an action that only tells.
Sound(action, m) ==
  /\ action.type = "wait" => action.steps \in Nat
  /\ action.type = "set_output" => m.token \/ Granting

-----------------------------------------------------------------------------
LEMMA ChainLearnsTyped ==
  ASSUME NEW m \in Memories, reply \in Replies
  PROVE  /\ ChainLearns(m) \in Memories
         /\ ChainLearns(m).token => m.token \/ Granting
BY RateAssumption DEF ChainLearns, Memories, Replies, Granting, Ids, Times, Answers,
   Refused, Restarts, Waited

LEMMA LimitLearnsTyped ==
  ASSUME NEW m \in Memories, reply \in Replies
  PROVE  /\ LimitLearns(m) \in Memories
         /\ LimitLearns(m).token => m.token \/ Granting
BY RateAssumption DEF LimitLearns, Memories, Replies, Granting, Ids, Times, Answers,
   Refused, Waited

LEMMA AutogenLearnsTyped ==
  ASSUME NEW m \in Memories, reply \in Replies
  PROVE  /\ AutogenLearns(m) \in Memories
         /\ AutogenLearns(m).token => m.token \/ Granting
BY RateAssumption DEF AutogenLearns, Memories, Replies, Granting, Ids, Times, Answers,
   Refused, Waited

LEMMA PlannerLearnsTyped ==
  ASSUME NEW m \in Memories, reply \in Replies
  PROVE  /\ PlannerLearns(m) \in Memories
         /\ PlannerLearns(m).token => m.token \/ Granting
         /\ StartsOver => PlannerLearns(m).plan # <<>>
<1> USE RateAssumption DEF Memories, Replies, Granting, Ids, Times
<1>1. CASE StartsOver
  <2>1. /\ ~Answers("get_required_payload") /\ ~Answers("get_handshake_template")
        /\ ~Called("/handshake") /\ ~Called("/handshake_commit")
        /\ ~(Called("/token") /\ reply.ok) /\ ~Refused("rate_limited")
        /\ ~Answers("set_output") /\ ~Waited(m)
    BY <1>1 DEF StartsOver, Answers, Called, Refused, Waited
  <2>2. PlannerLearns(m) = [m EXCEPT !.payload = FALSE, !.id = NoId,
                                     !.plan = HandshakePlan]
    BY <1>1, <2>1 DEF PlannerLearns
  <2>3. HandshakePlan # <<>>
    BY DEF HandshakePlan
  <2>4. QED
    BY <2>2, <2>3 DEF Plans
<1>2. CASE ~StartsOver
  BY <1>2 DEF PlannerLearns, Answers, Refused, Waited
<1>3. QED
  BY <1>1, <1>2

-----------------------------------------------------------------------------
LEMMA ChainActsSound ==
  ASSUME NEW m \in Memories, reply \in Replies
  PROVE  Sound(ChainActs(memory, ChainLearns(m)), ChainLearns(m))
<1> DEFINE n == ChainLearns(m)
<1>1. n \in Memories
  BY ChainLearnsTyped
<1> HIDE DEF n
<1>2. Sound(ChainContinues(n), n)
  BY <1>1 DEF ChainContinues, CallToken, Sound, Memories, ReadPayload, ReadTemplate, Call,
     WaitFor, Deliver, AskHandshake
<1>3. Sound(CallToken(n), n) /\ Sound(AskHandshake, n) /\ Sound(ReadPayload, n)
        /\ Sound(WaitFor(n.wait), n) /\ Sound(WaitFor(1), n)
        /\ (Granting => Sound(Deliver, n))
  BY <1>1 DEF CallToken, Sound, Memories, ReadPayload, ReadTemplate, Call,
     WaitFor, Deliver, AskHandshake
<1>4. QED
  BY <1>2, <1>3 DEF ChainActs, n, Granting

LEMMA LimitActsSound ==
  ASSUME NEW m \in Memories, reply \in Replies
  PROVE  Sound(LimitActs(memory, LimitLearns(m)), LimitLearns(m))
<1> DEFINE n == LimitLearns(m)
<1>1. n \in Memories
  BY LimitLearnsTyped
<1> HIDE DEF n
<1>2. Sound(CallApiToken(n), n) /\ Sound(ReadConfig, n)
        /\ Sound(WaitFor(n.wait), n) /\ Sound(WaitFor(1), n)
        /\ (Granting \/ n.token => Sound(Deliver, n))
  BY <1>1 DEF CallApiToken, Sound, Memories, ReadConfig, Call, WaitFor, Deliver
<1>3. QED
  BY <1>2 DEF LimitActs, n, Granting

LEMMA AutogenActsSound ==
  ASSUME NEW m \in Memories, reply \in Replies
  PROVE  Sound(AutogenActs(AutogenLearns(m)), AutogenLearns(m))
<1> DEFINE n == AutogenLearns(m)
<1>1. n \in Memories
  BY AutogenLearnsTyped
<1> HIDE DEF n
<1>2. Sound(CallApiToken(n), n) /\ Sound(ReadConfig, n)
        /\ Sound(WaitFor(n.wait), n) /\ Sound(WaitFor(1), n)
        /\ (Granting => Sound(Deliver, n))
  BY <1>1 DEF CallApiToken, Sound, Memories, ReadConfig, Call, WaitFor, Deliver
<1>3. QED
  BY <1>2 DEF AutogenActs, n, Granting

\* What is taken from a plan only reads or asks for a handshake.
LEMMA PlanSound ==
  ASSUME NEW m \in Memories, m.plan # <<>>
  PROVE  /\ NextOfPlan(m).memory \in Memories
         /\ NextOfPlan(m).memory.token = m.token
         /\ Sound(NextOfPlan(m).action, NextOfPlan(m).memory)
<1>1. m.plan \in {<<AskHandshake>>, HandshakePlan}
  BY DEF Memories, Plans
<1>2. Head(m.plan) \in {ReadTemplate, AskHandshake}
        /\ Tail(m.plan) \in {<<>>, <<AskHandshake>>}
  <2>1. ASSUME NEW a PROVE Head(<<a>>) = a /\ Tail(<<a>>) = <<>>
    OBVIOUS
  <2>2. ASSUME NEW a, NEW b PROVE Head(<<a, b>>) = a /\ Tail(<<a, b>>) = <<b>>
    OBVIOUS
  <2>3. QED
    BY <1>1, <2>1, <2>2 DEF HandshakePlan
<1>3. /\ NextOfPlan(m).memory = [m EXCEPT !.plan = Tail(m.plan)]
      /\ NextOfPlan(m).action = Head(m.plan)
  BY DEF NextOfPlan, Say
<1>4. [m EXCEPT !.plan = Tail(m.plan)] \in Memories
        /\ [m EXCEPT !.plan = Tail(m.plan)].token = m.token
  BY <1>2 DEF Memories, Plans
<1>5. QED
  BY <1>2, <1>3, <1>4 DEF Sound, ReadTemplate, AskHandshake, Call

LEMMA PlannerMovesSound ==
  ASSUME NEW m \in Memories, reply \in Replies
  PROVE  LET move == PlannerMoves(PlannerLearns(m))
         IN /\ move.memory \in Memories
            /\ move.memory.token => m.token \/ Granting
            /\ Sound(move.action, move.memory)
<1> DEFINE n == PlannerLearns(m)
           Fine(move) == /\ move.memory \in Memories
                         /\ move.memory.token = n.token
                         /\ Sound(move.action, move.memory)
<1>1. /\ n \in Memories
      /\ n.token => m.token \/ Granting
      /\ StartsOver => n.plan # <<>>
  BY PlannerLearnsTyped
<1> HIDE DEF n
<1>2. ASSUME NEW p, NEW t PROVE Fine(Say(Call(p, t), n))
  BY <1>1 DEF Say, Call, Sound
<1>3. Fine(Say(WaitFor(n.wait), n)) /\ Fine(Say(WaitFor(1), n))
        /\ Fine(Say(ReadPayload, n))
        /\ (Granting \/ n.token => Fine(Say(Deliver, n)))
  BY <1>1 DEF Say, WaitFor, Deliver, ReadPayload, Sound, Memories
<1>4. n.plan # <<>> => Fine(NextOfPlan(n))
  BY <1>1, PlanSound
<1>5. Fine(NextOfPlan([n EXCEPT !.plan = HandshakePlan]))
  <2>1. /\ [n EXCEPT !.plan = HandshakePlan] \in Memories
        /\ [n EXCEPT !.plan = HandshakePlan].token = n.token
        /\ [n EXCEPT !.plan = HandshakePlan].plan = HandshakePlan
    BY <1>1 DEF Memories, Plans
  <2>2. HandshakePlan # <<>>
    BY DEF HandshakePlan
  <2>3. QED
    BY <2>1, <2>2, PlanSound
<1>6. Fine(Say(PlannerToken(n), n))
  BY <1>2 DEF PlannerToken
<1> HIDE DEF Fine
<1>7. Fine(PlannerContinues(n))
  BY <1>3, <1>4, <1>5, <1>6 DEF PlannerContinues
<1>8. Fine(PlannerMoves(n))
  BY <1>1, <1>2, <1>3, <1>4, <1>6, <1>7 DEF PlannerMoves, Granting
<1>9. QED
  BY <1>1, <1>8 DEF Fine, n

-----------------------------------------------------------------------------
LEMMA InitRate == AgentsInit => RateInv
<1> SUFFICES ASSUME AgentsInit PROVE RateInv
  OBVIOUS
<1> USE DEF AgentsInit, RateInit
<1>1. reply \in Replies
  BY RateAssumption DEF Error, Ok, Replies, Errors, Ids, Times
<1>2. memory \in Memories
  BY DEF Blank, Memories, Plans, Ids, Times
<1>3. RateTypeOK
  <2>1. /\ confirmed \in BOOLEAN /\ transient \in BOOLEAN /\ granted \in BOOLEAN
        /\ ticket \in BOOLEAN
    OBVIOUS
  <2>2. now \in Times /\ id \in Ids /\ committed \in Ids /\ spent \in 0 .. ToolCalls
    BY RateAssumption DEF Ids, Times
  <2>3. /\ output \in {"none", "token", "other"}
        /\ over \in {"no", "success", "failed"}
    OBVIOUS
  <2>4. QED
    BY <1>1, <1>2, <2>1, <2>2, <2>3 DEF RateTypeOK
<1>4. ServiceInv /\ ConfirmedInTime
  BY DEF ServiceInv, ConfirmedInTime
<1>5. DeliveryInv
  BY DEF DeliveryInv, Called, Blank
<1>6. QED
  BY <1>3, <1>4, <1>5 DEF RateInv

\* What an action leaves to the agent: its notes, with a token only if one has
\* been granted.
Kept == player' = player /\ memory' \in Memories /\ (memory'.token => granted)

\* What the runner does around an action.
LEMMA ActKeeps ==
  ASSUME RateTypeOK, NEW type, NEW endpoint, Act(type, endpoint)
  PROVE  /\ kind' = kind /\ spent' \in 0 .. ToolCalls
         /\ last' = [type |-> type, endpoint |-> endpoint]
         /\ over' \in {"no", "success", "failed"}
         /\ over' = "success" => Valid'
BY RateAssumption DEF RateTypeOK, Act

\* The answers of the services.
LEMMA RepliesTyped ==
  /\ Ok \in Replies
  /\ \A error \in Errors : Error(error) \in Replies /\ ~Error(error).ok
  /\ \A error \in Errors, n \in Nat :
       LET r == [Error(error) EXCEPT !.retry = n] IN r \in Replies /\ ~r.ok
  /\ \A i \in Ids : [Ok EXCEPT !.id = i] \in Replies
BY RateAssumption DEF Ok, Error, Replies, Errors, Ids, Times

LEMMA ReadinessTyped ==
  /\ Readiness \in {"rate_limited", "temporary_failure", "none"}
  /\ Readiness = "none" => ~(now < BlockedUntil[kind]) /\ ~transient
  /\ Readiness = "temporary_failure" => ~(now < BlockedUntil[kind])
  /\ Readiness = "rate_limited" => now < BlockedUntil[kind]
BY DEF Readiness

-----------------------------------------------------------------------------
\* An action that gets an answer and leaves the service and the output alone.
LEMMA AnswerKeeps ==
  ASSUME RateInv, Kept, NEW type, NEW endpoint, Act(type, endpoint),
         UNCHANGED <<service, output>>, reply' \in Replies,
         type = "call_api" => ~reply'.ok
  PROVE  RateInv'
<1> USE DEF RateInv, Kept
<1>1. /\ kind' = kind /\ spent' \in 0 .. ToolCalls
      /\ last' = [type |-> type, endpoint |-> endpoint]
      /\ over' \in {"no", "success", "failed"}
      /\ over' = "success" => Valid'
  BY ActKeeps
<1>2. RateTypeOK'
  BY <1>1 DEF RateTypeOK, service, Ids, Times
<1>3. ServiceInv' /\ ConfirmedInTime'
  BY <1>1 DEF ServiceInv, ConfirmedInTime, service
<1>4. DeliveryInv'
  BY <1>1 DEF DeliveryInv, Called, service
<1>5. QED
  BY <1>2, <1>3, <1>4

LEMMA HandshakeKeeps ==
  ASSUME RateInv, Kept, Handshake, UNCHANGED output, kind # "access",
         Act("call_api", "/handshake")
  PROVE  RateInv'
<1> USE DEF RateInv, Kept
<1>1. /\ kind' = kind /\ spent' \in 0 .. ToolCalls
      /\ last' = [type |-> "call_api", endpoint |-> "/handshake"]
      /\ over' \in {"no", "success", "failed"}
      /\ over' = "success" => Valid'
  BY ActKeeps
<1>2. reply' \in Replies
  BY RepliesTyped DEF Handshake, RateTypeOK, Ids
<1>3. RateTypeOK'
  BY <1>1, <1>2 DEF RateTypeOK, Handshake, Ids
<1>4. ServiceInv' /\ ConfirmedInTime'
  BY <1>1 DEF ServiceInv, ConfirmedInTime, Handshake, RateTypeOK, Times
<1>5. DeliveryInv'
  BY <1>1 DEF DeliveryInv, Called, Handshake
<1>6. QED
  BY <1>3, <1>4, <1>5

LEMMA CommitKeeps ==
  ASSUME RateInv, Kept, NEW p, Commit(p), UNCHANGED output, kind # "access",
         Act("call_api", "/handshake_commit")
  PROVE  RateInv'
<1> USE DEF RateInv, Kept
<1> DEFINE error == IF kind = "chain" THEN ChainCommitError(p)
                                      ELSE DrsCommitError(p)
<1>1. /\ kind' = kind /\ spent' \in 0 .. ToolCalls
      /\ last' = [type |-> "call_api", endpoint |-> "/handshake_commit"]
      /\ over' \in {"no", "success", "failed"}
      /\ over' = "success" => Valid'
  BY ActKeeps
<1>2. /\ error \in Errors \cup {"none"}
      /\ kind = "chain" /\ error = "none" /\ id # NoId => ~(now > id + Window)
  BY DEF ChainCommitError, DrsCommitError, Errors
<1>3. /\ confirmed' = (confirmed \/ error = "none")
      /\ committed' = IF error = "none" THEN now ELSE committed
      /\ reply' = IF error = "none" THEN Ok ELSE Error(error)
      /\ UNCHANGED <<now, id, transient, granted, ticket>>
  BY DEF Commit
<1> HIDE DEF error
<1>4. reply' \in Replies
  BY <1>2, <1>3, RepliesTyped
<1>5. RateTypeOK'
  BY <1>1, <1>3, <1>4 DEF RateTypeOK, Ids
<1>6. ServiceInv'
  BY <1>1, <1>3 DEF ServiceInv
<1>7. ConfirmedInTime'
  BY <1>1, <1>2, <1>3, RateAssumption
     DEF ConfirmedInTime, ServiceInv, RateTypeOK, Ids, Times, Window
<1>8. DeliveryInv'
  BY <1>1, <1>3 DEF DeliveryInv, Called
<1>9. QED
  BY <1>5, <1>6, <1>7, <1>8

LEMMA TokenKeeps ==
  ASSUME RateInv, Kept, NEW p, Token(p), UNCHANGED output, kind # "access",
         Act("call_api", "/token")
  PROVE  RateInv'
<1> USE DEF RateInv, Kept
<1> DEFINE error == CASE kind = "api" -> ApiTokenError(p)
                      [] kind = "chain" -> ChainTokenError(p)
                      [] kind = "drs" -> DrsTokenError(p)
<1>1. /\ kind' = kind /\ spent' \in 0 .. ToolCalls
      /\ last' = [type |-> "call_api", endpoint |-> "/token"]
      /\ over' \in {"no", "success", "failed"}
      /\ over' = "success" => Valid'
  BY ActKeeps
<1>2. kind \in {"api", "chain", "drs"}
  BY DEF RateTypeOK, Kinds
<1>3. /\ error \in Errors \cup {"none"}
      /\ error = "none" => Readiness = "none"
      /\ error = "rate_limited" => Readiness = "rate_limited"
  BY <1>2, ReadinessTyped
     DEF ApiTokenError, ChainTokenError, DrsTokenError, Errors
<1>4. /\ transient' = (transient /\ error # "temporary_failure")
      /\ granted' = (granted \/ error = "none")
      /\ reply' = IF error = "none" THEN Ok
                  ELSE [Error(error) EXCEPT
                          !.retry = IF error = "rate_limited" THEN RetryAfter
                                                              ELSE 0]
      /\ UNCHANGED <<now, id, confirmed, ticket, committed>>
  BY DEF Token
<1> HIDE DEF error
<1>5. error = "rate_limited" => RetryAfter \in Nat
  BY <1>2, <1>3, ReadinessTyped DEF RetryAfter, BlockedUntil, RateTypeOK, Times
<1>6. reply' \in Replies /\ (reply'.ok => granted')
  <2>1. CASE error = "none"
    BY <2>1, <1>4, RepliesTyped
  <2>2. CASE error # "none"
    <3>1. PICK n \in Nat : reply' = [Error(error) EXCEPT !.retry = n]
      BY <2>2, <1>4, <1>5
    <3>2. QED
      BY <2>2, <3>1, <1>3, RepliesTyped
  <2>3. QED
    BY <2>1, <2>2
<1>7. RateTypeOK'
  BY <1>1, <1>4, <1>6 DEF RateTypeOK
<1>8. ServiceInv'
  BY <1>1, <1>2, <1>3, <1>4, ReadinessTyped
     DEF ServiceInv, BlockedUntil, RateTypeOK, Times
<1>9. ConfirmedInTime'
  BY <1>1, <1>4 DEF ConfirmedInTime
<1>10. DeliveryInv'
  BY <1>1, <1>4, <1>6 DEF DeliveryInv, Called
<1>11. QED
  BY <1>7, <1>8, <1>9, <1>10

LEMMA CallApiKeeps ==
  ASSUME RateInv, Kept, NEW endpoint, NEW p, CallApi(endpoint, p)
  PROVE  RateInv'
<1>1. kind # "access" /\ UNCHANGED output /\ Act("call_api", endpoint)
  BY DEF CallApi
<1>2. ASSUME NEW error \in Errors, Refuse(error) PROVE RateInv'
  <2>1. reply' \in Replies /\ ~reply'.ok /\ UNCHANGED service
    BY <1>2, RepliesTyped DEF Refuse
  <2>2. QED
    BY <1>1, <2>1, AnswerKeeps
<1>3. CASE p.form = "malformed" /\ Refuse("bad_request")
  BY <1>2, <1>3 DEF Errors
<1>4. CASE endpoint = "/token" /\ Token(p)
  BY <1>1, <1>4, TokenKeeps
<1>5. CASE endpoint = "/handshake" /\ Handshake
  BY <1>1, <1>5, HandshakeKeeps
<1>6. CASE endpoint = "/handshake_commit" /\ Commit(p)
  BY <1>1, <1>6, CommitKeeps
<1>7. CASE Refuse("not_found")
  BY <1>2, <1>7 DEF Errors
<1>8. QED
  BY <1>3, <1>4, <1>5, <1>6, <1>7 DEF CallApi

LEMMA CallApiRaisesKeeps ==
  ASSUME RateInv, Kept, NEW p, CallApiRaises(p)
  PROVE  RateInv'
BY DEF RateInv, Kept, CallApiRaises, RateTypeOK, ServiceInv, DeliveryInv,
   ConfirmedInTime, Called, service

LEMMA WaitKeeps ==
  ASSUME RateInv, Kept, NEW steps \in Nat, Wait(steps)
  PROVE  RateInv'
<1> USE DEF RateInv, Kept
<1>1. /\ kind' = kind /\ spent' \in 0 .. ToolCalls
      /\ last' = [type |-> "wait", endpoint |-> "none"]
      /\ over' \in {"no", "success", "failed"}
      /\ over' = "success" => Valid'
  BY ActKeeps DEF Wait
<1>2. /\ now + steps <= MaxNow /\ now' = now + steps
      /\ UNCHANGED <<id, confirmed, transient, granted, ticket, committed, output>>
  BY DEF Wait
<1>3. reply' \in Replies
  BY RepliesTyped DEF Wait, Errors
<1>4. now' \in Times /\ now' >= now
  BY <1>2, RateAssumption DEF RateTypeOK, Times
<1>5. RateTypeOK'
  BY <1>1, <1>2, <1>3, <1>4 DEF RateTypeOK
<1>6. ServiceInv' /\ ConfirmedInTime'
  <2>1. kind \in Kinds /\ now \in Times /\ id \in Ids
    BY DEF RateTypeOK
  <2>2. QED
    BY <1>1, <1>2, <1>4, <2>1, RateAssumption
       DEF ServiceInv, ConfirmedInTime, BlockedUntil, Kinds, Times, Ids
<1>7. DeliveryInv'
  BY <1>1, <1>2 DEF DeliveryInv, Called
<1>8. QED
  BY <1>5, <1>6, <1>7

LEMMA SetOutputKeeps ==
  ASSUME RateInv, Kept, NEW value \in {"token", "other"},
         value = "token" => granted, SetOutput(value)
  PROVE  RateInv'
<1> USE DEF RateInv, Kept
<1>1. /\ kind' = kind /\ spent' \in 0 .. ToolCalls
      /\ last' = [type |-> "set_output", endpoint |-> "none"]
      /\ over' \in {"no", "success", "failed"}
      /\ over' = "success" => Valid'
  BY ActKeeps DEF SetOutput
<1>2. reply' \in Replies /\ output' = value /\ UNCHANGED service
  BY RepliesTyped DEF SetOutput
<1>3. RateTypeOK'
  BY <1>1, <1>2 DEF RateTypeOK, service
<1>4. ServiceInv' /\ ConfirmedInTime'
  BY <1>1, <1>2 DEF ServiceInv, ConfirmedInTime, service
<1>5. DeliveryInv'
  BY <1>1, <1>2 DEF DeliveryInv, Called, service
<1>6. QED
  BY <1>3, <1>4, <1>5

LEMMA ReadKeeps ==
  ASSUME RateInv, Kept, NEW type, type # "call_api", Read(type)
  PROVE  RateInv'
BY AnswerKeeps, RepliesTyped DEF Read

LEMMA SetOtherOutputKeeps ==
  ASSUME RateInv, Kept, SetOtherOutput
  PROVE  RateInv'
BY AnswerKeeps, RepliesTyped DEF SetOtherOutput, Refuse, Errors

\* The three actions of the access review.
LEMMA AccessKeeps ==
  ASSUME RateInv, Kept,
         \/ \E b \in BOOLEAN : SubmitTicket(b) \/ ConfirmApproval(b)
         \/ ReviewStatus
  PROVE  RateInv'
<1> USE DEF RateInv, Kept
<1>1. PICK type \in {"submit_ticket", "review_status", "confirm_approval"} :
        Act(type, "none")
  BY DEF SubmitTicket, ReviewStatus, ConfirmApproval
<1>2. /\ kind' = kind /\ spent' \in 0 .. ToolCalls
      /\ last' = [type |-> type, endpoint |-> "none"]
      /\ over' \in {"no", "success", "failed"}
      /\ over' = "success" => Valid'
  BY <1>1, ActKeeps
<1>3. /\ kind = "access" /\ UNCHANGED <<now, id, committed, output>>
      /\ ticket => ticket'
      /\ ticket' \in BOOLEAN /\ confirmed' \in BOOLEAN
  BY DEF SubmitTicket, ReviewStatus, ConfirmApproval, RateTypeOK
<1>4. /\ reply' \in Replies
      /\ transient' \in BOOLEAN /\ granted' \in BOOLEAN
      /\ granted => granted' /\ ~transient'
      /\ granted' /\ ~granted => ticket /\ ~transient /\ ~transient' /\ Readiness = "none"
  <2>1. CASE \E b \in BOOLEAN : SubmitTicket(b) \/ ConfirmApproval(b)
    <3>1. PICK b \in BOOLEAN : SubmitTicket(b) \/ ConfirmApproval(b)
      BY <2>1
    <3>2. reply' \in Replies /\ transient' = transient /\ granted' = granted
      BY <3>1, RepliesTyped DEF SubmitTicket, ConfirmApproval, Errors
    <3>3. QED
      BY <3>2 DEF RateTypeOK, ServiceInv
  <2>2. CASE ReviewStatus
    <3>1. PICK error \in Errors \cup {"none"} :
            /\ error = "none" => ticket /\ Readiness = "none"
            /\ transient' = (transient /\ error # "temporary_failure")
            /\ granted' = (granted \/ error = "none")
            /\ reply' = IF error = "none" THEN Ok ELSE Error(error)
      BY <2>2, ReadinessTyped DEF ReviewStatus, Errors
    <3>2. reply' \in Replies
      BY <3>1, RepliesTyped
    <3>3. QED
      BY <3>1, <3>2, ReadinessTyped DEF RateTypeOK, ServiceInv
  <2>3. QED
    BY <2>1, <2>2
<1>5. RateTypeOK'
  BY <1>2, <1>3, <1>4 DEF RateTypeOK
<1>6. ServiceInv'
  <2>1. granted' /\ ~granted => now >= BlockedUntil[kind]
    BY <1>3, <1>4, ReadinessTyped DEF BlockedUntil, RateTypeOK, Times
  <2>2. QED
    BY <1>2, <1>3, <1>4, <2>1 DEF ServiceInv
<1>7. ConfirmedInTime'
  BY <1>2, <1>3 DEF ConfirmedInTime, ServiceInv
<1>8. DeliveryInv'
  BY <1>2, <1>3, <1>4 DEF DeliveryInv, Called
<1>9. QED
  BY <1>5, <1>6, <1>7, <1>8

-----------------------------------------------------------------------------
LEMMA ReferenceStepKeeps ==
  ASSUME RateInv, ReferenceStep
  PROVE  RateInv'
<1> USE DEF RateInv
<1> DEFINE move == Move(memory)
<1>1. memory \in Memories /\ reply \in Replies
  BY DEF RateTypeOK
<1>2. player \in {"limit", "chain", "planner", "autogen"}
  BY DEF ReferenceStep, RateTypeOK, Kinds, Players
<1>3. /\ move.memory \in Memories
      /\ move.memory.token => memory.token \/ Granting
      /\ Sound(move.action, move.memory)
  <2>1. CASE player = "limit"
    <3>1. move = Say(LimitActs(memory, LimitLearns(memory)), LimitLearns(memory))
      BY <2>1 DEF Move
    <3>2. QED
      BY <1>1, <3>1, LimitActsSound, LimitLearnsTyped DEF Say
  <2>2. CASE player = "chain"
    <3>1. move = Say(ChainActs(memory, ChainLearns(memory)), ChainLearns(memory))
      BY <2>2 DEF Move
    <3>2. QED
      BY <1>1, <3>1, ChainActsSound, ChainLearnsTyped DEF Say
  <2>3. CASE player = "planner"
    <3>1. move = PlannerMoves(PlannerLearns(memory))
      BY <2>3 DEF Move
    <3>2. QED
      BY <1>1, <3>1, PlannerMovesSound
  <2>4. CASE player = "autogen"
    <3>1. move = Say(AutogenActs(AutogenLearns(memory)), AutogenLearns(memory))
      BY <2>4 DEF Move
    <3>2. QED
      BY <1>1, <3>1, AutogenActsSound, AutogenLearnsTyped DEF Say
  <2>5. QED
    BY <1>2, <2>1, <2>2, <2>3, <2>4
<1>4. memory' = move.memory /\ Perform(move.action) /\ player' = player
  BY DEF ReferenceStep
<1> HIDE DEF move
<1>5. Granting \/ memory.token => granted
  BY DEF DeliveryInv, Granting
<1>6. Kept
  BY <1>3, <1>4, <1>5 DEF Kept
<1>7. CASE move.action.type = "call_api"
  BY <1>4, <1>6, <1>7, CallApiKeeps DEF Perform
<1>8. CASE move.action.type = "wait"
  BY <1>3, <1>4, <1>6, <1>8, WaitKeeps DEF Perform, Sound
<1>9. CASE move.action.type = "set_output"
  <2>1. granted /\ SetOutput("token")
    BY <1>3, <1>4, <1>5, <1>9 DEF Perform, Sound
  <2>2. QED
    BY <1>6, <2>1, SetOutputKeeps
<1>10. CASE move.action.type \notin {"call_api", "wait", "set_output"}
  <2>1. Read(move.action.type)
    BY <1>4, <1>10 DEF Perform
  <2>2. QED
    BY <1>6, <1>10, <2>1, ReadKeeps
<1>11. QED
  BY <1>7, <1>8, <1>9, <1>10

LEMMA AnyStepKeeps ==
  ASSUME RateInv, AnyStep
  PROVE  RateInv'
<1>1. Kept
  BY DEF AnyStep, Kept, RateInv, RateTypeOK, DeliveryInv
<1>2. ASSUME NEW endpoint, NEW p, CallApi(endpoint, p) PROVE RateInv'
  BY <1>1, <1>2, CallApiKeeps
<1>3. ASSUME NEW p, CallApiRaises(p) PROVE RateInv'
  BY <1>1, <1>3, CallApiRaisesKeeps
<1>4. CASE \/ \E b \in BOOLEAN : SubmitTicket(b) \/ ConfirmApproval(b)
           \/ ReviewStatus
  BY <1>1, <1>4, AccessKeeps
<1>5. ASSUME NEW steps \in 0 .. 3, Wait(steps) PROVE RateInv'
  BY <1>1, <1>5, WaitKeeps
<1>6. ASSUME NEW value \in {"token", "other"}, value = "token" => granted,
             SetOutput(value)
      PROVE  RateInv'
  BY <1>1, <1>6, SetOutputKeeps
<1>7. CASE SetOtherOutput
  BY <1>1, <1>7, SetOtherOutputKeeps
<1>8. CASE Read("inspect_status")
  BY <1>1, <1>8, ReadKeeps
<1>9. QED
  BY <1>2, <1>3, <1>4, <1>5, <1>6, <1>7, <1>8 DEF AnyStep

LEMMA RateCorrect == AgentsSpec => []RateInv
<1>1. ASSUME RateInv, [AgentsNext]_agentVars PROVE RateInv'
  <2>1. CASE UNCHANGED agentVars
    BY <1>1, <2>1 DEF agentVars, rateVars, RateInv, RateTypeOK, ServiceInv,
       DeliveryInv, ConfirmedInTime, Called, Valid
  <2>2. QED
    BY <1>1, <2>1, ReferenceStepKeeps, AnyStepKeeps DEF AgentsNext
<1>2. QED
  BY <1>1, InitRate, PTL DEF AgentsSpec

\* Types: the clock stays within its bound, ids are times of it, and the agents'
\* notes are what their attributes may hold.
THEOREM RateTypeCorrect == AgentsSpec => []RateTypeOK
BY RateCorrect, PTL DEF RateInv

\* Success is earned: whatever the agent does, for every budget.
THEOREM SuccessIsEarnedCorrect == AgentsSpec => []SuccessIsEarned
<1>1. RateInv => SuccessIsEarned
  BY DEF RateInv, ServiceInv, DeliveryInv, SuccessIsEarned, Valid
<1>2. QED
  BY <1>1, RateCorrect, PTL

\* A confirmed handshake was confirmed in its window.
THEOREM ConfirmedInTimeCorrect == AgentsSpec => []ConfirmedInTime
BY RateCorrect, PTL DEF RateInv
=============================================================================
