----------------------------- MODULE RateAgents -----------------------------
(***************************************************************************)
(* Episodes of the tasks of RateServices under an agent that takes any     *)
(* action ("any") or under an agent of agents/: RateLimitAgent ("limit")   *)
(* and AutoGenTeamAgent ("autogen") for rate_limited_api, ChainAgent       *)
(* ("chain") and StructuredPlannerAgent ("planner") for the two services   *)
(* with a handshake.                                                       *)
(*                                                                         *)
(* act of an agent is written as what it learns from the last action and   *)
(* its result, and what it then does.                                      *)
(***************************************************************************)
EXTENDS RateServices, Sequences

VARIABLES player,   \* who plays the agent
          memory    \* the agent's attributes

agentVars == <<rateVars, player, memory>>

Blank == [payload |-> FALSE, template |-> FALSE, id |-> NoId,
          confirmed |-> FALSE, wait |-> 0, token |-> FALSE, done |-> FALSE,
          plan |-> <<>>]

-----------------------------------------------------------------------------
\* Actions as the reference agents return them.
ReadPayload == [type |-> "get_required_payload"]
ReadTemplate == [type |-> "get_handshake_template"]
ReadConfig == [type |-> "get_client_config"]
Call(endpoint, payload) ==
  [type |-> "call_api", endpoint |-> endpoint, payload |-> payload]
WaitFor(steps) == [type |-> "wait", steps |-> steps]
Deliver == [type |-> "set_output"]
AskHandshake == Call("/handshake", NoObject("missing"))

Answers(type) == last.type = type /\ reply.ok
Called(endpoint) == last.type = "call_api" /\ last.endpoint = endpoint
Restarts == Called("/token") /\ reply.error \in
              {"handshake_required", "invalid_handshake", "handshake_expired"}
Refused(error) == Called("/token") /\ reply.error = error
Waited(m) == last.type = "wait" /\ m.wait > 0

\* ChainAgent.act: what the last result changes.
ChainLearns(m) ==
  CASE Answers("get_required_payload") -> [m EXCEPT !.payload = TRUE]
    [] Answers("get_handshake_template") -> [m EXCEPT !.template = TRUE]
    [] Called("/handshake") ->
         [m EXCEPT !.id = reply.id, !.confirmed = FALSE]
    [] Called("/handshake_commit") ->
         [m EXCEPT !.confirmed = reply.ok, !.id = IF reply.ok THEN @ ELSE NoId]
    [] Called("/token") /\ reply.ok -> [m EXCEPT !.token = TRUE]
    [] Refused("rate_limited") -> [m EXCEPT !.wait = reply.retry]
    [] Restarts -> [m EXCEPT !.id = NoId, !.confirmed = FALSE]
    [] Refused("bad_request") ->
         [m EXCEPT !.id = NoId, !.confirmed = FALSE, !.payload = FALSE]
    [] Waited(m) -> [m EXCEPT !.wait = 0]
    [] Answers("set_output") -> [m EXCEPT !.done = TRUE]
    [] OTHER -> m

CallToken(m) ==
  IF ~m.payload THEN ReadPayload ELSE Call("/token", Object(TRUE, m.id, NoId))

\* The end of ChainAgent.act: what is still missing, in this order.
ChainContinues(m) ==
  IF ~m.payload THEN ReadPayload
  ELSE IF ~m.template THEN ReadTemplate
  ELSE IF m.id = NoId THEN AskHandshake
  ELSE IF ~m.confirmed
    THEN Call("/handshake_commit", Object(FALSE, m.id, m.id))
  ELSE IF m.wait > 0 THEN WaitFor(m.wait)
  ELSE IF m.token /\ ~m.done THEN Deliver
  ELSE CallToken(m)

\* Mutant: a rate-limited call is repeated without waiting.
ChainActsHasty(before, m) ==
  CASE Answers("get_handshake_template") /\ m.id = NoId -> AskHandshake
    [] Called("/token") /\ reply.ok -> Deliver
    [] Called("/token") /\ ~reply.ok -> CallToken(m)
    [] OTHER -> ChainContinues(m)

ChainActs(before, m) ==
  CASE Answers("get_handshake_template") /\ m.id = NoId -> AskHandshake
    [] Called("/token") /\ reply.ok -> Deliver
    [] Refused("rate_limited") -> WaitFor(m.wait)
    [] Refused("temporary_failure") -> CallToken(m)
    [] Restarts -> AskHandshake
    [] Refused("bad_request") -> ReadPayload
    [] Waited(before) -> CallToken(m)
    [] Answers("set_output") -> WaitFor(1)
    [] OTHER -> ChainContinues(m)

\* RateLimitAgent.act.
LimitLearns(m) ==
  CASE Answers("get_client_config") -> [m EXCEPT !.payload = TRUE]
    [] Called("/token") /\ reply.ok -> [m EXCEPT !.token = TRUE]
    [] Refused("rate_limited") -> [m EXCEPT !.wait = reply.retry]
    [] Refused("bad_request") -> [m EXCEPT !.payload = FALSE]
    [] Waited(m) -> [m EXCEPT !.wait = 0]
    [] Answers("set_output") -> [m EXCEPT !.done = TRUE]
    [] OTHER -> m

CallApiToken(m) ==
  IF ~m.payload THEN ReadConfig ELSE Call("/token", Object(TRUE, NoId, NoId))

LimitActs(before, m) ==
  CASE Called("/token") /\ reply.ok -> Deliver
    [] Refused("rate_limited") -> WaitFor(m.wait)
    [] Refused("bad_request") -> ReadConfig
    [] Answers("set_output") -> WaitFor(1)
    [] OTHER -> IF m.payload /\ m.token /\ ~m.done /\ ~Waited(before)
                  THEN Deliver ELSE CallApiToken(m)

\* StructuredPlannerAgent: what it says, and what it keeps in mind.
Say(action, m) == [action |-> action, memory |-> m]
HandshakePlan == <<ReadTemplate, AskHandshake>>
NextOfPlan(m) == Say(Head(m.plan), [m EXCEPT !.plan = Tail(@)])
PlannerToken(m) == Call("/token", Object(m.payload, m.id, NoId))
Phrase(m) == IF m.template THEN m.id ELSE NoId
StartsOver == Called("/token") /\ reply.error \in
                {"bad_request", "invalid_handshake", "handshake_expired"}

PlannerLearns(m) ==
  CASE Answers("get_required_payload") -> [m EXCEPT !.payload = TRUE]
    [] Answers("get_handshake_template") -> [m EXCEPT !.template = TRUE]
    [] Called("/handshake") -> [m EXCEPT !.id = reply.id]
    [] Called("/handshake_commit") /\ ~reply.ok -> [m EXCEPT !.id = NoId]
    [] Called("/token") /\ reply.ok -> [m EXCEPT !.token = TRUE]
    [] Refused("rate_limited") -> [m EXCEPT !.wait = reply.retry]
    [] StartsOver ->
         [m EXCEPT !.payload = FALSE, !.id = NoId, !.plan = HandshakePlan]
    [] Answers("set_output") -> [m EXCEPT !.done = TRUE]
    [] Waited(m) -> [m EXCEPT !.wait = 0]
    [] OTHER -> m

\* The end of StructuredPlannerAgent.act.
PlannerContinues(m) ==
  IF m.wait > 0 THEN Say(WaitFor(m.wait), m)
  ELSE IF m.token /\ ~m.done THEN Say(Deliver, m)
  ELSE IF m.plan # <<>> THEN NextOfPlan(m)
  ELSE IF ~m.payload THEN Say(ReadPayload, m)
  ELSE IF m.id = NoId THEN NextOfPlan([m EXCEPT !.plan = HandshakePlan])
  ELSE Say(PlannerToken(m), m)

PlannerMoves(m) ==
  CASE Called("/handshake") /\ reply.ok ->
         Say(Call("/handshake_commit", Object(FALSE, m.id, Phrase(m))), m)
    [] Called("/token") /\ reply.ok -> Say(Deliver, m)
    [] Refused("temporary_failure") -> Say(PlannerToken(m), m)
    [] StartsOver -> NextOfPlan(m)
    [] Answers("set_output") -> Say(WaitFor(1), m)
    [] OTHER -> PlannerContinues(m)

\* AutoGenTeamAgent: the rules before its team.  In rate_limited_api they
\* always find an action, so that the team is never asked; the only action
\* it repeats, after an error or a wait, is the call.
AutogenLearns(m) ==
  CASE Answers("get_client_config") -> [m EXCEPT !.payload = TRUE]
    [] Answers("set_output") -> [m EXCEPT !.done = TRUE]
    [] Refused("rate_limited") -> [m EXCEPT !.wait = reply.retry]
    [] Refused("bad_request") -> [m EXCEPT !.payload = FALSE]
    [] Waited(m) -> [m EXCEPT !.wait = 0]
    [] OTHER -> m

AutogenActs(m) ==
  CASE Answers("set_output") -> WaitFor(1)
    [] Refused("rate_limited") -> WaitFor(m.wait)
    [] Refused("bad_request") -> ReadConfig
    [] Called("/token") /\ reply.ok -> Deliver
    [] OTHER -> CallApiToken(m)

-----------------------------------------------------------------------------
\* The agents for each task.
Players(k) == CASE k = "api" -> {"any", "limit", "autogen"}
                [] k \in {"chain", "drs"} -> {"any", "chain", "planner"}
                [] k = "access" -> {"any"}

Perform(action) ==
  CASE action.type = "call_api" -> CallApi(action.endpoint, action.payload)
    [] action.type = "wait" -> Wait(action.steps)
    [] action.type = "set_output" -> SetOutput("token")
    [] OTHER -> Read(action.type)

Move(m) ==
  CASE player = "limit" -> Say(LimitActs(m, LimitLearns(m)), LimitLearns(m))
    [] player = "chain" -> Say(ChainActs(m, ChainLearns(m)), ChainLearns(m))
    [] player = "planner" -> PlannerMoves(PlannerLearns(m))
    [] player = "autogen" -> Say(AutogenActs(AutogenLearns(m)), AutogenLearns(m))

ReferenceStep ==
  /\ player # "any"
  /\ memory' = Move(memory).memory
  /\ Perform(Move(memory).action)
  /\ UNCHANGED player

\* An agent sends ids that the service has now or had first, or none, and
\* delivers the token only once it has seen it.
KnownIds == {NoId, 0, id}
Payloads == {NoObject("missing"), NoObject("malformed"), NoObject("empty")}
              \cup {Object(r, i, p) : r \in BOOLEAN, i \in KnownIds,
                                      p \in KnownIds}

AnyStep ==
  /\ player = "any"
  /\ \/ \E endpoint \in {"/handshake", "/handshake_commit", "/token",
                         "/other"}, p \in Payloads :
          CallApi(endpoint, p)
     \/ \E p \in Payloads : CallApiRaises(p)
     \/ \E fits \in BOOLEAN : SubmitTicket(fits)
     \/ ReviewStatus
     \/ \E right \in BOOLEAN : (right => granted) /\ ConfirmApproval(right)
     \/ \E steps \in 0 .. 3 : Wait(steps)
     \/ \E value \in {"token", "other"} :
          (value = "token" => granted) /\ SetOutput(value)
     \/ SetOtherOutput
     \/ Read("inspect_status")
  /\ UNCHANGED <<player, memory>>

AgentsInit == RateInit /\ player \in Players(kind) /\ memory = Blank
AgentsNext == ReferenceStep \/ AnyStep
AgentsSpec ==
  AgentsInit /\ [][AgentsNext]_agentVars /\ WF_agentVars(ReferenceStep)

-----------------------------------------------------------------------------
Times == 0 .. MaxNow
Ids == Times \cup {NoId}
Plans == {<<>>, <<AskHandshake>>, HandshakePlan}
Memories == [payload : BOOLEAN, template : BOOLEAN, id : Ids,
             confirmed : BOOLEAN, wait : Nat, token : BOOLEAN,
             done : BOOLEAN, plan : Plans]
Replies == {r \in [ok : BOOLEAN, error : Errors \cup {"none"}, retry : Nat, id : Ids] :
              r.ok => r.error = "none"}

\* The state keeps its types: the clock, the ids, the agent's notes.
RateTypeOK ==
  /\ kind \in Kinds /\ player \in Players(kind) /\ ticket \in BOOLEAN
  /\ now \in Times /\ id \in Ids /\ committed \in Ids
  /\ confirmed \in BOOLEAN /\ transient \in BOOLEAN /\ granted \in BOOLEAN
  /\ output \in {"none", "token", "other"}
  /\ over \in {"no", "success", "failed"}
  /\ spent \in 0 .. ToolCalls
  /\ reply \in Replies /\ memory \in Memories

\* Whatever the agent, an episode that succeeds has waited out the rate limit
\* (the review), come back after the hiccup and, in the access review, opened
\* the ticket before and confirmed after: no order of calls avoids it
\* (service.py, validate.py of the four tasks).
SuccessIsEarned ==
  granted \/ over = "success" =>
    /\ now >= BlockedUntil[kind] /\ ~transient /\ granted
    /\ kind = "access" => ticket /\ (over = "success" => confirmed)

\* A handshake that is confirmed was confirmed after it was requested and,
\* by the chain service, before it expired: a new request withdraws the
\* confirmation of the one before (rate_limited_chain/service.py:52-73).
ConfirmedInTime ==
  confirmed /\ id # NoId =>
    /\ committed >= id
    /\ kind = "chain" => committed <= id + Window

\* The inductive invariant behind the theorems of RateAgentsProofs: an id is
\* never ahead of the clock, the access review has none, and whatever has led
\* to the token's delivery (the answer, the note of it, the output) came after
\* it was granted.
ServiceInv ==
  /\ id # NoId => id <= now /\ kind # "access"
  /\ granted => now >= BlockedUntil[kind] /\ ~transient
  /\ granted /\ kind = "access" => ticket

DeliveryInv ==
  /\ Called("/token") /\ reply.ok => granted
  /\ memory.token \/ output = "token" => granted
  /\ over = "success" => Valid

RateInv == RateTypeOK /\ ServiceInv /\ DeliveryInv /\ ConfirmedInTime

\* The agents obtain and deliver the token within the tool calls: whatever
\* they are refused, none of them waits, retries or starts over for nothing.
ReferenceSucceeds == player # "any" => <>(over = "success")

\* rate_limited_chain/README.md:16-17 "Skipping the handshake or sending the
\* wrong phrase produces invalid_handshake / handshake_required errors and
\* forces a restart".
NoTokenWithoutHandshake == kind # "api" /\ granted => id # NoId
=============================================================================
