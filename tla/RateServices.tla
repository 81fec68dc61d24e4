---------------------------- MODULE RateServices ----------------------------
(***************************************************************************)
(* The services of tasks/: rate_limited_api ("api"), rate_limited_chain    *)
(* ("chain"), deterministic_rate_service ("drs") and saas_access_review    *)
(* ("access"), with the actions through which an episode's agent reaches   *)
(* them and the validator that the runner asks after every action.         *)
(*                                                                         *)
(* A handshake id is "hs-<now>", so an id is the clock at its request, and *)
(* the phrase that answers it, a template filled with the id, is the id    *)
(* again.  handshake_expires_at is set with the id and is id + Window.     *)
(* Counters and the history, which only reports show, are left out.        *)
(***************************************************************************)
EXTENDS Naturals

CONSTANTS ToolCalls,  \* the episode's budget of tool calls
          MaxNow,     \* bound: no agent waits beyond it
          NoId        \* a missing id or phrase: None, or no such key

ASSUME RateAssumption == /\ ToolCalls \in Nat /\ MaxNow \in Nat
                         /\ NoId \notin Nat

VARIABLES kind,       \* which service the episode's task has set up
          now,        \* its virtual clock
          id,         \* its handshake_id
          confirmed,  \* its handshake_confirmed (approval_confirmed)
          transient,  \* its transient failure is still to come
          granted,    \* it has given the token (the approval code) away
          ticket,     \* access review: ticket_opened
          committed,  \* history: the clock at the last confirmation
          output,     \* the agent's output under ACCESS_TOKEN
          over,       \* how the episode has ended
          spent,      \* tool calls
          last,       \* the last action, as observed
          reply       \* its result, as observed

service == <<now, id, confirmed, transient, granted, ticket, committed>>
rateVars == <<kind, now, id, confirmed, transient, granted, ticket, committed,
              output, over, spent, last, reply>>

Kinds == {"api", "chain", "drs", "access"}
BlockedUntil == [api |-> 2, chain |-> 3, drs |-> 2, access |-> 2]
Window == 4

\* Payloads by what the services look at: the required fields, the id and the
\* response.  An object that lacks them all is not empty.
Object(required, i, response) ==
  [form |-> "object", required |-> required, id |-> i, response |-> response]
NoObject(form) ==
  [form |-> form, required |-> FALSE, id |-> NoId, response |-> NoId]

Errors == {"bad_request", "not_found", "invalid_handshake",
           "handshake_expired", "wrong_phrase", "handshake_required",
           "rate_limited", "temporary_failure", "invalid_args",
           "invalid_output_key", "ticket_required", "review_pending",
           "wrong_code"}
Ok == [ok |-> TRUE, error |-> "none", retry |-> 0, id |-> NoId]
Error(error) == [Ok EXCEPT !.ok = FALSE, !.error = error]

RateInit ==
  /\ kind \in Kinds
  /\ now = 0 /\ id = NoId /\ confirmed = FALSE /\ transient = TRUE
  /\ granted = FALSE /\ ticket = FALSE /\ committed = NoId
  /\ output = "none" /\ over = "no" /\ spent = 0
  /\ last = [type |-> "none", endpoint |-> "none"] /\ reply = Error("none")

\* validate, after the action.
Valid ==
  /\ output = "token"
  /\ IF kind = "api" THEN granted ELSE confirmed

\* What the runner does around an action that returns.
Act(type, endpoint) ==
  /\ over = "no" /\ spent < ToolCalls
  /\ spent' = spent + 1
  /\ UNCHANGED kind
  /\ last' = [type |-> type, endpoint |-> endpoint]
  /\ over' = IF Valid' THEN "success"
             ELSE IF spent' = ToolCalls THEN "failed" ELSE "no"

-----------------------------------------------------------------------------
\* Mutant: a new handshake keeps the confirmation of the old one.
HandshakeKept ==
  /\ id' = now
  /\ reply' = [Ok EXCEPT !.id = now]
  /\ UNCHANGED <<now, confirmed, transient, granted, ticket, committed>>

\* call("/handshake").
Handshake ==
  /\ id' = now
  /\ confirmed' = FALSE
  /\ reply' = [Ok EXCEPT !.id = now]
  /\ UNCHANGED <<now, transient, granted, ticket, committed>>

\* call("/handshake_commit") of MockChainAPI, check by check.
ChainCommitError(p) ==
  IF p.form # "object" \/ p.id # id THEN "invalid_handshake"
  ELSE IF id # NoId /\ now > id + Window THEN "handshake_expired"
  ELSE IF p.response # id THEN "wrong_phrase"
  ELSE "none"

\* call("/handshake_commit") of MockDeterministicService.
DrsCommitError(p) ==
  IF p.form # "object" \/ p.id # id THEN "invalid_handshake"
  ELSE IF p.response # id THEN "wrong_phrase"
  ELSE "none"

Commit(p) ==
  LET error == IF kind = "chain" THEN ChainCommitError(p)
                                 ELSE DrsCommitError(p)
  IN /\ confirmed' = (confirmed \/ error = "none")
     /\ committed' = IF error = "none" THEN now ELSE committed
     /\ reply' = IF error = "none" THEN Ok ELSE Error(error)
     /\ UNCHANGED <<now, id, transient, granted, ticket>>

\* The deterministic service fills its phrase with None: TypeError.
CommitRaises(p) == kind = "drs" /\ p.form = "object" /\ p.id = id /\ id = NoId

\* Mutant: the rate limit ends a step early.
ReadinessEarly ==
  IF now + 1 < BlockedUntil[kind] THEN "rate_limited"
  ELSE IF transient THEN "temporary_failure"
  ELSE "none"

\* The end of call("/token"), which the services have in common.
Readiness ==
  IF now < BlockedUntil[kind] THEN "rate_limited"
  ELSE IF transient THEN "temporary_failure"
  ELSE "none"

ApiTokenError(p) == IF ~p.required THEN "bad_request" ELSE Readiness

ChainTokenError(p) ==
  IF ~confirmed THEN "handshake_required"
  ELSE IF ~p.required THEN "bad_request"
  ELSE IF p.id # id THEN "invalid_handshake"
  ELSE Readiness

DrsTokenError(p) ==
  IF ~confirmed THEN "handshake_required"
  ELSE IF ~p.required \/ p.id # id THEN "bad_request"
  ELSE Readiness

\* retry_after.
RetryAfter == BlockedUntil[kind] - now

\* call("/token").
Token(p) ==
  LET error == CASE kind = "api" -> ApiTokenError(p)
                 [] kind = "chain" -> ChainTokenError(p)
                 [] kind = "drs" -> DrsTokenError(p)
  IN /\ transient' = (transient /\ error # "temporary_failure")
     /\ granted' = (granted \/ error = "none")
     /\ reply' = IF error = "none" THEN Ok
                 ELSE [Error(error) EXCEPT
                         !.retry = IF error = "rate_limited" THEN RetryAfter
                                                             ELSE 0]
     /\ UNCHANGED <<now, id, confirmed, ticket, committed>>

Refuse(error) == reply' = Error(error) /\ UNCHANGED service

\* actions.call_api: a payload that is no JSON object stops here.
CallApi(endpoint, p) ==
  /\ kind # "access"
  /\ ~(endpoint = "/handshake_commit" /\ CommitRaises(p))
  /\ \/ p.form = "malformed" /\ Refuse("bad_request")
     \/ p.form # "malformed" /\ endpoint = "/token" /\ Token(p)
     \/ /\ p.form # "malformed" /\ kind # "api"
        /\ endpoint = "/handshake" /\ Handshake
     \/ /\ p.form # "malformed" /\ kind # "api"
        /\ endpoint = "/handshake_commit" /\ Commit(p)
     \/ /\ p.form # "malformed" /\ Refuse("not_found")
        /\ \/ endpoint = "/other"
           \/ kind = "api" /\ endpoint \in {"/handshake", "/handshake_commit"}
  /\ UNCHANGED output
  /\ Act("call_api", endpoint)

\* The action raises: the runner ends the episode.
CallApiRaises(p) ==
  /\ over = "no" /\ spent < ToolCalls
  /\ CommitRaises(p)
  /\ over' = "failed"
  /\ UNCHANGED <<kind, service, output, spent, last, reply>>

Wait(steps) ==
  /\ now + steps <= MaxNow
  /\ now' = now + steps
  /\ reply' = IF steps > 0 THEN Ok ELSE Error("invalid_args")
  /\ UNCHANGED <<id, confirmed, transient, granted, ticket, committed, output>>
  /\ Act("wait", "none")

SetOutput(value) ==
  /\ output' = value
  /\ reply' = Ok
  /\ UNCHANGED service
  /\ Act("set_output", "none")

SetOtherOutput ==
  /\ Refuse("invalid_output_key")
  /\ UNCHANGED output
  /\ Act("set_output", "none")

-----------------------------------------------------------------------------
\* submit_ticket: whether the ticket fits the request and has the hint.
SubmitTicket(fits) ==
  /\ kind = "access"
  /\ ticket' = (ticket \/ fits)
  /\ reply' = IF fits THEN Ok ELSE Error("bad_request")
  /\ UNCHANGED <<now, id, confirmed, transient, granted, committed, output>>
  /\ Act("submit_ticket", "none")

\* review_status: the rate limit is the time the review takes.
ReviewStatus ==
  LET error == IF ~ticket THEN "ticket_required"
               ELSE IF Readiness = "rate_limited" THEN "review_pending"
               ELSE Readiness
  IN /\ kind = "access"
     /\ transient' = (transient /\ error # "temporary_failure")
     /\ granted' = (granted \/ error = "none")
     /\ reply' = IF error = "none" THEN Ok ELSE Error(error)
     /\ UNCHANGED <<now, id, confirmed, ticket, committed, output>>
     /\ Act("review_status", "none")

\* confirm_approval, with the code or another one.
ConfirmApproval(right) ==
  /\ kind = "access"
  /\ confirmed' = (confirmed \/ right)
  /\ reply' = IF right THEN Ok ELSE Error("wrong_code")
  /\ UNCHANGED <<now, id, transient, granted, ticket, committed, output>>
  /\ Act("confirm_approval", "none")

\* The actions that only tell: each has its answer in the hidden state.
Read(type) ==
  /\ reply' = Ok
  /\ UNCHANGED <<service, output>>
  /\ Act(type, "none")
=============================================================================
