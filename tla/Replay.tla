------------------------------- MODULE Replay -------------------------------
(***************************************************************************)
(* Two runs of an episode and what the checks of                           *)
(* agent_bench/runner/replay.py make of them: check_record on the two, and *)
(* check_replay and check_strict on the bundle of the first (bundle.py)    *)
(* and the second; and what `diff` makes of the two (baseline.py).  The    *)
(* runs are what the runner may produce: their IO is what GuardedEnv has   *)
(* let pass, their answers and ends are arbitrary.                         *)
(* A check is modelled by whether it reports no error.                     *)
(***************************************************************************)
EXTENDS Sandbox, Integers, SequencesExt

CONSTANTS Sandboxes,  \* declarations a task may come with
          Paths,      \* paths its actions may touch
          Requests,   \* hosts its actions may ask for
          Calls,      \* what the agent saw, logged, did, and got for it
          Ends,       \* success, termination_reason and failure_type
          MaxSteps,   \* bound: entries of a trace
          MaxIo,      \* bound: IO of a run
          NoAudit     \* an entry of a harness that kept no audit

VARIABLES first,   \* the run that is recorded
          second,  \* the run that is compared with it
          phase    \* the run in progress, or "checked"

replayVars == <<first, second, phase>>

NoEnd == [success |-> FALSE, termination |-> "none", failure |-> "none"]
NoRun == [sandbox |-> {}, trace |-> <<>>, end |-> NoEnd, close |-> "none",
          audited |-> TRUE]

Fs(path) == [type |-> "fs", on |-> path]
Net(name) == [type |-> "net", on |-> name]

\* What GuardedEnv lets an action do, as it goes into the audit.
Permitted(sandbox) ==
  {Fs(path) : path \in {p \in Paths : FsAllowed(sandbox.roots, p)}}
    \cup {Net(ExtractName(r)) : r \in {q \in Requests :
                                         NetAllowed(sandbox.hosts, q)}}

Audits(run) ==
  IF run.audited THEN SeqOf(Permitted(run.sandbox), MaxIo) ELSE {NoAudit}

IoUsed(run) ==
  IF run.audited
    THEN SumFunction([i \in DOMAIN run.trace |-> Len(run.trace[i].audit)])
    ELSE 0

ReplayInit ==
  /\ \E sandbox \in Sandboxes, audited \in BOOLEAN :
       first = [NoRun EXCEPT !.sandbox = sandbox, !.audited = audited]
  /\ second = NoRun
  /\ phase = "first"

Extended(run, call, audit) ==
  [run EXCEPT !.trace = Append(@, [call |-> call, audit |-> audit])]

Step ==
  \/ /\ phase = "first" /\ Len(first.trace) < MaxSteps
     /\ \E call \in Calls, audit \in Audits(first) :
          first' = Extended(first, call, audit)
     /\ IoUsed(first') <= MaxIo
     /\ UNCHANGED <<second, phase>>
  \/ /\ phase = "second" /\ Len(second.trace) < MaxSteps
     /\ \E call \in Calls, audit \in Audits(second) :
          second' = Extended(second, call, audit)
     /\ IoUsed(second') <= MaxIo
     /\ UNCHANGED <<first, phase>>

\* _io_audit_diff: which IO, not how often or in which order.
IoOf(entry) == IF entry.audit = NoAudit THEN {} ELSE ToSet(entry.audit)

\* How the last step went.  "charged": as a step and as a tool call, whatever
\* ended the run after it; "uncharged": the entry of an action that was refused
\* or failed, which is no tool call, keeps no llm_trace and, refused, did no IO;
\* "unserved": a step that met an empty tool budget and has no entry.  A
\* validator may give any reason, these too.
MayClose(trace, end, close) ==
  \/ close = "charged"
  \/ /\ close = "uncharged" /\ trace # <<>> /\ ~end.success
     /\ Last(trace).call.llm = "none"
     /\ \/ end.termination \in {"sandbox_violation", "action_exception"}
        \/ end.termination = "invalid_action" /\ IoOf(Last(trace)) = {}
  \/ close = "unserved" /\ end.termination = "tool_calls_exhausted"

Closed(run, end, close) == [run EXCEPT !.end = end, !.close = close]
Closes == {"charged", "uncharged", "unserved"}

\* The first run ends and the second, of a task that may have been edited,
\* begins.
Rerun ==
  /\ phase = "first"
  /\ \E end \in Ends, close \in Closes :
       MayClose(first.trace, end, close) /\ first' = Closed(first, end, close)
  /\ \E sandbox \in Sandboxes, audited \in BOOLEAN :
       second' = [NoRun EXCEPT !.sandbox = sandbox, !.audited = audited]
  /\ phase' = "second"

Check ==
  /\ phase = "second"
  /\ \E end \in Ends, close \in Closes :
       MayClose(second.trace, end, close) /\ second' = Closed(second, end, close)
  /\ phase' = "checked"
  /\ UNCHANGED first

ReplayNext == Step \/ Rerun \/ Check
ReplaySpec == ReplayInit /\ [][ReplayNext]_replayVars

-----------------------------------------------------------------------------
\* steps_used and tool_calls_used.
StepsUsed(run) == Len(run.trace) + IF run.close = "unserved" THEN 1 ELSE 0
ToolCallsUsed(run) == Len(run.trace) - IF run.close = "uncharged" THEN 1 ELSE 0

\* write_bundle: an entry without audit is written with an empty one.  That
\* the file leaves out what the agent saw and logged, no check can tell.
Bundle(run) ==
  [sandbox |-> run.sandbox, end |-> run.end,
   steps |-> StepsUsed(run), tools |-> ToolCallsUsed(run),
   trace |-> [i \in DOMAIN run.trace |->
                [run.trace[i] EXCEPT !.audit = IF @ = NoAudit THEN <<>>
                                                              ELSE @]]]

\* _audit_allowed; verify_bundle does the same.
AuditAllowed(audit, sandbox) ==
  \A i \in DOMAIN audit :
    CASE audit[i].type = "fs" -> FsAuditAllowed(sandbox.roots, audit[i].on)
      [] audit[i].type = "net" ->
           NetAllowed(sandbox.hosts, Bare(audit[i].on))

\* _compare_step: the observation is not compared.
SameStep(a, b) ==
  /\ a.call.action = b.call.action /\ a.call.result = b.call.result
  /\ a.audit = b.audit

\* Mutant: what the audits were allowed is not looked at.
TracesAgreeUnguarded(a, b, sandboxA, sandboxB) ==
  /\ Len(a) = Len(b)
  /\ \A i \in DOMAIN a :
       /\ a[i].audit # NoAudit /\ b[i].audit # NoAudit
       /\ SameStep(a[i], b[i])

\* The loop that check_replay and check_record have in common: step count,
\* presence of audits, the step, then what each audit was allowed; that this
\* is looked at only before the first error makes no report the better.
TracesAgree(a, b, sandboxA, sandboxB) ==
  /\ Len(a) = Len(b)
  /\ \A i \in DOMAIN a :
       /\ a[i].audit # NoAudit /\ b[i].audit # NoAudit
       /\ SameStep(a[i], b[i])
       /\ AuditAllowed(a[i].audit, sandboxA)
       /\ AuditAllowed(b[i].audit, sandboxB)

\* check_replay(bundle_dir, fresh_result): of an end, success and reasons.
ReplayOk(bundle, fresh) ==
  /\ bundle.sandbox.declared /\ fresh.sandbox.declared
  /\ bundle.sandbox = fresh.sandbox
  /\ bundle.end = fresh.end
  /\ TracesAgree(bundle.trace, fresh.trace, bundle.sandbox, bundle.sandbox)

\* Mutant: >= for >.
StrictOkBelow(bundle, fresh) ==
  /\ ReplayOk(bundle, fresh)
  /\ StepsUsed(fresh) < bundle.steps /\ ToolCallsUsed(fresh) <= bundle.tools

\* check_strict: the fresh run may use no more than the recorded one.
StrictOk(bundle, fresh) ==
  /\ ReplayOk(bundle, fresh)
  /\ StepsUsed(fresh) <= bundle.steps /\ ToolCallsUsed(fresh) <= bundle.tools

\* check_record(run_a, run_b).
RecordOk(a, b) ==
  /\ a.end = b.end
  /\ a.sandbox.declared /\ b.sandbox.declared /\ a.sandbox = b.sandbox
  /\ TracesAgree(a.trace, b.trace, a.sandbox, b.sandbox)

\* The part of verify_bundle that reads what the files say.
VerifyOk(bundle) ==
  /\ bundle.sandbox.declared
  /\ \A i \in DOMAIN bundle.trace :
       AuditAllowed(bundle.trace[i].audit, bundle.sandbox)

-----------------------------------------------------------------------------
\* Mutant: the IO of a step is not looked at.
StepDiffsOfCalls(a, b) ==
  {i \in DOMAIN a \cup DOMAIN b : i \in DOMAIN a \cap DOMAIN b => a[i].call # b[i].call}

\* diff_runs: the steps that differ, in what the agent saw and logged too, or
\* that only one of the traces has.
StepDiffs(a, b) ==
  {i \in DOMAIN a \cup DOMAIN b :
     i \in DOMAIN a \cap DOMAIN b =>
       IoOf(a[i]) # IoOf(b[i]) \/ a[i].call # b[i].call}

\* _compare_exit_code for runs of one agent and task: 0 is "identical".
Identical(a, b) ==
  /\ StepDiffs(a.trace, b.trace) = {}
  /\ a.end.success = b.end.success
  /\ Len(a.trace) = Len(b.trace) /\ ToolCallsUsed(a) = ToolCallsUsed(b)

-----------------------------------------------------------------------------
\* Declarations, requests, roots, hosts and calls have the fields they are
\* written with; the bounds are numbers; no run ends as one that has not; an
\* address lies below no name, as no "*.name" ends an address.
Ios == {Fs(p) : p \in Paths} \cup {Net(ExtractName(r)) : r \in Requests}

ASSUME ReplayAssumption ==
  /\ MaxSteps \in Nat /\ MaxIo \in Nat
  /\ NoEnd \notin Ends /\ NoAudit \notin SeqOf(Ios, MaxIo)
  /\ \A c \in Calls : c = [seen |-> c.seen, llm |-> c.llm, action |-> c.action,
                          result |-> c.result]
  /\ \A r \in Requests :
       /\ r = Request(r.scheme, r.bracketed, r.name, r.port)
       /\ r.name = [labels |-> r.name.labels, tail |-> r.name.tail]
  /\ \A sandbox \in Sandboxes :
       /\ \A root \in sandbox.roots : root = Root(root.form, root.path)
       /\ \A host \in sandbox.hosts, r \in Requests :
            host.wild /\ r.name.tail # "none" =>
              ~IsStrictSuffix(host.name.labels, r.name.labels)

\* What the runner makes: an audited run has an audit of permitted IO in every
\* step, any other run has none.
Produced(run) ==
  /\ run.trace \in Seq([call : Calls, audit : Audits(run)])
  /\ run = [sandbox |-> run.sandbox, trace |-> run.trace, end |-> run.end,
            close |-> run.close, audited |-> run.audited]
  /\ run.sandbox \in Sandboxes /\ run.audited \in BOOLEAN
  /\ run.close \in Closes \cup {"none"}

ReplayTypeOK ==
  /\ phase \in {"first", "second", "checked"}
  /\ Produced(first)
  /\ IF phase = "first" THEN first.end = NoEnd /\ second = NoRun
                        ELSE first.end \in Ends /\ Produced(second)
  /\ phase = "second" => second.end = NoEnd
  /\ phase = "checked" => second.end \in Ends

\* Runs with an audit, under one declaration, that ended alike.
Comparable ==
  /\ first.audited /\ second.audited
  /\ first.sandbox = second.sandbox /\ first.end = second.end

\* The runs differ in nothing: not in what was done, what came of it, which
\* IO it took, or how it ended.
Same == Comparable /\ first.trace = second.trace

\* The part of a trace that diff compares and the checks of replay.py do not.
Noted(run) ==
  [i \in DOMAIN run.trace |-> <<run.trace[i].call.seen, run.trace[i].call.llm>>]

\* What a check accepts, the other checks do not refuse later: the bundle that
\* record seals verifies, and after a replay that passed the bundles of both
\* runs verify and either would have replayed against the other's, if it kept
\* an audit.  The checks are written three times (replay.py:140-190, 220-271,
\* bundle.py:254-325), and each looks at audits at another point.
AcceptedRunsVerify ==
  phase = "checked" =>
    /\ RecordOk(first, second) => VerifyOk(Bundle(first))
    /\ ReplayOk(Bundle(first), second) =>
         /\ VerifyOk(Bundle(first)) /\ VerifyOk(Bundle(second))
         /\ first.audited => ReplayOk(Bundle(second), first)

\* The three modes come to one verdict on runs that kept an audit: a bundle
\* holds all that check_record looks at, and strict adds nothing for runs whose
\* last steps were charged alike (replay.py:14-21).
ModesAgree ==
  phase = "checked" /\ first.audited =>
    /\ RecordOk(first, second) <=> ReplayOk(Bundle(first), second)
    /\ StrictOk(Bundle(first), second) => ReplayOk(Bundle(first), second)
    /\ ReplayOk(Bundle(first), second) /\ first.close = second.close =>
         StrictOk(Bundle(first), second)

\* Roots as normalize_path returns them, and hosts that are names.
Canonical(sandbox) ==
  /\ sandbox.declared
  /\ \A root \in sandbox.roots : root.form = "plain"
  /\ \A host \in sandbox.hosts : host.name.tail = "none"

\* What record accepts, `diff` calls identical if the agent saw and logged the
\* same and made as many tool calls.  Runs that it calls identical have done
\* the same in every step, with the same IO but for order and repetition;
\* record can refuse comparable ones of a canonical declaration for that alone
\* (baseline.py:258-345, cli.py:616-632).
DiffAgreesWithRecord ==
  phase = "checked" =>
    /\ RecordOk(first, second) =>
         (Identical(first, second) <=>
            /\ Noted(first) = Noted(second)
            /\ ToolCallsUsed(first) = ToolCallsUsed(second))
    /\ Identical(first, second) =>
         /\ Len(first.trace) = Len(second.trace)
         /\ \A i \in DOMAIN first.trace :
              /\ first.trace[i].call = second.trace[i].call
              /\ first.audited /\ second.audited =>
                   ToSet(first.trace[i].audit) = ToSet(second.trace[i].audit)
    /\ Identical(first, second) /\ Comparable /\ Canonical(first.sandbox) =>
         (RecordOk(first, second) <=>
            \A i \in DOMAIN first.trace :
              first.trace[i].audit = second.trace[i].audit)

\* Under a canonical declaration what GuardedEnv permits is what the checks
\* permit: a run repeated is a run accepted, and its bundle verifies.
RepetitionIsAccepted ==
  phase = "checked" /\ Same /\ Canonical(first.sandbox) =>
    RecordOk(first, second) /\ VerifyOk(Bundle(first))
=============================================================================
