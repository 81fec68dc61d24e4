---------------------------- MODULE BundleProofs ----------------------------
(***************************************************************************)
(* Theorems about bundles.  Replay, for runs of any length under any       *)
(* declarations: that what one check accepts no other refuses, that modes  *)
(* and `diff` agree, and when a repetition is accepted.  BundleStore: what *)
(* the commands leave of a bundle's directory, by one inductive invariant  *)
(* over the steps of their plans.                                          *)
(***************************************************************************)
EXTENDS Replay, BundleStore, TLAPS


\* Audits depends on a run's declaration and on whether it keeps an audit.
LEMMA AuditsKept ==
  ASSUME NEW a, NEW b, a.sandbox = b.sandbox, a.audited = b.audited
  PROVE  Audits(a) = Audits(b)
BY DEF Audits

LEMMA BeginProduced ==
  ASSUME NEW sandbox \in Sandboxes, NEW audited \in BOOLEAN, NEW run,
         run = [NoRun EXCEPT !.sandbox = sandbox, !.audited = audited]
  PROVE  Produced(run) /\ run.end = NoEnd
<1>1. /\ run = [sandbox |-> sandbox, trace |-> <<>>, end |-> NoEnd, close |-> "none",
                audited |-> audited]
      /\ run.sandbox = sandbox /\ run.trace = <<>> /\ run.end = NoEnd
      /\ run.close = "none" /\ run.audited = audited
  BY DEF NoRun
<1>2. run.trace \in Seq([call : Calls, audit : Audits(run)])
  <2> DEFINE Entries == [call : Calls, audit : Audits(run)]
  <2> HIDE DEF Entries
  <2>1. <<>> \in Seq(Entries)
    OBVIOUS
  <2>2. QED
    BY <1>1, <2>1, Zenon DEF Entries
<1>3. QED
  BY <1>1, <1>2 DEF Produced

LEMMA ExtendedProduced ==
  ASSUME NEW run, Produced(run), NEW call \in Calls, NEW audit \in Audits(run)
  PROVE  /\ Produced(Extended(run, call, audit))
         /\ Extended(run, call, audit).end = run.end
<1> DEFINE next == Extended(run, call, audit)
           entry == [call |-> call, audit |-> audit]
           Entries == [call : Calls, audit : Audits(run)]
<1>1. run = [sandbox |-> run.sandbox, trace |-> run.trace, end |-> run.end,
             close |-> run.close, audited |-> run.audited]
  BY DEF Produced
<1>2. next = [sandbox |-> run.sandbox, trace |-> Append(run.trace, entry),
              end |-> run.end, close |-> run.close, audited |-> run.audited]
  <2> HIDE DEF entry
  <2>1. next = [run EXCEPT !.trace = Append(run.trace, entry)]
    BY DEF Extended, entry
  <2> HIDE DEF next
  <2>2. QED
    BY <1>1, <2>1
<1>3. /\ next.sandbox = run.sandbox /\ next.trace = Append(run.trace, entry)
      /\ next.end = run.end /\ next.close = run.close /\ next.audited = run.audited
  BY <1>2
<1>4. entry \in Entries /\ run.trace \in Seq(Entries)
  BY DEF Produced
<1> HIDE DEF entry, Entries
<1>5. Append(run.trace, entry) \in Seq(Entries)
  BY <1>4
<1>6. Entries = [call : Calls, audit : Audits(next)]
  BY <1>3, AuditsKept DEF Entries
<1>7. next = [sandbox |-> next.sandbox, trace |-> next.trace, end |-> next.end,
              close |-> next.close, audited |-> next.audited]
  BY <1>2, <1>3
<1> HIDE DEF next
<1>8. Produced(next)
  BY <1>3, <1>5, <1>6, <1>7 DEF Produced
<1>9. QED
  BY <1>3, <1>8 DEF next

LEMMA ClosedProduced ==
  ASSUME NEW run, Produced(run), NEW end, NEW close \in Closes, NEW next,
         next = Closed(run, end, close)
  PROVE  Produced(next) /\ next.end = end
<1>1. run = [sandbox |-> run.sandbox, trace |-> run.trace, end |-> run.end,
             close |-> run.close, audited |-> run.audited]
  BY DEF Produced
<1>2. next = [sandbox |-> run.sandbox, trace |-> run.trace, end |-> end,
              close |-> close, audited |-> run.audited]
  BY <1>1 DEF Closed
<1>3. /\ next.sandbox = run.sandbox /\ next.trace = run.trace
      /\ next.end = end /\ next.close = close /\ next.audited = run.audited
  BY <1>2
<1>4. Audits(next) = Audits(run)
  BY <1>3, AuditsKept
<1>5. QED
  BY <1>2, <1>3, <1>4 DEF Produced

LEMMA ReplayTypeInv == ReplaySpec => []ReplayTypeOK
<1>1. ReplayInit => ReplayTypeOK
  BY BeginProduced DEF ReplayInit, ReplayTypeOK
<1>2. ASSUME ReplayTypeOK, Step PROVE ReplayTypeOK'
  <2>1. CASE phase = "first"
    <3>1. PICK call \in Calls, audit \in Audits(first) :
            first' = Extended(first, call, audit)
      BY <1>2, <2>1 DEF Step
    <3>2. Produced(first') /\ first'.end = first.end
      BY <1>2, <3>1, ExtendedProduced DEF ReplayTypeOK
    <3>3. UNCHANGED <<second, phase>>
      BY <1>2, <2>1 DEF Step
    <3>4. QED
      BY <1>2, <2>1, <3>2, <3>3 DEF ReplayTypeOK
  <2>2. CASE phase = "second"
    <3>1. PICK call \in Calls, audit \in Audits(second) :
            second' = Extended(second, call, audit)
      BY <1>2, <2>2 DEF Step
    <3>2. Produced(second') /\ second'.end = second.end
      BY <1>2, <2>2, <3>1, ExtendedProduced DEF ReplayTypeOK
    <3>3. UNCHANGED <<first, phase>>
      BY <1>2, <2>2 DEF Step
    <3>4. QED
      BY <1>2, <2>2, <3>2, <3>3 DEF ReplayTypeOK
  <2>3. QED
    BY <1>2, <2>1, <2>2 DEF Step
<1>3. ASSUME ReplayTypeOK, Rerun PROVE ReplayTypeOK'
  <2>1. phase' = "second"
    BY <1>3 DEF Rerun
  <2>2. PICK end \in Ends, close \in Closes : first' = Closed(first, end, close)
    BY <1>3 DEF Rerun
  <2>3. PICK sandbox \in Sandboxes, audited \in BOOLEAN :
          second' = [NoRun EXCEPT !.sandbox = sandbox, !.audited = audited]
    BY <1>3 DEF Rerun
  <2>4. Produced(first') /\ first'.end \in Ends
    BY <1>3, <2>2, ClosedProduced DEF ReplayTypeOK
  <2>5. Produced(second') /\ second'.end = NoEnd
    BY <2>3, BeginProduced
  <2>6. QED
    BY <2>1, <2>4, <2>5 DEF ReplayTypeOK
<1>4. ASSUME ReplayTypeOK, Check PROVE ReplayTypeOK'
  <2>1. phase = "second" /\ phase' = "checked" /\ first' = first
    BY <1>4 DEF Check
  <2>2. PICK end \in Ends, close \in Closes : second' = Closed(second, end, close)
    BY <1>4 DEF Check
  <2>3. Produced(second') /\ second'.end \in Ends
    BY <1>4, <2>1, <2>2, ClosedProduced DEF ReplayTypeOK
  <2>4. QED
    BY <1>4, <2>1, <2>3 DEF ReplayTypeOK
<1>5. ASSUME ReplayTypeOK, UNCHANGED replayVars PROVE ReplayTypeOK'
  BY <1>5 DEF replayVars, ReplayTypeOK
<1>6. ReplayTypeOK /\ [ReplayNext]_replayVars => ReplayTypeOK'
  BY <1>2, <1>3, <1>4, <1>5 DEF ReplayNext
<1>7. QED
  BY <1>1, <1>6, PTL DEF ReplaySpec

-----------------------------------------------------------------------------
\* The audits of a produced run: permitted IO in every step, or none at all.
LEMMA AuditsOfRun ==
  ASSUME NEW run, Produced(run), NEW i \in DOMAIN run.trace
  PROVE  /\ run.trace[i] = [call |-> run.trace[i].call, audit |-> run.trace[i].audit]
         /\ run.trace[i].call \in Calls
         /\ run.audited => /\ run.trace[i].audit # NoAudit
                           /\ \A k \in DOMAIN run.trace[i].audit :
                                run.trace[i].audit[k] \in Permitted(run.sandbox)
         /\ ~run.audited => run.trace[i].audit = NoAudit
<1>1. run.trace[i] \in [call : Calls, audit : Audits(run)]
  <2> DEFINE Entries == [call : Calls, audit : Audits(run)]
  <2>1. run.trace \in Seq(Entries)
    BY DEF Produced
  <2> HIDE DEF Entries
  <2>2. run.trace[i] \in Entries
    BY <2>1
  <2>3. QED
    BY <2>2 DEF Entries
<1>2. /\ run.trace[i] = [call |-> run.trace[i].call, audit |-> run.trace[i].audit]
      /\ run.trace[i].call \in Calls /\ run.trace[i].audit \in Audits(run)
  BY <1>1
<1>3. ASSUME run.audited
      PROVE  /\ run.trace[i].audit # NoAudit
             /\ \A k \in DOMAIN run.trace[i].audit :
                  run.trace[i].audit[k] \in Permitted(run.sandbox)
  <2>1. PICK m \in 0 .. MaxIo : run.trace[i].audit \in [1 .. m -> Permitted(run.sandbox)]
    BY <1>2, <1>3 DEF Audits, SeqOf
  <2>2. Permitted(run.sandbox) \subseteq Ios
    BY DEF Permitted, Ios
  <2>3. run.trace[i].audit \in SeqOf(Ios, MaxIo)
    BY <2>1, <2>2 DEF SeqOf
  <2>4. QED
    BY <2>1, <2>3, ReplayAssumption
<1>4. ASSUME ~run.audited PROVE run.trace[i].audit = NoAudit
  BY <1>2, <1>4 DEF Audits
<1>5. QED
  BY <1>2, <1>3, <1>4

\* What write_bundle keeps of a trace: everything, if the run has an audit.
LEMMA BundleOfRun ==
  ASSUME NEW run, Produced(run)
  PROVE  /\ Bundle(run).sandbox = run.sandbox /\ Bundle(run).end = run.end
         /\ Bundle(run).steps = StepsUsed(run)
         /\ Bundle(run).tools = ToolCallsUsed(run)
         /\ DOMAIN Bundle(run).trace = DOMAIN run.trace
         /\ Len(Bundle(run).trace) = Len(run.trace)
         /\ run.audited => Bundle(run).trace = run.trace
<1> DEFINE trace == [i \in DOMAIN run.trace |->
                       [run.trace[i] EXCEPT !.audit = IF @ = NoAudit THEN <<>> ELSE @]]
<1>1. /\ Bundle(run).sandbox = run.sandbox /\ Bundle(run).end = run.end
      /\ Bundle(run).steps = StepsUsed(run) /\ Bundle(run).tools = ToolCallsUsed(run)
      /\ Bundle(run).trace = trace
  BY DEF Bundle
<1>2. run.trace \in Seq([call : Calls, audit : Audits(run)])
  BY DEF Produced
<1>3. DOMAIN run.trace = 1 .. Len(run.trace) /\ Len(run.trace) \in Nat
  BY <1>2
<1>4. DOMAIN trace = 1 .. Len(run.trace)
  BY <1>3
<1>5. Len(trace) = Len(run.trace)
  BY <1>3
<1>6. ASSUME run.audited PROVE trace = run.trace
  <2>1. \A i \in DOMAIN run.trace : trace[i] = run.trace[i]
    <3>1. SUFFICES ASSUME NEW i \in DOMAIN run.trace PROVE trace[i] = run.trace[i]
      OBVIOUS
    <3>2. /\ run.trace[i].audit # NoAudit
          /\ run.trace[i] = [call |-> run.trace[i].call, audit |-> run.trace[i].audit]
      BY <1>6, AuditsOfRun
    <3>3. QED
      BY <3>2
  <2>2. trace = [i \in DOMAIN run.trace |-> run.trace[i]]
    BY <2>1
  <2>3. run.trace = [i \in DOMAIN run.trace |-> run.trace[i]]
    BY <1>2
  <2>4. QED
    BY <2>2, <2>3
<1> HIDE DEF trace
<1>7. QED
  BY <1>1, <1>3, <1>4, <1>5, <1>6

\* Under a canonical declaration the checks permit what GuardedEnv permits.
LEMMA CanonicalAudits ==
  ASSUME NEW sandbox \in Sandboxes, Canonical(sandbox), NEW audit,
         \A k \in DOMAIN audit : audit[k] \in Permitted(sandbox)
  PROVE  AuditAllowed(audit, sandbox)
<1>1. ASSUME NEW p \in Paths, FsAllowed(sandbox.roots, p)
      PROVE  FsAuditAllowed(sandbox.roots, p)
  <2>1. PICK root \in sandbox.roots : IsPrefix(NormalizeRoot(root).path, p)
    BY <1>1 DEF FsAllowed
  <2>2. root.form = "plain" /\ root = Root(root.form, root.path)
    BY ReplayAssumption DEF Canonical
  <2>3. NormalizeRoot(root).path = root.path
    BY <2>2 DEF NormalizeRoot, Root
  <2>4. QED
    BY <2>1, <2>2, <2>3 DEF FsAuditAllowed
<1>2. ASSUME NEW r \in Requests, NetAllowed(sandbox.hosts, r)
      PROVE  NetAllowed(sandbox.hosts, Bare(ExtractName(r)))
  <2> DEFINE n == ExtractName(r)
  <2>1. PICK host \in sandbox.hosts : Matches(host, n)
    BY <1>2 DEF NetAllowed
  <2>2. /\ r.name = [labels |-> r.name.labels, tail |-> r.name.tail]
        /\ host.name.tail = "none"
    BY ReplayAssumption DEF Canonical
  <2>3. n = r.name \/ n.tail = "none"
    BY <2>2 DEF ExtractName
  <2>4. n.tail = "none"
    <3>1. CASE n.tail # "none"
      <4>1. n = r.name /\ r.name.tail # "none"
        BY <2>3, <3>1
      <4>2. ~host.wild
        BY <2>1, <4>1, ReplayAssumption DEF Matches
      <4>3. n = host.name
        BY <2>1, <4>2 DEF Matches
      <4>4. QED
        BY <2>2, <4>3
    <3>2. QED
      BY <3>1
  <2> HIDE DEF n
  <2>5. /\ Bare(n).scheme = "none" /\ Bare(n).bracketed = FALSE
        /\ Bare(n).name = n /\ Bare(n).port = "none"
    BY DEF Bare, Request
  <2>6. ~LosesTail(Bare(n))
    BY <2>4, <2>5 DEF LosesTail
  <2>7. ExtractName(Bare(n)) = n /\ ExtractPort(Bare(n)) = "none"
    BY <2>5, <2>6 DEF ExtractName, ExtractPort
  <2>8. NetAllowed(sandbox.hosts, Bare(n))
    BY <2>1, <2>5, <2>7 DEF NetAllowed
  <2>9. QED
    BY <2>8 DEF n
<1>3. SUFFICES ASSUME NEW k \in DOMAIN audit
               PROVE  CASE audit[k].type = "fs" -> FsAuditAllowed(sandbox.roots, audit[k].on)
                        [] audit[k].type = "net" ->
                             NetAllowed(sandbox.hosts, Bare(audit[k].on))
  BY DEF AuditAllowed
<1>4. CASE \E p \in Paths : FsAllowed(sandbox.roots, p) /\ audit[k] = Fs(p)
  <2>1. PICK p \in Paths : FsAllowed(sandbox.roots, p) /\ audit[k] = Fs(p)
    BY <1>4
  <2>2. audit[k].type = "fs" /\ audit[k].on = p
    BY <2>1 DEF Fs
  <2>3. QED
    BY <1>1, <2>1, <2>2
<1>5. CASE \E r \in Requests : NetAllowed(sandbox.hosts, r) /\ audit[k] = Net(ExtractName(r))
  <2>1. PICK r \in Requests : NetAllowed(sandbox.hosts, r) /\ audit[k] = Net(ExtractName(r))
    BY <1>5
  <2>2. audit[k].type = "net" /\ audit[k].on = ExtractName(r)
    BY <2>1 DEF Net
  <2>3. QED
    BY <1>2, <2>1, <2>2
<1>6. QED
  BY <1>4, <1>5 DEF Permitted

-----------------------------------------------------------------------------
\* Runs are always what the runner may produce, in the phase they belong to.
THEOREM ReplayTypeCorrect == ReplaySpec => []ReplayTypeOK
BY ReplayTypeInv

\* A trace is a sequence.
LEMMA TraceDomains ==
  ASSUME NEW run, Produced(run)
  PROVE  DOMAIN run.trace = 1 .. Len(run.trace) /\ Len(run.trace) \in Nat
<1> DEFINE Entries == [call : Calls, audit : Audits(run)]
<1>1. run.trace \in Seq(Entries)
  BY DEF Produced
<1> HIDE DEF Entries
<1>2. QED
  BY <1>1

\* What the trace file keeps of a step that has an audit is what checks read.
LEMMA BundledStep ==
  ASSUME NEW run, Produced(run), NEW i \in DOMAIN run.trace,
         run.trace[i].audit # NoAudit
  PROVE  Bundle(run).trace[i] = run.trace[i]
<1>1. run.trace[i] = [call |-> run.trace[i].call, audit |-> run.trace[i].audit]
  BY AuditsOfRun
<1>2. Bundle(run).trace[i] = [run.trace[i] EXCEPT !.audit = run.trace[i].audit]
  BY DEF Bundle
<1>3. QED
  BY <1>1, <1>2

\* What record or replay accepts, verify accepts, and replay the other way round.
THEOREM AcceptedRunsVerifyCorrect == ReplaySpec => []AcceptedRunsVerify
<1>1. ReplayTypeOK => AcceptedRunsVerify
  <2>1. SUFFICES ASSUME ReplayTypeOK, phase = "checked"
                 PROVE  /\ RecordOk(first, second) => VerifyOk(Bundle(first))
                        /\ ReplayOk(Bundle(first), second) =>
                             /\ VerifyOk(Bundle(first)) /\ VerifyOk(Bundle(second))
                             /\ first.audited => ReplayOk(Bundle(second), first)
    BY DEF AcceptedRunsVerify
  <2>2. Produced(first) /\ Produced(second)
    BY <2>1 DEF ReplayTypeOK
  <2>3. \A run \in {first, second} :
          /\ Bundle(run).sandbox = run.sandbox /\ Bundle(run).end = run.end
          /\ DOMAIN Bundle(run).trace = DOMAIN run.trace
          /\ Len(Bundle(run).trace) = Len(run.trace)
          /\ DOMAIN run.trace = 1 .. Len(run.trace)
    BY <2>2, BundleOfRun, TraceDomains
  <2>4. ASSUME RecordOk(first, second) PROVE VerifyOk(Bundle(first))
    <3>1. /\ first.sandbox.declared
          /\ \A i \in DOMAIN first.trace :
               /\ first.trace[i].audit # NoAudit
               /\ AuditAllowed(first.trace[i].audit, first.sandbox)
      BY <2>4 DEF RecordOk, TracesAgree
    <3>2. \A i \in DOMAIN first.trace : Bundle(first).trace[i] = first.trace[i]
      BY <2>2, <3>1, BundledStep
    <3>3. QED
      BY <2>3, <3>1, <3>2 DEF VerifyOk
  <2>5. ASSUME ReplayOk(Bundle(first), second)
        PROVE  /\ VerifyOk(Bundle(first)) /\ VerifyOk(Bundle(second))
               /\ first.audited => ReplayOk(Bundle(second), first)
    <3> DEFINE trace == Bundle(first).trace
    <3>1. /\ first.sandbox.declared /\ first.sandbox = second.sandbox
          /\ first.end = second.end /\ Len(first.trace) = Len(second.trace)
          /\ DOMAIN trace = DOMAIN first.trace
          /\ DOMAIN first.trace = DOMAIN second.trace
      BY <2>3, <2>5 DEF ReplayOk, TracesAgree
    <3>2. \A i \in DOMAIN second.trace :
            /\ second.trace[i].audit # NoAudit
            /\ SameStep(trace[i], second.trace[i])
            /\ AuditAllowed(trace[i].audit, first.sandbox)
            /\ AuditAllowed(second.trace[i].audit, first.sandbox)
      BY <2>3, <2>5, <3>1 DEF ReplayOk, TracesAgree
    <3>3. \A i \in DOMAIN second.trace : Bundle(second).trace[i] = second.trace[i]
      BY <2>2, <3>2, BundledStep
    <3>4. VerifyOk(Bundle(first))
      BY <2>3, <3>1, <3>2 DEF VerifyOk
    <3>5. VerifyOk(Bundle(second))
      BY <2>3, <3>1, <3>2, <3>3 DEF VerifyOk
    <3>6. ASSUME first.audited PROVE ReplayOk(Bundle(second), first)
      <4>1. trace = first.trace
        BY <2>2, <3>6, BundleOfRun
      <4>2. \A i \in DOMAIN first.trace : first.trace[i].audit # NoAudit
        BY <2>2, <3>6, AuditsOfRun
      <4>3. Len(Bundle(second).trace) = Len(first.trace)
        BY <2>3, <3>1
      <4>4. \A i \in DOMAIN second.trace : SameStep(second.trace[i], first.trace[i])
        BY <3>2, <4>1 DEF SameStep
      <4>5. TracesAgree(Bundle(second).trace, first.trace, first.sandbox, first.sandbox)
        <5> HIDE DEF trace
        <5>1. DOMAIN Bundle(second).trace = DOMAIN second.trace
          BY <2>3
        <5>2. QED
          BY <3>1, <3>2, <3>3, <4>1, <4>2, <4>3, <4>4, <5>1 DEF TracesAgree
      <4>6. QED
        BY <2>3, <3>1, <4>5 DEF ReplayOk
    <3>7. QED
      BY <3>4, <3>5, <3>6
  <2>6. QED
    BY <2>4, <2>5
<1>2. QED
  BY <1>1, ReplayTypeInv, PTL

\* Record, replay and strict come to one verdict on a run that kept an audit.
THEOREM ModesAgreeCorrect == ReplaySpec => []ModesAgree
<1>1. ReplayTypeOK => ModesAgree
  <2>1. SUFFICES ASSUME ReplayTypeOK, phase = "checked", first.audited
                 PROVE  /\ RecordOk(first, second) <=> ReplayOk(Bundle(first), second)
                        /\ ReplayOk(Bundle(first), second) /\ first.close = second.close =>
                             StrictOk(Bundle(first), second)
    BY DEF ModesAgree, StrictOk
  <2>2. Produced(first) /\ Produced(second)
    BY <2>1 DEF ReplayTypeOK
  <2>3. /\ Bundle(first).sandbox = first.sandbox /\ Bundle(first).end = first.end
        /\ Bundle(first).steps = StepsUsed(first)
        /\ Bundle(first).tools = ToolCallsUsed(first)
        /\ Bundle(first).trace = first.trace
    BY <2>1, <2>2, BundleOfRun
  <2>4. RecordOk(first, second) <=> ReplayOk(Bundle(first), second)
    <3>1. CASE first.sandbox = second.sandbox
      BY <2>3, <3>1 DEF RecordOk, ReplayOk
    <3>2. CASE first.sandbox # second.sandbox
      BY <2>3, <3>2 DEF RecordOk, ReplayOk
    <3>3. QED
      BY <3>1, <3>2
  <2>5. ASSUME ReplayOk(Bundle(first), second), first.close = second.close
        PROVE  /\ StepsUsed(second) <= Bundle(first).steps
               /\ ToolCallsUsed(second) <= Bundle(first).tools
    <3>1. Len(first.trace) = Len(second.trace)
      BY <2>3, <2>5 DEF ReplayOk, TracesAgree
    <3>2. /\ StepsUsed(first) = StepsUsed(second)
          /\ ToolCallsUsed(first) = ToolCallsUsed(second)
      BY <2>5, <3>1 DEF StepsUsed, ToolCallsUsed
    <3>3. StepsUsed(second) \in Int /\ ToolCallsUsed(second) \in Int
      <4>1. Len(second.trace) \in Nat
        BY <2>2, TraceDomains
      <4>2. QED
        BY <4>1 DEF StepsUsed, ToolCallsUsed
    <3>4. QED
      BY <2>3, <3>2, <3>3
  <2>6. QED
    BY <2>4, <2>5 DEF StrictOk
<1>2. QED
  BY <1>1, ReplayTypeInv, PTL

\* Under a canonical declaration a repeated run is accepted by record, and its
\* bundle verifies.
THEOREM RepetitionIsAcceptedCorrect == ReplaySpec => []RepetitionIsAccepted
<1>1. ReplayTypeOK => RepetitionIsAccepted
  <2>1. SUFFICES ASSUME ReplayTypeOK, phase = "checked", Same, Canonical(first.sandbox)
                 PROVE  RecordOk(first, second) /\ VerifyOk(Bundle(first))
    BY DEF RepetitionIsAccepted
  <2>2. Produced(first) /\ first.audited /\ first.sandbox \in Sandboxes
    BY <2>1 DEF ReplayTypeOK, Same, Comparable, Produced
  <2>3. /\ Bundle(first).sandbox = first.sandbox /\ Bundle(first).trace = first.trace
    BY <2>2, BundleOfRun
  <2>4. \A i \in DOMAIN first.trace :
          /\ first.trace[i].audit # NoAudit
          /\ AuditAllowed(first.trace[i].audit, first.sandbox)
    BY <2>1, <2>2, AuditsOfRun, CanonicalAudits
  <2>5. VerifyOk(Bundle(first))
    BY <2>1, <2>3, <2>4 DEF VerifyOk, Canonical
  <2>6. RecordOk(first, second)
    BY <2>1, <2>4 DEF RecordOk, TracesAgree, SameStep, Same, Comparable, Canonical
  <2>7. QED
    BY <2>5, <2>6
<1>2. QED
  BY <1>1, ReplayTypeInv, PTL

-----------------------------------------------------------------------------
\* Steps with one call and one audit do not differ; of steps that do not
\* differ the calls are equal, and the audits have the same IO.
LEMMA NoStepDiffs ==
  ASSUME Produced(first), Produced(second), Len(first.trace) = Len(second.trace)
  PROVE  StepDiffs(first.trace, second.trace) = {} <=>
           \A i \in DOMAIN first.trace :
             /\ first.trace[i].call = second.trace[i].call
             /\ IoOf(first.trace[i]) = IoOf(second.trace[i])
<1>1. DOMAIN first.trace = DOMAIN second.trace
  BY TraceDomains
<1>2. QED
  BY <1>1 DEF StepDiffs

\* What record accepts differs for diff only in what the agent saw and logged,
\* or in the number of tool calls.
LEMMA RecordedIsIdentical ==
  ASSUME Produced(first), Produced(second), RecordOk(first, second)
  PROVE  Identical(first, second) <=>
           /\ Noted(first) = Noted(second)
           /\ ToolCallsUsed(first) = ToolCallsUsed(second)
<1> DEFINE noted(run, i) == <<run.trace[i].call.seen, run.trace[i].call.llm>>
<1>1. /\ Len(first.trace) = Len(second.trace) /\ first.end = second.end
      /\ \A i \in DOMAIN first.trace : SameStep(first.trace[i], second.trace[i])
  BY DEF RecordOk, TracesAgree
<1>2. DOMAIN first.trace = DOMAIN second.trace
  BY <1>1, TraceDomains
<1>3. \A i \in DOMAIN first.trace :
        /\ IoOf(first.trace[i]) = IoOf(second.trace[i])
        /\ (first.trace[i].call = second.trace[i].call) <=>
              (noted(first, i) = noted(second, i))
  <2>1. SUFFICES ASSUME NEW i \in DOMAIN first.trace
                 PROVE  /\ IoOf(first.trace[i]) = IoOf(second.trace[i])
                        /\ (first.trace[i].call = second.trace[i].call) <=>
                              (noted(first, i) = noted(second, i))
    OBVIOUS
  <2> DEFINE a == first.trace[i].call
             b == second.trace[i].call
  <2>2. a \in Calls /\ b \in Calls
    BY <1>2, AuditsOfRun
  <2>3. /\ a = [seen |-> a.seen, llm |-> a.llm, action |-> a.action, result |-> a.result]
        /\ b = [seen |-> b.seen, llm |-> b.llm, action |-> b.action, result |-> b.result]
    BY <2>2, ReplayAssumption
  <2>4. /\ a.action = b.action /\ a.result = b.result
        /\ first.trace[i].audit = second.trace[i].audit
    BY <1>1 DEF SameStep
  <2>5. IoOf(first.trace[i]) = IoOf(second.trace[i])
    BY <2>4 DEF IoOf
  <2> HIDE DEF a, b
  <2>6. (a = b) <=> (<<a.seen, a.llm>> = <<b.seen, b.llm>>)
    BY <2>3, <2>4
  <2>7. QED
    BY <2>5, <2>6 DEF a, b
<1>4. (Noted(first) = Noted(second)) <=>
        (\A i \in DOMAIN first.trace : noted(first, i) = noted(second, i))
  <2> HIDE DEF noted
  <2>1. /\ Noted(first) = [i \in DOMAIN first.trace |-> noted(first, i)]
        /\ Noted(second) = [i \in DOMAIN first.trace |-> noted(second, i)]
    BY <1>2 DEF Noted, noted
  <2>2. QED
    BY <2>1
<1>5. (StepDiffs(first.trace, second.trace) = {}) <=> (Noted(first) = Noted(second))
  <2> HIDE DEF noted
  <2>1. QED
    BY <1>1, <1>3, <1>4, NoStepDiffs
<1>6. QED
  BY <1>1, <1>5 DEF Identical

\* `diff` and record agree: what record accepts is identical if the agent
\* saw and logged the same in as many tool calls, what is identical did the same with the same IO, and of comparable
\* runs record refuses only those whose IO came in another order or number.
THEOREM DiffAgreesWithRecordCorrect == ReplaySpec => []DiffAgreesWithRecord
<1>1. ReplayTypeOK => DiffAgreesWithRecord
  <2>1. SUFFICES ASSUME ReplayTypeOK, phase = "checked" PROVE DiffAgreesWithRecord
    BY DEF DiffAgreesWithRecord
  <2>2. Produced(first) /\ Produced(second)
    BY <2>1 DEF ReplayTypeOK
  <2>3. ASSUME Identical(first, second)
        PROVE  /\ Len(first.trace) = Len(second.trace)
               /\ DOMAIN first.trace = DOMAIN second.trace
               /\ \A i \in DOMAIN first.trace :
                    /\ first.trace[i].call = second.trace[i].call
                    /\ first.audited /\ second.audited =>
                         ToSet(first.trace[i].audit) = ToSet(second.trace[i].audit)
    <3>1. Len(first.trace) = Len(second.trace)
      BY <2>3 DEF Identical
    <3>2. DOMAIN first.trace = DOMAIN second.trace
      BY <2>2, <3>1, TraceDomains
    <3>3. \A i \in DOMAIN first.trace :
            /\ first.trace[i].call = second.trace[i].call
            /\ IoOf(first.trace[i]) = IoOf(second.trace[i])
      BY <2>2, <2>3, <3>1, NoStepDiffs DEF Identical
    <3>4. ASSUME NEW i \in DOMAIN first.trace, first.audited, second.audited
          PROVE  ToSet(first.trace[i].audit) = ToSet(second.trace[i].audit)
      <4>1. first.trace[i].audit # NoAudit /\ second.trace[i].audit # NoAudit
        BY <2>2, <3>2, <3>4, AuditsOfRun
      <4>2. QED
        BY <3>3, <4>1, Zenon DEF IoOf
    <3>5. QED
      BY <3>1, <3>2, <3>3, <3>4
  <2>4. ASSUME Identical(first, second), Comparable, Canonical(first.sandbox),
               \A i \in DOMAIN first.trace :
                 first.trace[i].audit = second.trace[i].audit
        PROVE  RecordOk(first, second)
    <3>1. /\ first.audited /\ second.audited /\ first.end = second.end
          /\ first.sandbox = second.sandbox /\ first.sandbox \in Sandboxes
          /\ first.sandbox.declared
      BY <2>2, <2>4 DEF Comparable, Produced, Canonical
    <3>2. \A i \in DOMAIN first.trace :
            /\ first.trace[i].audit # NoAudit
            /\ AuditAllowed(first.trace[i].audit, first.sandbox)
      BY <2>2, <2>4, <3>1, AuditsOfRun, CanonicalAudits
    <3>3. \A i \in DOMAIN first.trace : SameStep(first.trace[i], second.trace[i])
      BY <2>3, <2>4 DEF SameStep
    <3>4. TracesAgree(first.trace, second.trace, first.sandbox, second.sandbox)
      BY <2>3, <2>4, <3>1, <3>2, <3>3 DEF TracesAgree
    <3>5. QED
      BY <3>1, <3>4 DEF RecordOk
  <2>5. RecordOk(first, second) =>
          \A i \in DOMAIN first.trace : first.trace[i].audit = second.trace[i].audit
    BY DEF RecordOk, TracesAgree, SameStep
  <2>6. RecordOk(first, second) =>
          (Identical(first, second) <=>
             /\ Noted(first) = Noted(second)
             /\ ToolCallsUsed(first) = ToolCallsUsed(second))
    BY <2>2, RecordedIsIdentical
  <2>7. QED
    BY <2>3, <2>4, <2>5, <2>6 DEF DiffAgreesWithRecord
<1>2. QED
  BY <1>1, ReplayTypeInv, PTL

-----------------------------------------------------------------------------
LEMMA TakesIs ==
  /\ Takes["seal"] = Files \cup {"integrity", "check"} /\ Takes["none"] = {}
  /\ Takes["seal_sign"] = Steps \ {"rerun"}
  /\ Takes["sign"] = {"signature", "mark", "relist"}
  /\ Takes["record"] = Files \cup {"integrity", "rerun"}
BY DEF Takes

LEMMA FollowsIs ==
  /\ Follows["manifest"] = "tool_calls" /\ Follows["tool_calls"] = "validator"
  /\ Follows["validator"] = "integrity"
  /\ Follows["integrity"] = IF command = "record" THEN "rerun" ELSE "check"
  /\ Follows["check"] = IF command = "seal_sign" THEN "signature" ELSE "idle"
  /\ Follows["signature"] = "mark" /\ Follows["mark"] = "relist"
  /\ Follows["relist"] = "idle" /\ Follows["rerun"] = "idle"
BY DEF Follows

\* The step a command is at.
LEMMA AtStep ==
  ASSUME BundleInv, ~Idle
  PROVE  /\ step \in Steps /\ step \in Takes[command]
         /\ command \in {"seal", "seal_sign", "sign", "record"}
         /\ verdict \in {"running", "failed"}
         /\ Ended \in {"ok", "failed"}
         /\ Ended = "ok" <=> verdict = "running"
<1>1. /\ step \in Steps /\ step \in Takes[command]
      /\ verdict \in {"running", "failed"}
  BY DEF BundleInv, BundleTypeOK, DiskTypeOK, CommandTypeOK, StepInv, Idle
<1>2. command # "none"
  BY <1>1, TakesIs
<1>3. QED
  BY <1>1, <1>2 DEF Ended, BundleInv, BundleTypeOK, DiskTypeOK, CommandTypeOK

\* A command takes its own steps only, until it is idle.
LEMMA Advances ==
  ASSUME BundleInv, ~Idle, step' = Follows[step], UNCHANGED command
  PROVE  /\ step' \in Steps \cup {"idle"}
         /\ ~Idle' => step' \in Takes[command']
<1>1. /\ step \in Steps /\ step \in Takes[command]
      /\ command \in {"seal", "seal_sign", "sign", "record"}
  BY AtStep
<1>2. step' \in Steps \cup {"idle"}
  BY <1>1, FollowsIs DEF Steps, Files
<1>3. CASE command = "seal"
  BY <1>1, <1>2, <1>3, FollowsIs, TakesIs DEF Steps, Files, Idle
<1>4. CASE command \in {"sign", "seal_sign"}
  BY <1>1, <1>2, <1>4, FollowsIs, TakesIs DEF Steps, Files, Idle
<1>5. CASE command = "record"
  BY <1>1, <1>2, <1>5, FollowsIs, TakesIs DEF Files, Idle
<1>6. QED
  BY <1>1, <1>2, <1>3, <1>4, <1>5

\* Every file that is there is listed, with its content.
LEMMA ListingIs ==
  ASSUME BundleTypeOK
  PROVE  /\ Listing \in Listings
         /\ (\A f \in Files : content[f] # "absent") =>
               \A f \in Files : Listing[f] = content[f]
<1> DEFINE Missing(n) == \E i \in 1 .. n : content[Order[i]] = "absent"
           Found(f) == \E n \in 1 .. Len(Order) : Order[n] = f /\ ~Missing(n)
<1>1. Listing = [f \in Files |-> IF Found(f) THEN content[f] ELSE "unlisted"]
  BY DEF Listing
<1>2. ASSUME NEW f \in Files
      PROVE  /\ content[f] \in Contents \cup {"absent"}
             /\ Found(f) => content[f] # "absent"
  <2>1. Found(f) => content[f] # "absent"
    <3> SUFFICES ASSUME NEW n \in 1 .. Len(Order), Order[n] = f, ~Missing(n)
                 PROVE  content[f] # "absent"
      OBVIOUS
    <3>1. n \in 1 .. n
      OBVIOUS
    <3>2. QED
      BY <3>1
  <2>2. QED
    BY <2>1 DEF BundleTypeOK, DiskTypeOK, CommandTypeOK
<1>3. ASSUME \A f \in Files : content[f] # "absent", NEW f \in Files
      PROVE  Found(f)
  <2>1. Len(Order) = 3 /\ Order[1] = "manifest" /\ Order[2] = "tool_calls"
        /\ Order[3] = "validator"
    BY DEF Order
  <2>2. \A n \in 1 .. 3 : ~Missing(n)
    BY <1>3, <2>1 DEF Files
  <2>3. \E n \in 1 .. 3 : Order[n] = f
    BY <2>1 DEF Files
  <2> HIDE DEF Missing
  <2>4. QED
    BY <2>1, <2>2, <2>3
<1> HIDE DEF Found
<1>4. Listing \in Listings
  BY <1>1, <1>2 DEF Listings, Digests
<1>5. QED
  BY <1>1, <1>3, <1>4

LEMMA CutListingIs ==
  ASSUME BundleTypeOK
  PROVE  CutListings \subseteq Listings
<1>1. Unlisted \in Listings
  BY DEF Unlisted, Listings, Digests
<1>2. Listing \in Listings
  BY ListingIs
<1>3. ASSUME NEW n \in 0 .. Len(Order) - 1, NEW last \in {"unlisted", "garbled"}
      PROVE  CutListing(n, last) \in Listings
  <2> DEFINE before(f) == \E i \in 1 .. n : Order[i] = f
             at == Order[n + 1]
  <2>1. /\ last \in Digests /\ "unlisted" \in Digests
        /\ \A f \in Files : Listing[f] \in Digests
    BY <1>2 DEF Listings, Digests
  <2> HIDE DEF before, at
  <2>2. [f \in Files |-> IF before(f) THEN Listing[f]
                         ELSE IF at = f THEN last ELSE "unlisted"] \in [Files -> Digests]
    BY <2>1
  <2>3. QED
    BY <2>2 DEF before, at, Listings, CutListing
<1>4. QED
  BY <1>1, <1>3 DEF CutListings

-----------------------------------------------------------------------------
LEMMA InitBundle == Init => BundleInv
<1> SUFFICES ASSUME Init
             PROVE  BundleInv
  OBVIOUS
<1>1. BundleTypeOK
  BY DEF Init, BundleTypeOK, DiskTypeOK, CommandTypeOK, Contents, Listings, Digests
<1>2. QED
  BY <1>1 DEF Init, BundleInv, StepInv, Idle, FillingInv, WrittenInv, SoundInv,
     DamagedInv, SuccessMeansSound

LEMMA BeginKeeps ==
  ASSUME BundleInv, NEW cmd \in {"seal", "seal_sign", "sign", "record"},
         NEW at \in Takes[cmd], cmd # "sign" => at = "manifest",
         cmd = "sign" => at = "signature", Begin(cmd, at)
  PROVE  BundleInv'
<1>1. /\ Idle /\ command' = cmd /\ step' = at
      /\ verdict' = "running" /\ rerun' = "none"
      /\ UNCHANGED <<conduct, content, integrity, signature, filling, health, damages>>
  BY DEF Begin
<1>2. at \in {"manifest", "signature"} /\ filling = "closed"
  BY <1>1 DEF BundleInv, FillingInv, Idle, Files
<1>3. BundleTypeOK'
  BY <1>1, <1>2 DEF BundleInv, BundleTypeOK, DiskTypeOK, CommandTypeOK, Steps, Files
<1>4. StepInv' /\ ~Idle'
  BY <1>1, <1>2 DEF StepInv, Idle
<1>5. FillingInv'
  BY <1>1, <1>2 DEF FillingInv
<1>6. WrittenInv'
  BY <1>1, <1>2 DEF WrittenInv
<1>7. SoundInv' /\ DamagedInv'
  BY <1>1, <1>2 DEF BundleInv, SoundInv, DamagedInv, Holds, Marking, TracesWhole, Idle
<1>8. QED
  BY <1>3, <1>4, <1>5, <1>6, <1>7 DEF BundleInv, SuccessMeansSound

LEMMA BeginsKeep ==
  ASSUME BundleInv, BeginSeal \/ BeginSign \/ BeginRecord
  PROVE  BundleInv'
<1>1. /\ "manifest" \in Takes["seal"] /\ "manifest" \in Takes["record"]
      /\ "manifest" \in Takes["seal_sign"]
      /\ "signature" \in Takes["sign"]
  BY TakesIs DEF Steps, Files
<1>2. CASE BeginSign
  BY <1>1, <1>2, BeginKeeps DEF BeginSign
<1>3. CASE BeginRecord
  BY <1>1, <1>3, BeginKeeps DEF BeginRecord
<1>4. CASE BeginSeal
  BY <1>1, <1>4, BeginKeeps DEF BeginSeal
<1>5. QED
  BY <1>2, <1>3, <1>4

LEMMA OpenFileKeeps ==
  ASSUME BundleInv, NEW f \in Files, OpenFile(f)
  PROVE  BundleInv'
<1>1. /\ step = f /\ filling' = "whole"
      /\ content' = [content EXCEPT ![f] = "empty"] /\ health' = "unknown"
      /\ UNCHANGED <<conduct, integrity, signature, command, step, verdict, rerun,
                     damages>>
  BY DEF OpenFile
<1>2. BundleTypeOK'
  BY <1>1 DEF BundleInv, BundleTypeOK, DiskTypeOK, CommandTypeOK, Contents
<1>3. StepInv' /\ ~Idle'
  BY <1>1 DEF BundleInv, StepInv, Idle, Files
<1>4. FillingInv'
  BY <1>1 DEF FillingInv
<1>5. \A g \in Files \ {f} : content'[g] = content[g]
  BY <1>1 DEF BundleInv, BundleTypeOK, DiskTypeOK, CommandTypeOK
<1>6. WrittenInv'
  BY <1>1, <1>5 DEF BundleInv, WrittenInv, Files
<1>7. QED
  BY <1>1, <1>2, <1>3, <1>4, <1>6 DEF BundleInv, SoundInv, DamagedInv, SuccessMeansSound

LEMMA OpenMarkKeeps ==
  ASSUME BundleInv, OpenMark
  PROVE  BundleInv'
<1>1. /\ step = "mark" /\ filling = "closed" /\ ~Idle
      /\ UNCHANGED <<conduct, integrity, signature, command, rerun, health, damages>>
  BY DEF OpenMark, Idle
<1>2. command \in {"seal_sign", "sign"} /\ Ended \in {"ok", "failed"}
  BY <1>1, AtStep, TakesIs DEF Steps, Files
<1>3. CASE content["manifest"] \in {"absent", "empty", "torn"}
  <2>1. step' = "idle" /\ verdict' = Ended /\ UNCHANGED <<content, filling>>
    BY <1>3 DEF OpenMark
  <2>2. BundleTypeOK'
    BY <1>1, <1>2, <2>1 DEF BundleInv, BundleTypeOK, DiskTypeOK, CommandTypeOK
  <2>3. health # "sound" /\ command = "sign"
    BY <1>1, <1>2, <1>3 DEF BundleInv, SoundInv, Holds, WrittenInv, Marking
  <2>4. DamagedInv'
    BY <1>1, <2>1 DEF BundleInv, DamagedInv, Holds, Marking
  <2>5. QED
    BY <1>1, <2>1, <2>2, <2>3, <2>4 DEF BundleInv, StepInv, Idle, FillingInv, WrittenInv,
       SoundInv, SuccessMeansSound
<1>4. CASE content["manifest"] \notin {"absent", "empty", "torn"}
  <2>1. /\ filling' = IF content["manifest"] \in {"edited", "refused"}
                        THEN content["manifest"] ELSE "marked"
        /\ content' = [content EXCEPT !["manifest"] = "empty"]
        /\ UNCHANGED <<step, verdict>>
    BY <1>4 DEF OpenMark
  <2>2. /\ content'["manifest"] = "empty"
        /\ content["manifest"] \in Contents \cup {"absent"}
        /\ content' \in [Files -> Contents \cup {"absent"}]
        /\ \A g \in Files \ {"manifest"} : content'[g] = content[g]
    BY <2>1 DEF BundleInv, BundleTypeOK, DiskTypeOK, CommandTypeOK, Files, Contents
  <2>3. filling' \in {"marked", "edited", "refused"} /\ filling' # "closed"
    BY <2>1
  <2>4. BundleTypeOK'
    <3>1. filling' \in Contents \cup {"closed"}
      BY <2>3 DEF Contents
    <3>2. UNCHANGED <<step, verdict>>
      BY <2>1
    <3>3. QED
      <4>1. DiskTypeOK'
        BY <1>1, <2>2, <3>1, <3>2 DEF BundleInv, BundleTypeOK, DiskTypeOK
      <4>2. CommandTypeOK'
        BY <1>1, <2>2, <3>1, <3>2 DEF BundleInv, BundleTypeOK, CommandTypeOK
      <4>3. QED
        BY <4>1, <4>2 DEF BundleTypeOK
  <2>5. StepInv' /\ ~Idle'
    BY <1>1, <2>1 DEF BundleInv, StepInv, Idle
  <2>6. FillingInv' /\ Marking'
    BY <1>1, <2>1, <2>2, <2>3 DEF FillingInv, Marking
  <2>7. WrittenInv'
    BY <1>1, <2>1 DEF BundleInv, WrittenInv
  <2>8. SoundInv'
    BY <1>1, <2>1, <2>2, <2>6
       DEF BundleInv, SoundInv, Holds, Marking, TracesWhole, Files
  <2>9. DamagedInv'
    <3>1. \A f \in Files : Holds(f) \notin {"whole", "marked"} =>
                             Holds(f)' \notin {"whole", "marked"}
      BY <1>1, <1>4, <2>1, <2>2, <2>3, <2>6 DEF Holds, Marking, Contents
    <3>2. QED
      BY <1>1, <3>1 DEF BundleInv, DamagedInv
  <2>10. QED
    BY <2>4, <2>5, <2>6, <2>7, <2>8, <2>9 DEF BundleInv, SuccessMeansSound
<1>5. QED
  BY <1>3, <1>4

LEMMA FillFileKeeps ==
  ASSUME BundleInv, NEW f \in Files, FillFile(f)
  PROVE  BundleInv'
<1>1. /\ f = Written /\ filling # "closed" /\ filling' = "closed"
      /\ content' = [content EXCEPT ![f] = filling] /\ step' = Follows[step]
      /\ verdict' = IF Follows[step] = "idle" THEN Ended ELSE verdict
      /\ UNCHANGED <<conduct, integrity, signature, command, rerun, health, damages>>
  BY DEF FillFile, Advance
<1>2. /\ content'[f] = filling /\ content' \in [Files -> Contents \cup {"absent"}]
      /\ \A g \in Files \ {f} : content'[g] = content[g]
  BY <1>1 DEF BundleInv, BundleTypeOK, DiskTypeOK, CommandTypeOK
<1>3. step \in Files \cup {"mark"}
  BY <1>1 DEF Written
<1>4. ~Idle /\ step' \in {"tool_calls", "validator", "integrity", "relist"}
  BY <1>1, <1>3, FollowsIs DEF Files, Idle
<1>5. verdict' = verdict /\ ~Idle'
  BY <1>1, <1>4 DEF Idle
<1>6. BundleTypeOK'
  <2>1. step' \in Steps \cup {"idle"}
    BY <1>1, <1>4, Advances
  <2>2. filling' = "closed" /\ verdict' = verdict
        /\ UNCHANGED <<conduct, integrity, signature, command, rerun, health>>
    BY <1>1, <1>5
  <2>3. QED
    <3>1. DiskTypeOK'
      BY <1>2, <2>1, <2>2 DEF BundleInv, BundleTypeOK, DiskTypeOK
    <3>2. CommandTypeOK'
      BY <1>2, <2>1, <2>2 DEF BundleInv, BundleTypeOK, CommandTypeOK
    <3>3. QED
      BY <3>1, <3>2 DEF BundleTypeOK
<1>7. StepInv' /\ FillingInv'
  BY <1>1, <1>4, <1>5, Advances DEF BundleInv, StepInv, FillingInv
<1>8. CASE step = "mark"
  <2>1. /\ f = "manifest" /\ filling \in {"marked", "edited", "refused"}
        /\ Marking /\ step' = "relist"
    BY <1>1, <1>8, FollowsIs DEF Written, BundleInv, FillingInv, Files, Marking
  <2>2. \A g \in Files : Holds(g)' = Holds(g)
    BY <1>1, <1>2, <2>1 DEF Holds, Marking
  <2>3. WrittenInv'
    BY <1>1, <1>5, <1>8, <2>1 DEF BundleInv, WrittenInv
  <2>4. SoundInv'
    BY <1>1, <1>2, <2>1, <2>2 DEF BundleInv, SoundInv, TracesWhole, Files
  <2>5. DamagedInv'
    BY <1>1, <2>2 DEF BundleInv, DamagedInv
  <2>6. QED
    BY <1>5, <1>6, <1>7, <2>3, <2>4, <2>5 DEF BundleInv, SuccessMeansSound
<1>9. CASE step # "mark"
  <2>1. f = step /\ filling = "whole" /\ health = "unknown"
    BY <1>1, <1>9 DEF Written, BundleInv, FillingInv
  <2>2. WrittenInv'
    BY <1>1, <1>2, <1>4, <2>1, FollowsIs DEF BundleInv, WrittenInv, TracesWhole, Files
  <2>3. QED
    BY <1>1, <1>5, <1>6, <1>7, <2>1, <2>2 DEF BundleInv, SoundInv, DamagedInv,
       SuccessMeansSound
<1>10. QED
  BY <1>8, <1>9

LEMMA SignKeeps ==
  ASSUME BundleInv, Sign
  PROVE  BundleInv'
<1>1. /\ step = "signature" /\ signature' = integrity["manifest"] /\ step' = "mark"
      /\ UNCHANGED <<conduct, content, integrity, command, filling, rerun, health,
                     damages>>
      /\ verdict' = verdict /\ ~Idle /\ ~Idle'
  BY FollowsIs DEF Sign, Advance, Idle
<1>2. integrity["manifest"] \in Digests \cup {"no file"}
  BY DEF BundleInv, BundleTypeOK, DiskTypeOK, CommandTypeOK, Listings, NoFile, Files
<1>3. BundleTypeOK'
  <2>1. step' \in Steps
    BY <1>1 DEF Steps
  <2>2. QED
    <3>1. DiskTypeOK'
      BY <1>1, <1>2, <2>1 DEF BundleInv, BundleTypeOK, DiskTypeOK
    <3>2. CommandTypeOK'
      BY <1>1, <1>2, <2>1 DEF BundleInv, BundleTypeOK, CommandTypeOK
    <3>3. QED
      BY <3>1, <3>2 DEF BundleTypeOK
<1>4. filling = "closed"
  BY <1>1 DEF BundleInv, FillingInv, Files
<1>5. StepInv'
  BY <1>1, FollowsIs, Advances DEF BundleInv, StepInv
<1>6. FillingInv' /\ WrittenInv'
  BY <1>1, <1>4 DEF BundleInv, FillingInv, WrittenInv
<1>7. SoundInv' /\ DamagedInv'
  BY <1>1, <1>4 DEF BundleInv, SoundInv, DamagedInv, Holds, Marking, TracesWhole
<1>8. QED
  BY <1>1, <1>3, <1>5, <1>6, <1>7 DEF BundleInv, SuccessMeansSound

LEMMA WriteIntegrityKeeps ==
  ASSUME BundleInv, WriteIntegrity
  PROVE  BundleInv'
<1>1. /\ step \in {"integrity", "relist"} /\ integrity' = Listing /\ ~Idle
      /\ step' = Follows[step]
      /\ verdict' = IF Follows[step] = "idle" THEN Ended ELSE verdict
      /\ health' = IF step = "integrity" \/ health = "sound" THEN "sound" ELSE "unknown"
      /\ UNCHANGED <<conduct, content, signature, command, filling, rerun, damages>>
  BY DEF WriteIntegrity, Advance, Idle
<1>2. /\ command \in {"seal", "seal_sign", "sign", "record"} /\ verdict \in {"running", "failed"}
      /\ Ended \in {"ok", "failed"}
      /\ Ended = "ok" <=> verdict = "running"
      /\ step = "integrity" => command \in {"seal", "seal_sign", "record"}
      /\ step = "relist" => command \in {"seal_sign", "sign"}
  BY <1>1, AtStep, TakesIs DEF Files
<1>3. /\ step' \in {"check", "rerun", "idle"}
      /\ step' = "idle" <=> step = "relist"
  BY <1>1, FollowsIs
<1>4. /\ Listing \in Listings
      /\ (\A f \in Files : content[f] # "absent") =>
            \A f \in Files : Listing[f] = content[f]
  BY ListingIs DEF BundleInv
<1>5. BundleTypeOK'
  <2>1. step' \in Steps \cup {"idle"}
    BY <1>1, Advances
  <2>2. verdict' \in {"running", "failed", "ok"} /\ health' \in {"sound", "unknown"}
    BY <1>1, <1>2
  <2>3. DiskTypeOK'
    BY <1>1, <1>4 DEF BundleInv, BundleTypeOK, DiskTypeOK
  <2>4. CommandTypeOK'
    BY <1>1, <2>1, <2>2 DEF BundleInv, BundleTypeOK, CommandTypeOK
  <2>5. QED
    BY <2>3, <2>4 DEF BundleTypeOK
<1>6. filling = "closed"
  BY <1>1 DEF BundleInv, FillingInv, Files
<1>7. StepInv' /\ FillingInv'
  BY <1>1, <1>2, <1>3, <1>6, Advances DEF BundleInv, StepInv, FillingInv, Idle
<1>8. health' = "sound" => content["manifest"] \in {"whole", "marked"} /\ TracesWhole
  BY <1>1, <1>2, <1>6 DEF BundleInv, SoundInv, Holds, WrittenInv, Marking
<1>9. SoundInv'
  <2> SUFFICES ASSUME health' = "sound"
               PROVE  SoundInv'
    BY DEF SoundInv
  <2>1. content["manifest"] \in {"whole", "marked"} /\ TracesWhole
    BY <1>8
  <2>2. \A f \in Files : Listing[f] = content[f]
    BY <1>4, <2>1 DEF TracesWhole, Files
  <2>3. QED
    BY <1>1, <1>6, <2>1, <2>2 DEF SoundInv, Holds, Marking, TracesWhole, Files
<1>10. WrittenInv'
  BY <1>1, <1>2, <1>3 DEF WrittenInv
<1>11. DamagedInv'
  BY <1>1 DEF DamagedInv
<1>12. SuccessMeansSound'
  <2> SUFFICES ASSUME Idle', verdict' = "ok", command \in {"seal", "seal_sign", "record"}
               PROVE  /\ conduct = "within" /\ health' = "sound" /\ command # "record"
    BY <1>1 DEF SuccessMeansSound
  <2>1. step = "relist" /\ verdict = "running"
    BY <1>1, <1>2, <1>3 DEF Idle
  <2>2. conduct = "within" /\ health = "sound"
    BY <2>1 DEF BundleInv, WrittenInv
  <2>3. QED
    BY <1>1, <1>2, <2>1, <2>2
<1>13. QED
  BY <1>5, <1>7, <1>9, <1>10, <1>11, <1>12 DEF BundleInv

\* What is whole and listed verifies exactly if the run kept within its
\* declaration.
LEMMA WholeVerifies ==
  ASSUME TracesWhole, content["manifest"] \in {"whole", "marked"},
         \A f \in Files : integrity[f] = content[f]
  PROVE  Verifies <=> conduct = "within"
<1>1. integrity # NoFile
  BY DEF NoFile, Files
<1>2. Accepted <=> conduct # "undeclared" /\ conduct = "within"
  BY DEF Accepted, TracesWhole
<1>3. QED
  BY <1>1, <1>2 DEF Verifies

LEMMA CheckKeeps ==
  ASSUME BundleInv, CheckSealed
  PROVE  BundleInv'
<1>1. /\ step = "check" /\ step' = Follows[step] /\ ~Idle
      /\ verdict' = IF ~Verifies THEN "failed"
                    ELSE IF Follows[step] = "idle" THEN Ended ELSE verdict
      /\ UNCHANGED <<conduct, content, integrity, signature, command, filling, rerun,
                     health, damages>>
  BY DEF CheckSealed, Idle
<1>2. /\ command \in {"seal", "seal_sign"} /\ verdict \in {"running", "failed"}
      /\ Ended \in {"ok", "failed"}
  BY <1>1, AtStep, TakesIs DEF Files
<1>3. filling = "closed" /\ health = "sound"
  BY <1>1, <1>2 DEF BundleInv, FillingInv, WrittenInv, Files
<1>4. step' = IF command = "seal_sign" THEN "signature" ELSE "idle"
  BY <1>1, FollowsIs
<1>5. Verifies <=> conduct = "within"
  BY <1>1, <1>3, WholeVerifies
     DEF BundleInv, SoundInv, Holds, Marking, TracesWhole, Files
<1>6. BundleTypeOK'
  <2>1. step' \in Steps \cup {"idle"}
    BY <1>1, Advances
  <2>2. /\ verdict' \in {"running", "failed", "ok"}
        /\ UNCHANGED <<conduct, content, integrity, signature, command, filling, rerun, health>>
    BY <1>1, <1>2
  <2>3. QED
    <3>1. DiskTypeOK'
      BY <2>1, <2>2 DEF BundleInv, BundleTypeOK, DiskTypeOK
    <3>2. CommandTypeOK'
      BY <2>1, <2>2 DEF BundleInv, BundleTypeOK, CommandTypeOK
    <3>3. QED
      BY <3>1, <3>2 DEF BundleTypeOK
<1>7. StepInv'
  BY <1>1, <1>2, <1>4, Advances DEF StepInv, Idle
<1>8. FillingInv' /\ WrittenInv' /\ SuccessMeansSound' /\ DamagedInv'
  BY <1>1, <1>2, <1>3, <1>4, <1>5 DEF FillingInv, WrittenInv, SuccessMeansSound, DamagedInv
<1>9. SoundInv'
  BY <1>1, <1>3, <1>4 DEF BundleInv, SoundInv, Holds, Marking, TracesWhole
<1>10. QED
  BY <1>6, <1>7, <1>8, <1>9 DEF BundleInv

LEMMA RerunKeeps ==
  ASSUME BundleInv,
         RerunSame \/ RerunRaises
           \/ \E kept \in SUBSET (Files \cup {"integrity", "signature"}) : RerunDiffers(kept)
  PROVE  BundleInv'
<1>1. step = "rerun" /\ ~Idle
  BY DEF RerunSame, RerunRaises, RerunDiffers, Idle
<1>2. /\ command = "record" /\ verdict \in {"running", "failed"}
      /\ Ended \in {"ok", "failed"}
  BY <1>1, AtStep, TakesIs DEF Steps, Files
<1>3. filling = "closed" /\ health = "sound"
  BY <1>1, <1>2 DEF BundleInv, FillingInv, WrittenInv, Files
<1>4. CASE RerunSame \/ RerunRaises
  <2>1. /\ rerun' \in {"same", "raised"} /\ step' = "idle" /\ verdict' \in {"failed", "ok"}
        /\ verdict' = "ok" => rerun' = "same" /\ conduct = "within"
        /\ UNCHANGED <<conduct, content, integrity, signature, command, filling,
                       health, damages>>
    BY <1>1, <1>2, <1>4, FollowsIs DEF RerunSame, RerunRaises, Advance
  <2>2. BundleTypeOK'
    BY <2>1 DEF BundleInv, BundleTypeOK, DiskTypeOK, CommandTypeOK
  <2>3. SoundInv'
    BY <1>1, <2>1 DEF BundleInv, SoundInv, Holds, Marking, TracesWhole
  <2>4. QED
    BY <1>3, <2>1, <2>2, <2>3 DEF BundleInv, StepInv, Idle, FillingInv, WrittenInv,
       DamagedInv, SuccessMeansSound
<1>5. ASSUME NEW kept \in SUBSET (Files \cup {"integrity", "signature"}), RerunDiffers(kept)
      PROVE  BundleInv'
  <2>1. /\ rerun' = "differs" /\ step' = "idle" /\ verdict' = "failed"
        /\ health' = "unknown" /\ UNCHANGED <<conduct, command, filling, damages>>
        /\ content' = [f \in Files |-> IF f \in kept THEN content[f] ELSE "absent"]
        /\ integrity' \in {integrity, NoFile} /\ signature' \in {signature, "no file"}
    BY <1>5 DEF RerunDiffers
  <2>2. BundleTypeOK'
    BY <2>1 DEF BundleInv, BundleTypeOK, DiskTypeOK, CommandTypeOK
  <2>3. QED
    BY <1>3, <2>1, <2>2 DEF BundleInv, StepInv, Idle, FillingInv, WrittenInv, SoundInv,
       DamagedInv, SuccessMeansSound
<1>6. QED
  BY <1>4, <1>5

\* What a step leaves that is cut short, whatever the command reports.
LEMMA CutShortKeeps ==
  ASSUME BundleInv, ~Idle, CutShort,
         verdict' \in {"ok", "failed", "crashed"},
         health' \in {"unknown", "sound", "spoiled", "damaged"}
  PROVE  /\ BundleTypeOK' /\ StepInv' /\ FillingInv' /\ WrittenInv' /\ Idle'
         /\ UNCHANGED <<conduct, command, rerun>>
<1>1. PICK left \in {"empty", "torn"} :
        content' = [f \in Files |-> IF filling # "closed" /\ f = Written THEN left
                                    ELSE content[f]]
  BY DEF CutShort
<1>2. /\ step' = "idle" /\ filling' = "closed"
      /\ UNCHANGED <<conduct, command, rerun>>
      /\ integrity' \in {integrity} \cup CutListings
      /\ signature' \in {signature, "spoilt"}
  BY DEF CutShort
<1>3. CutListings \subseteq Listings
  BY CutListingIs DEF BundleInv
<1>4. content' \in [Files -> Contents \cup {"absent"}]
  BY <1>1 DEF BundleInv, BundleTypeOK, DiskTypeOK, CommandTypeOK, Contents
<1>5. BundleTypeOK'
  BY <1>2, <1>3, <1>4 DEF BundleInv, BundleTypeOK, DiskTypeOK, CommandTypeOK
<1>6. QED
  BY <1>2, <1>5 DEF StepInv, Idle, FillingInv, WrittenInv

LEMMA FailureKeeps ==
  ASSUME BundleInv, WriteRaises \/ MarkFails \/ Crash
  PROVE  BundleInv'
<1>1. ~Idle /\ CutShort
  BY DEF WriteRaises, MarkFails, Crash, Idle, Files
<1>2. /\ verdict \in {"running", "failed"} /\ Ended \in {"ok", "failed"}
      /\ Ended = "ok" <=> verdict = "running"
      /\ step \in {"mark", "relist"} => command \in {"seal_sign", "sign"}
  BY <1>1, AtStep, TakesIs DEF Files
<1>3. CASE WriteRaises \/ Crash
  <2>1. /\ verdict' \in {"failed", "crashed"}
        /\ health' = "unknown" \/ (health' = health /\ step = "signature")
    BY <1>3 DEF WriteRaises, Crash
  <2>2. /\ BundleTypeOK' /\ StepInv' /\ FillingInv' /\ WrittenInv' /\ Idle'
    BY <1>1, <2>1, CutShortKeeps DEF BundleInv, BundleTypeOK, DiskTypeOK, CommandTypeOK
  <2>3. SuccessMeansSound'
    BY <2>1 DEF SuccessMeansSound
  <2>4. CASE health' = "unknown"
    BY <2>2, <2>3, <2>4 DEF BundleInv, SoundInv, DamagedInv
  <2>5. CASE health' = health /\ step = "signature"
    <3>1. filling = "closed"
      BY <2>5 DEF BundleInv, FillingInv, Files
    <3>2. content' = content
      <4>1. content' = [f \in Files |-> content[f]]
        BY <1>1, <3>1 DEF CutShort
      <4>2. QED
        BY <4>1 DEF BundleInv, BundleTypeOK, DiskTypeOK, CommandTypeOK
    <3>3. integrity' = integrity /\ filling' = "closed" /\ step' = "idle"
      BY <1>1, <2>5 DEF CutShort
    <3>4. SoundInv' /\ DamagedInv'
      BY <2>5, <3>1, <3>2, <3>3
         DEF BundleInv, SoundInv, DamagedInv, Holds, Marking, TracesWhole
    <3>5. QED
      BY <2>2, <2>3, <3>4 DEF BundleInv
  <2>6. QED
    BY <2>1, <2>4, <2>5
<1>4. CASE MarkFails
  <2>1. /\ step \in {"mark", "relist"} /\ verdict' = Ended
        /\ health' = IF health = "sound" THEN "spoiled" ELSE "unknown"
    BY <1>4 DEF MarkFails
  <2>2. /\ BundleTypeOK' /\ StepInv' /\ FillingInv' /\ WrittenInv' /\ Idle'
        /\ UNCHANGED <<conduct, command, rerun>>
    BY <1>1, <1>2, <2>1, CutShortKeeps
  <2>3. SuccessMeansSound'
    <3> SUFFICES ASSUME verdict' = "ok", command \in {"seal", "seal_sign", "record"}
                 PROVE  conduct = "within" /\ health = "sound" /\ command = "seal_sign"
      BY <2>1, <2>2 DEF SuccessMeansSound
    <3>1. QED
      BY <1>2, <2>1 DEF BundleInv, WrittenInv
  <2>4. SoundInv' /\ DamagedInv'
    BY <2>1 DEF SoundInv, DamagedInv
  <2>5. QED
    BY <2>2, <2>3, <2>4 DEF BundleInv
<1>5. QED
  BY <1>3, <1>4

\* What damage leaves: it is remembered if the bundle was sound.
LEMMA HarmKeeps ==
  ASSUME BundleInv, Harm, UNCHANGED <<conduct, command, step, filling, verdict, rerun>>,
         BundleTypeOK',
         health # "unknown" /\ health # "spoiled" => DamagedInv'
  PROVE  BundleInv'
<1>1. Idle /\ health' = IF health = "sound" THEN "damaged" ELSE health
  BY DEF Harm
<1>2. Idle' /\ filling = "closed"
  BY <1>1 DEF Idle, BundleInv, FillingInv, Files
<1>3. StepInv' /\ FillingInv' /\ WrittenInv' /\ SoundInv'
  BY <1>1, <1>2 DEF BundleInv, Idle, StepInv, FillingInv, WrittenInv, SoundInv
<1>4. DamagedInv'
  BY <1>1 DEF BundleInv, BundleTypeOK, DiskTypeOK, CommandTypeOK, DamagedInv
<1>5. SuccessMeansSound'
  BY <1>1, <1>2 DEF BundleInv, SuccessMeansSound
<1>6. QED
  BY <1>3, <1>4, <1>5 DEF BundleInv

\* Between commands, what a bundle once sound has listed was ever written.
LEMMA ListedWas ==
  ASSUME BundleInv, Idle, health \in {"sound", "damaged"}
  PROVE  /\ \/ integrity = NoFile
            \/ \A f \in Files : integrity[f] \in {"whole", "marked", "garbled", "unlisted"}
         /\ ~Marking
BY DEF BundleInv, SoundInv, DamagedInv, Holds, Marking, TracesWhole, Idle, Files

LEMMA DamageKeeps ==
  ASSUME BundleInv, NEW f \in Files,
         NEW becomes \in {"edited", "refused", "torn", "absent"}, Damage(f, becomes)
  PROVE  BundleInv'
<1>1. /\ Harm /\ content' = [content EXCEPT ![f] = becomes]
      /\ UNCHANGED <<conduct, integrity, signature, command, step, filling, verdict,
                     rerun>>
  BY DEF Damage
<1>2. /\ Idle /\ health' = IF health = "sound" THEN "damaged" ELSE health
  BY <1>1 DEF Harm
<1>3. content' \in [Files -> Contents \cup {"absent"}] /\ content'[f] = becomes
  BY <1>1 DEF BundleInv, BundleTypeOK, DiskTypeOK, CommandTypeOK, Contents
<1>4. BundleTypeOK'
  <2>1. DiskTypeOK'
    BY <1>1, <1>2, <1>3 DEF BundleInv, BundleTypeOK, DiskTypeOK
  <2>2. CommandTypeOK'
    BY <1>1, <1>2, <1>3 DEF BundleInv, BundleTypeOK, CommandTypeOK
  <2>3. QED
    BY <2>1, <2>2 DEF BundleTypeOK
<1>5. ASSUME health \in {"sound", "damaged"} PROVE DamagedInv'
  <2>1. Holds(f)' = becomes
    BY <1>1, <1>2, <1>3 DEF Holds, Marking, Idle
  <2>2. QED
    BY <1>1, <1>2, <1>5, <2>1, ListedWas DEF DamagedInv
<1>6. QED
  BY <1>1, <1>4, <1>5, HarmKeeps DEF BundleInv, BundleTypeOK, DiskTypeOK, CommandTypeOK

LEMMA DamageListingKeeps ==
  ASSUME BundleInv, NEW f \in Files, NEW becomes \in {"garbled", "unlisted", "no file"},
         DamageListing(f, becomes)
  PROVE  BundleInv'
<1>1. /\ Harm /\ integrity # NoFile
      /\ integrity' = IF becomes = "no file" THEN NoFile
                      ELSE [integrity EXCEPT ![f] = becomes]
      /\ UNCHANGED <<conduct, content, signature, command, step, filling, verdict,
                     rerun>>
  BY DEF DamageListing
<1>2. /\ Idle /\ health' = IF health = "sound" THEN "damaged" ELSE health
  BY <1>1 DEF Harm
<1>3. integrity \in [Files -> Digests]
  BY <1>1 DEF BundleInv, BundleTypeOK, DiskTypeOK, CommandTypeOK, Listings
<1>4. integrity' \in Listings \cup {NoFile} /\ integrity'[f] = becomes
  BY <1>1, <1>3 DEF Listings, Digests, NoFile
<1>5. BundleTypeOK'
  <2>1. DiskTypeOK'
    BY <1>1, <1>4 DEF BundleInv, BundleTypeOK, DiskTypeOK
  <2>2. CommandTypeOK'
    BY <1>1, <1>2 DEF BundleInv, BundleTypeOK, CommandTypeOK
  <2>3. QED
    BY <1>1, <2>1, <2>2 DEF Harm, BundleInv, BundleTypeOK
<1>6. ASSUME health \in {"sound", "damaged"} PROVE DamagedInv'
  <2>1. \/ integrity' = NoFile
        \/ \A g \in Files : integrity'[g] \in {"whole", "marked", "garbled", "unlisted"}
    BY <1>1, <1>2, <1>3, <1>6, ListedWas
  <2>2. QED
    BY <1>4, <2>1 DEF DamagedInv
<1>7. QED
  BY <1>1, <1>5, <1>6, HarmKeeps DEF BundleInv, BundleTypeOK, DiskTypeOK, CommandTypeOK

LEMMA DamageSignatureKeeps ==
  ASSUME BundleInv, NEW becomes \in {"spoilt", "no file"}, DamageSignature(becomes)
  PROVE  BundleInv'
<1>1. /\ signature' = becomes
      /\ UNCHANGED <<conduct, content, integrity, command>>
      /\ UNCHANGED <<step, filling, verdict, rerun, health>>
      /\ damages' = damages + 1
  BY DEF DamageSignature
<1>2. BundleTypeOK'
  <2>1. DiskTypeOK'
    BY <1>1 DEF BundleInv, BundleTypeOK, DiskTypeOK
  <2>2. CommandTypeOK'
    BY <1>1 DEF BundleInv, BundleTypeOK, CommandTypeOK
  <2>3. QED
    BY <2>1, <2>2 DEF BundleTypeOK
<1>3. StepInv' /\ FillingInv' /\ WrittenInv'
  BY <1>1 DEF BundleInv, StepInv, Idle, FillingInv, WrittenInv, TracesWhole
<1>4. SoundInv' /\ DamagedInv' /\ SuccessMeansSound'
  BY <1>1 DEF BundleInv, SoundInv, DamagedInv, Holds, Marking, TracesWhole,
     SuccessMeansSound, Idle
<1>5. QED
  BY <1>2, <1>3, <1>4 DEF BundleInv

LEMMA NextBundle == BundleInv /\ [Next]_vars => BundleInv'
<1> SUFFICES ASSUME BundleInv, [Next]_vars
             PROVE  BundleInv'
  OBVIOUS
<1>1. CASE UNCHANGED vars
  <2>1. /\ UNCHANGED <<conduct, content, integrity, signature, command>>
        /\ UNCHANGED <<step, filling, verdict, rerun, health, damages>>
    BY <1>1 DEF vars
  <2>2. BundleTypeOK'
    <3>1. DiskTypeOK'
      BY <2>1 DEF BundleInv, BundleTypeOK, DiskTypeOK
    <3>2. CommandTypeOK'
      BY <2>1 DEF BundleInv, BundleTypeOK, CommandTypeOK
    <3>3. QED
      BY <3>1, <3>2 DEF BundleTypeOK
  <2>3. StepInv' /\ FillingInv' /\ WrittenInv'
    BY <2>1 DEF BundleInv, StepInv, Idle, FillingInv, WrittenInv, TracesWhole
  <2>4. SoundInv' /\ DamagedInv' /\ SuccessMeansSound'
    BY <2>1 DEF BundleInv, SoundInv, DamagedInv, Holds, Marking, TracesWhole,
       SuccessMeansSound, Idle
  <2>5. QED
    BY <2>2, <2>3, <2>4 DEF BundleInv
<1>2. CASE BeginSeal \/ BeginSign \/ BeginRecord
  BY <1>2, BeginsKeep
<1>3. CASE \E f \in Files : OpenFile(f) \/ FillFile(f)
  BY <1>3, OpenFileKeeps, FillFileKeeps
<1>4. CASE OpenMark \/ Sign \/ WriteIntegrity \/ CheckSealed
  BY <1>4, OpenMarkKeeps, SignKeeps, WriteIntegrityKeeps, CheckKeeps
<1>5. CASE \/ RerunSame \/ RerunRaises
           \/ \E kept \in SUBSET (Files \cup {"integrity", "signature"}) :
                RerunDiffers(kept)
  BY <1>5, RerunKeeps
<1>6. CASE WriteRaises \/ MarkFails \/ Crash
  BY <1>6, FailureKeeps
<1>7. ASSUME NEW f \in Files,
             \/ \E becomes \in {"edited", "refused", "torn", "absent"} : Damage(f, becomes)
             \/ \E becomes \in {"garbled", "unlisted", "no file"} :
                  DamageListing(f, becomes)
      PROVE  BundleInv'
  BY <1>7, DamageKeeps, DamageListingKeeps
<1>8. CASE \E becomes \in {"spoilt", "no file"} : DamageSignature(becomes)
  BY <1>8, DamageSignatureKeeps
<1>9. QED
  BY <1>1, <1>2, <1>3, <1>4, <1>5, <1>6, <1>7, <1>8 DEF Next

LEMMA BundleInvariant == Spec => []BundleInv
BY InitBundle, NextBundle, PTL DEF Spec

\* A command that runs to its end leaves a bundle that is whole and listed,
\* whatever crashed, failed or was damaged before it, and signing leaves it so;
\* it verifies exactly if the run kept within a complete declaration.
THEOREM SoundBundleVerifiesCorrect == Spec => []SoundBundleVerifies
<1>1. BundleInv => SoundBundleVerifies
  <2> SUFFICES ASSUME BundleInv, Idle, health = "sound"
               PROVE  /\ \A f \in Files : content[f] \in {"whole", "marked"}
                      /\ \A f \in Files : integrity[f] = content[f]
                      /\ Verifies <=> conduct = "within"
    BY DEF SoundBundleVerifies
  <2>1. /\ content["manifest"] \in {"whole", "marked"} /\ TracesWhole
        /\ \A f \in Files : integrity[f] = content[f]
    BY DEF BundleInv, SoundInv, Holds, Marking, Idle, Files
  <2>2. QED
    BY <2>1, WholeVerifies DEF TracesWhole, Files
<1>2. QED
  BY <1>1, BundleInvariant, PTL

\* A sealed bundle whose files or whose integrity.sha256 were edited, cut or
\* lost verifies, before a command writes it again, only where the lines of the
\* damaged files are lost.
THEOREM DamageIsDetectedCorrect == Spec => []DamageIsDetected
<1>1. BundleInv => DamageIsDetected
  <2> SUFFICES ASSUME BundleInv, Idle, health = "damaged", Verifies
               PROVE  /\ \E f \in Files : integrity[f] = "unlisted"
                      /\ \A f \in Files : \/ integrity[f] = "unlisted"
                                          \/ content[f] \in {"whole", "marked"}
    BY DEF DamageIsDetected
  <2>1. /\ integrity # NoFile /\ ~Marking
        /\ \A f \in Files : integrity[f] \in {"whole", "marked", "garbled", "unlisted"}
    BY ListedWas DEF Verifies
  <2>2. \A f \in Files :
          /\ integrity[f] # "unlisted" => integrity[f] = content[f]
          /\ content[f] \in Contents \cup {"absent"}
    BY DEF Verifies, BundleInv, BundleTypeOK, DiskTypeOK, CommandTypeOK
  <2>3. \A f \in Files : \/ integrity[f] = "unlisted"
                         \/ content[f] \in {"whole", "marked"}
    BY <2>1, <2>2 DEF Contents
  <2>4. \/ \E f \in Files : integrity[f] \in {"garbled", "unlisted"}
        \/ \E f \in Files : content[f] \notin {"whole", "marked"}
    BY <2>1 DEF BundleInv, DamagedInv, Holds
  <2>5. \A f \in Files : integrity[f] # "garbled"
    BY <2>2 DEF Contents
  <2>6. QED
    BY <2>3, <2>4, <2>5
<1>2. QED
  BY <1>1, BundleInvariant, PTL

\* bundle seal and --record report success only for a run within its
\* declaration, whose bundle they have written and listed in full or, if they
\* sign it, spoiled while they marked it; --record only after a second run that
\* was the same.
THEOREM SuccessMeansSoundCorrect == Spec => []SuccessMeansSound
<1>1. BundleInv => SuccessMeansSound
  BY DEF BundleInv
<1>2. QED
  BY <1>1, BundleInvariant, PTL
=============================================================================
