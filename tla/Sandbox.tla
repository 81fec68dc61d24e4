------------------------------ MODULE Sandbox ------------------------------
(***************************************************************************)
(* What a sandbox declaration permits: the checks GuardedEnv makes when an *)
(* action does IO (agent_bench/env/environment.py), and those that bundles *)
(* and replays make again on the audit it left.                            *)
(*                                                                         *)
(* A path is the sequence of its names.  A root is a path with the form it *)
(* was written in: "plain" as normalize_path returns it, or "other" with a *)
(* trailing or a missing leading slash.  A host name is the sequence of    *)
(* its labels, with what follows its last colon: nothing in a name, in an  *)
(* IPv6 address what a port would be: 80 or 443 ("web"), another number    *)
(* ("other") or no number ("text").                                        *)
(***************************************************************************)
EXTENDS Sequences, SequencesExt

Root(form, path) == [form |-> form, path |-> path]

\* normalize_path and _normalize_fs_root.
NormalizeRoot(root) == [root EXCEPT !.form = "plain"]

\* GuardedEnv normalises its roots, then compares.
FsAllowed(roots, path) ==
  \E root \in roots : IsPrefix(NormalizeRoot(root).path, path)

\* Mutant: a root is not within itself.
FsAuditAllowedInside(roots, path) ==
  \E root \in roots : root.form = "plain" /\ IsStrictPrefix(root.path, path)

\* verify_bundle and check_replay compare with the roots as they are written.
FsAuditAllowed(roots, path) ==
  \E root \in roots : root.form = "plain" /\ IsPrefix(root.path, path)

-----------------------------------------------------------------------------
Name(labels) == [labels |-> labels, tail |-> "none"]
Address(head, tail) == [labels |-> <<head>>, tail |-> tail]

\* What an action asks for, as text: scheme, host in brackets or bare, port.
Request(scheme, bracketed, name, port) ==
  [scheme |-> scheme, bracketed |-> bracketed, name |-> name, port |-> port]
Bare(name) == Request("none", FALSE, name, "none")

\* A bare address without a port loses what follows its last colon to it.
LosesTail(r) == ~r.bracketed /\ r.name.tail # "none" /\ r.port = "none"

\* NetworkGuard._extract_host.
ExtractName(r) == IF LosesTail(r) THEN [r.name EXCEPT !.tail = "none"] ELSE r.name
ExtractPort(r) ==
  LET port == IF LosesTail(r) THEN r.name.tail ELSE r.port
  IN IF port = "text" THEN "none" ELSE port

\* Entries of network_hosts: a name, or all names below one.
Exactly(name) == [wild |-> FALSE, name |-> name]
Below(name) == [wild |-> TRUE, name |-> name]

\* NetworkGuard._match.
Matches(entry, name) ==
  IF entry.wild THEN IsStrictSuffix(entry.name.labels, name.labels)
                ELSE name = entry.name

\* NetworkGuard.check: inspect, then allowed.
NetAllowed(hosts, r) ==
  /\ r.scheme \in {"none", "http", "https"}
  /\ ExtractPort(r) \in {"none", "web"}
  /\ \E entry \in hosts : Matches(entry, ExtractName(r))
=============================================================================
