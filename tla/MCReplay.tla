------------------------------ MODULE MCReplay ------------------------------
(***************************************************************************)
(* Small instances of Replay: a canonical declaration of a root and one of *)
(* a name, a root that a task has written with a slash, an address, and no *)
(* declaration at all.                                                     *)
(***************************************************************************)
EXTENDS Replay

site == <<"example", "org">>
api == <<"api", "example", "org">>
\* The address ::1.
loopback == Address(":", "other")

MCPaths == {<<"app">>, <<"app", "f">>, <<"apple">>}
MCRequests == {Request("https", FALSE, Name(api), "web"),
               Request("none", FALSE, Name(api), "other"),
               Request("ftp", FALSE, Name(site), "none"),
               Request("none", FALSE, Name(site), "text"),
               Request("http", TRUE, loopback, "web"),
               Bare(loopback)}

Declaration(roots, hosts) ==
  [declared |-> TRUE, roots |-> roots, hosts |-> hosts]
MCSandboxes ==
  {Declaration({Root("plain", <<"app">>)}, {}),
   Declaration({}, {Below(Name(site))}),
   Declaration({Root("other", <<"app", "f">>)}, {}),
   Declaration({}, {Exactly(loopback)}),
   [declared |-> FALSE, roots |-> {}, hosts |-> {}]}

MCCalls == {[seen |-> "s", llm |-> "none", action |-> "a", result |-> "x"],
            [seen |-> "s", llm |-> "m", action |-> "a", result |-> "x"],
            [seen |-> "t", llm |-> "none", action |-> "a", result |-> "y"]}
End(success, termination, failure) ==
  [success |-> success, termination |-> termination, failure |-> failure]
MCEnds == {End(TRUE, "success", "none"),
           End(FALSE, "action_exception", "invalid_action"),
           End(FALSE, "tool_calls_exhausted", "budget_exhausted")}
=============================================================================
