------------------------------ MODULE MCInvocation ------------------------------
(***************************************************************************)
(* A small instance of Invocation: a builtin task; a plugin with that task *)
(* and a second version of it, and with one of its own without a version   *)
(* whose loader fails; and a plugin whose loader calls its tenth version   *)
(* the first.                                                              *)
(***************************************************************************)
EXTENDS Invocation

InDir(id, version, dir) ==
  [id |-> id, version |-> version, suite |-> "s", dir |-> dir, loader |-> "none"]
Loaded(id, version, returns) ==
  [id |-> id, version |-> version, suite |-> "s", dir |-> NoDir,
   loader |-> "returns", returns |-> returns]
Failing(id, version) ==
  [id |-> id, version |-> version, suite |-> "s", dir |-> NoDir, loader |-> "fails"]

MCBuiltin == <<InDir("t", 1, "own")>>
MCPlugins == <<<<Loaded("t", 1, <<>>), InDir("t", 2, "plugged"), Failing("u", 0)>>,
               <<Loaded("t", 10, [version |-> 1])>>>>
MCFrozen == {[id |-> "t", version |-> 1], [id |-> "t", version |-> 10]}

Whole(version) ==
  [exists |-> TRUE, manifest |-> "stated",
   says |-> [id |-> "t", version |-> version, suite |-> "s"],
   files |-> TRUE, actions |-> "execute", others |-> TRUE]
MCContents ==
  [dir \in {"own", "plugged"} |->
     IF dir = "own"
       THEN {Whole(0), Whole(1), [Whole(1) EXCEPT !.manifest = "invalid"],
             [Whole(1) EXCEPT !.actions = "broken"]}
       ELSE {Whole(1), Whole(2), [Whole(2) EXCEPT !.manifest = "none"]}]

Ask(agent, id, version, seed) ==
  [agent |-> agent, task |-> [id |-> id, version |-> version], seed |-> seed]
Nothing == [agent |-> None, task |-> NoTask, seed |-> NoSeed]
MCOptions == {Nothing, Ask("a", "t", Latest, 1)}
MCEpisodes == {Nothing, Ask("b", "t", 1, 0)}
MCPlaces == [agent \in {"a", "b", "c"} |-> IF agent = "c" THEN {} ELSE {"cwd"}]
MCConfigs ==
  {[defaults |-> [agent |-> "a", task |-> [id |-> "t", version |-> Latest], seed |-> 2],
    blocks |-> [agent \in {"a"} |-> [seed |-> NoSeed]]],
   [defaults |-> Nothing, blocks |-> <<>>]}
=============================================================================
