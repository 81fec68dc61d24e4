------------------------------- MODULE Invocation -------------------------------
(***************************************************************************)
(* What a command runs: the options, the episode config of --from-config   *)
(* (runner/episode_config.py) and agent-bench.toml (config.py) give an     *)
(* agent, a task and a seed, the registry gives the task, and the artifact *)
(* that comes of it may be replayed later (cli.py, _cmd_run), when the     *)
(* files, the plugins and the configuration have changed.  Beside the      *)
(* commands a web server runs episodes with the registry it has once read. *)
(***************************************************************************)
EXTENDS Registry

CONSTANTS Agents,    \* paths of agents
          Places,    \* where there is a file of each of them
          Options,   \* [agent, task, seed] on a command line, None if not given
          Episodes,  \* [agent, task, seed] of episode configs
          Configs,   \* agent-bench.toml: defaults, and a block for each agent
          MaxRuns    \* bound on the artifacts

None == "none"
NoSeed == 99
NoTask == [id |-> None, version |-> Latest]

ASSUME InvocationAssumption == MaxRuns \in Nat

VARIABLES cache,   \* the registry of the server
          config,  \* agent-bench.toml
          runs,    \* the artifacts
          checked  \* what a command that checks tasks has found, or None

invocationVars == <<disk, installed, cache, config, runs, checked>>

InvocationInit ==
  /\ RegistryInit
  /\ cache = NotRead
  /\ config \in Configs
  /\ runs = <<>>
  /\ checked = None

-----------------------------------------------------------------------------
Or(value, missing, other) == IF value = missing THEN other ELSE value

\* _get_value: what the block of the agent holds, even if it is of no use,
\* or else the default.
Scoped(file, agent, key) ==
  IF agent \in DOMAIN file.blocks /\ key \in DOMAIN file.blocks[agent]
    THEN file.blocks[agent][key] ELSE file.defaults[key]

\* _cmd_run takes from the episode config what no option gives,
WithEpisode(options, episode) ==
  [agent |-> Or(options.agent, None, episode.agent),
   task |-> Or(options.task, NoTask, episode.task),
   seed |-> Or(options.seed, NoSeed, episode.seed)]

\* and _resolve_run_inputs from agent-bench.toml what is still open.
Resolved(given, file) ==
  LET agent == Or(given.agent, None, file.defaults.agent)
      task == Or(given.task, NoTask,
                 Or(Scoped(file, agent, "task"), NoTask, file.defaults.task))
      seed == Or(given.seed, NoSeed, Scoped(file, agent, "seed"))
  IN [agent |-> agent, task |-> task, seed |-> Or(seed, NoSeed, 0)]

\* load_agent looks in the working directory, in the package and among the
\* packaged agents.
Loadable(agent) == agent \in Agents /\ Places[agent] # {}

\* Of the task that ran, the artifact keeps history: its entry, and whether the
\* entry's loader has given it another name.
History(registry, ref) ==
  LET found == Found(registry, ref)
  IN [entry |-> found, renamed |-> Named(registry[found]) # found]

\* Mutant: the artifact names the task as the command did.
ArtifactAsAsked(registry, inputs) ==
  [agent |-> inputs.agent, task |-> inputs.task, seed |-> inputs.seed,
   ran |-> History(registry, inputs.task)]

\* The artifact names the task as it has been loaded.
Artifact(registry, inputs) ==
  [agent |-> inputs.agent, task |-> Named(registry[Found(registry, inputs.task)]),
   seed |-> inputs.seed, ran |-> History(registry, inputs.task)]

Runs(registry, inputs) == Loads(registry, inputs.task) /\ Loadable(inputs.agent)

\* How a run came about: which run it replays with which command, whether with
\* overrides, and whether the user was warned.
Plain == [of |-> 0, by |-> "run", given |-> FALSE, warned |-> FALSE]

Store(artifact, how) == runs' = Append(runs, [artifact |-> artifact, how |-> how])

\* `run` with or without --from-config, in a process of its own.
Run(options) ==
  /\ Len(runs) < MaxRuns
  /\ \E episode \in Episodes :
       LET inputs == Resolved(WithEpisode(options, episode), config)
       IN /\ Runs(ReadRegistry, inputs)
          /\ Store(Artifact(ReadRegistry, inputs), Plain)
  /\ UNCHANGED <<disk, installed, cache, config, checked>>

\* `run --replay` and `run --replay-bundle`, of which only the first warns.
Replay(i, options) ==
  /\ Len(runs) < MaxRuns
  /\ \E episode \in Episodes, by \in {"replay", "bundle"} :
       LET given == WithEpisode(options, episode)
           inputs == [agent |-> Or(given.agent, None, runs[i].artifact.agent),
                      task |-> Or(given.task, NoTask, runs[i].artifact.task),
                      seed |-> Or(given.seed, NoSeed, runs[i].artifact.seed)]
           differs == \/ inputs.agent # runs[i].artifact.agent
                      \/ inputs.task # runs[i].artifact.task
                      \/ inputs.seed # runs[i].artifact.seed
       IN /\ Runs(ReadRegistry, inputs)
          /\ Store(Artifact(ReadRegistry, inputs),
                   [of |-> i, by |-> by,
                    given |-> given # [agent |-> None, task |-> NoTask, seed |-> NoSeed],
                    warned |-> by = "replay" /\ differs])
  /\ UNCHANGED <<disk, installed, cache, config, checked>>

\* POST /run: the registry is read if it has not been; a replay takes from the
\* artifact what the form leaves out, and warns of nothing.
Serve(inputs, how) ==
  /\ Len(runs) < MaxRuns
  /\ cache' = IF cache = NotRead THEN ReadRegistry ELSE cache
  /\ Runs(cache', inputs)
  /\ Store(Artifact(cache', inputs), how)
  /\ UNCHANGED <<disk, installed, config, checked>>

ServeRun(form) ==
  /\ form.agent # None /\ form.task # NoTask
  /\ Serve([form EXCEPT !.seed = Or(@, NoSeed, 0)], Plain)

ServeReplay(i, form) ==
  Serve([agent |-> Or(form.agent, None, runs[i].artifact.agent),
         task |-> Or(form.task, NoTask, runs[i].artifact.task),
         seed |-> Or(form.seed, NoSeed, runs[i].artifact.seed)],
        [Plain EXCEPT !.of = i, !.by = "server",
                      !.given = form # [agent |-> None, task |-> NoTask, seed |-> NoSeed]])

\* `tasks validate --registry` and `tasks quality-gate`.
CheckTasks ==
  /\ checked' = CASE GateOpens(ReadRegistry) -> "gate"
                  [] ~GateOpens(ReadRegistry) /\ ValidRegistry(ReadRegistry) -> "valid"
                  [] ~ValidRegistry(ReadRegistry) -> "invalid"
  /\ UNCHANGED <<disk, installed, cache, config, runs>>

\* Files, plugins and configuration change; the server starts again.
Change ==
  /\ \/ (\E dir \in Dirs : Edit(dir)) /\ UNCHANGED <<cache, config>>
     \/ (\E plugin \in DOMAIN Plugins : Install(plugin)) /\ UNCHANGED <<cache, config>>
     \/ config' \in Configs \ {config} /\ UNCHANGED <<disk, installed, cache>>
     \/ cache' = NotRead /\ UNCHANGED <<disk, installed, config>>
  /\ checked' = None
  /\ UNCHANGED runs

InvocationNext ==
  \/ \E options \in Options : Run(options)
  \/ \E i \in DOMAIN runs, options \in Options : Replay(i, options)
  \/ \E form \in Options : ServeRun(form)
  \/ \E i \in DOMAIN runs, form \in Options : ServeReplay(i, form)
  \/ CheckTasks
  \/ Change

InvocationSpec == InvocationInit /\ [][InvocationNext]_invocationVars

-----------------------------------------------------------------------------
\* A replay without overrides runs the recorded agent, seed, task and version,
\* whatever versions were installed and defaults changed since; one that runs
\* something else has been told to, and `--replay` has said so.  Only where a
\* plugin's loader has named the task otherwise than its entry is, the replay
\* runs the task of that name (cli.py:404-424, runner.py:279-291, loader.py:64-71).
ReplayRepeats ==
  \A i \in DOMAIN runs : runs[i].how.of # 0 =>
    LET run == runs[i].artifact
        how == runs[i].how
        origin == runs[how.of].artifact
        same == /\ run.agent = origin.agent /\ run.seed = origin.seed
                /\ run.ran.entry = IF origin.ran.renamed THEN origin.task
                                                        ELSE origin.ran.entry
    IN /\ ~how.given => same
       /\ how.by = "replay" /\ ~same => how.warned

\* A plugin that cannot be read takes nothing away: the registry can be read
\* whenever the builtin one can, with all its tasks, and each of them is the
\* builtin one unless a plugin has a task of the same reference
\* (registry.py:263-324).
PluginsAreContained ==
  (\A i \in DOMAIN Builtin : Enriches(Builtin[i])) =>
    /\ ReadRegistry # NotRead
    /\ \A i \in DOMAIN Builtin :
         /\ Ref(Builtin[i]) \in DOMAIN ReadRegistry
         /\ \/ ReadRegistry[Ref(Builtin[i])] = Builtin[i]
            \/ \E plugin \in installed : \E j \in DOMAIN Plugins[plugin] :
                 Ref(Plugins[plugin][j]) = Ref(Builtin[i])

\* While nothing is edited, every task of a registry found valid, and every
\* frozen task behind an open gate, can be loaded if what the checks do not run
\* works: the plugin's loader if it has one, and its modules if not, of which
\* those with the actions of the frozen ones are linted
\* (registry.py:344-418, cli.py:1220-1271).
CheckedTasksLoad ==
  LET Imports(ref) == LET entry == ReadRegistry[ref]
                      IN /\ entry.loader # "fails"
                         /\ entry.loader = "none" /\ entry.dir # NoDir =>
                              disk[entry.dir].others
      Acts(ref) == LET entry == ReadRegistry[ref]
                   IN entry.loader = "none" /\ entry.dir # NoDir =>
                        disk[entry.dir].actions # "broken"
  IN /\ checked \in {"valid", "gate"} =>
          \A ref \in DOMAIN ReadRegistry :
            Imports(ref) /\ Acts(ref) => Loads(ReadRegistry, ref)
     /\ checked = "gate" =>
          \A ref \in Frozen : ref \in DOMAIN ReadRegistry
                                /\ (Imports(ref) => Loads(ReadRegistry, ref))

-----------------------------------------------------------------------------
\* The inductive invariant behind the theorems of InvocationProofs.  Whatever
\* registry is used holds entries only, each under its reference; an artifact
\* names the version that ran unless a loader has named it, and an earlier
\* artifact if it is a replay; what the checks of tasks have found is still so.
Typed(registry) ==
  \A ref \in DOMAIN registry : registry[ref] \in Entries /\ Ref(registry[ref]) = ref

RegistriesOK ==
  /\ installed \subseteq DOMAIN Plugins
  /\ cache # NotRead => Typed(cache)

RunsOK ==
  /\ runs \in Seq({runs[i] : i \in DOMAIN runs})
  /\ \A i \in DOMAIN runs :
       LET artifact == runs[i].artifact
       IN /\ artifact.task = [id |-> artifact.task.id, version |-> artifact.task.version]
          /\ artifact.task.version # Latest
          /\ ~artifact.ran.renamed => artifact.task = artifact.ran.entry
          /\ runs[i].how.of \in 0 .. (i - 1)

CheckedOK ==
  /\ checked = "gate" => GateOpens(ReadRegistry)
  /\ checked \in {"valid", "gate"} => ValidRegistry(ReadRegistry)

InvocationInv == RegistriesOK /\ RunsOK /\ ReplayRepeats /\ CheckedOK
=============================================================================
