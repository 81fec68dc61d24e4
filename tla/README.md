# TLA+ models and proofs for TraceCore

TraceCore runs an *agent* against a *task* as a deterministic, budgeted episode
and turns the episode into an artifact that can be stored, sealed into a bundle,
replayed and compared. This directory holds TLA+ modules of that machinery,
the TLC runs that check them on small instances, and theorems that TLAPS checks
for every instance. `PROJECT.json` is the index: components, runs, the source
lines of every definition, findings, hazards and theorems.

    tlc -workers 2 -config EpisodeRunner.cfg MCEpisodeRunner.tla
    tlapm EpisodeRunnerProofs.tla

## 1. Inventory

| Component (under `agent_bench/`) | State it keeps | Operations | Interacts with | Model |
| --- | --- | --- | --- | --- |
| `runner/runner.py`, `budgets.py`, `failures.py`, `results.py` | budget left, trace, last result, artifact | `run` | environment, task, agent | `EpisodeRunner`, `BoundedEpisode` |
| `env/environment.py`, `filesystem.py`, `hidden_state.py` | files, seen paths, audit buffer, allow-lists | guarded IO, `begin_step`, `consume_audit` | runner, tasks | audit: `EpisodeRunner`; matching: `Sandbox` |
| `runner/isolation.py` | child process, queue | `run_isolated`, `_worker` | CLI, batch | `IsolatedRun`, `TimedCall` |
| `runner/batch.py` | futures, workers, results | `run_batch`, `_run_job` | isolation, runner, run log | `BatchPool` |
| `runner/bundle.py` | bundle directories | write, sign, verify | CLI, replay | `BundleStore` |
| `runner/runlog.py` | `.agent_bench/runs` | persist, load, iterate | CLI, batch, web | `SessionStore` (persist, load), `RunLog` (iterate) |
| `session.py` | `.agent_bench/session.json` | load, update after run or bundle, save | CLI | `SessionStore` |
| `runner/replay.py` | none (pure) | `check_replay`, `check_strict`, `check_record` | bundle, CLI | `Replay`, `Sandbox` |
| `runner/baseline.py` | none (pure over runs) | `diff_runs`; baselines | run log, CLI, web | `Replay` (diff), `RunLog` (baselines) |
| `runner/metrics.py` | none (pure over runs) | rates and percentiles, recovery times | run log, CLI, web | `RunLog` |
| `runner/migration.py`, `spec_check.py` | rewrites artifacts | migrate payload, file, directory; compliance | run log, CLI | `Migration`, `RunLog`, `Archive` |
| `leaderboard.py` | submissions, `index.json` | ingest, list | bundles, CLI, web | `Leaderboard` |
| `tasks/registry.py`, `loader.py` | registry tables, one of them cached for a process | discover, merge, look up, load, validate | runner, CLI, web | `Registry` |
| `runner/episode_config.py`, `config.py` | none | precedence of inputs | CLI | `Invocation` |
| `cli.py` | none of its own | `run`, `verify`, `bundle ...`, `runs ...`, `diff`, `tasks ...`, `leaderboard ...`, `ledger ...` | everything | run, replay, lint, quality gate: `Invocation`, `Registry`; seal, sign, record: `BundleStore`; verify, migrate: `Archive`; submit: `Leaderboard` |
| `tasks/`: four services | sessions, quotas, virtual clock | the API and the actions before it, validators | runner | `RateServices` |
| `tasks/`: files, stream, dice | files, cursor, rolls, output | `setup`, actions, `validate` | runner | `FileTasks` |
| `agents/` | what an agent remembers | `reset`, `observe`, `act` | runner | `RateAgents`, `FileAgents`, `RoleAgents` |
| `agents/multi_agent_orchestrator.py` | active role, board | handoff policy, contracts | agents | `RoleAgents` |
| `pairings.py` | a table | known-good pairs | CLI | `TaskRuns` |
| `webui/app.py` | none of its own | HTTP routes, `POST /run` | runner, run log, registry | its long-lived registry: `Invocation` |
| `ledger/` | registry file | sign and verify bundles and registry | CLI | what a bundle's signature covers: `BundleStore` |
| `integrations/llm_shims.py`, `telemetry/`, `judging/` | token and call budget, queue | complete, record | generated adapters | not modelled |
| `openclaw.py`, `interactive.py`, `maintainer.py`, adapter generators, `export_otlp.py` | none | text generation, dialogue, subprocesses | | not modelled |
| `scripts/`, `incubation/`, `examples/` | | | use the CLI | not modelled |

**What is hard.** Inside one episode: two budgets charged at different points of a
step, ten places that return with their own arithmetic, an audit buffer that must
not leak between steps, exceptions in the middle of a step. Around it: a child
process with a timeout that races its answer, workers that die, futures that fail.
On disk: files written in place by commands that overlap and may die, digests and
signatures that refer to each other, artifacts that are rewritten while they are
read, reports over runs that overlap. In a process: a registry that is read once
while the disk goes on changing, plugins that fail half way or whose loaders fail
later. Inside a task: protocols of several calls with a clock, retries and restarts,
and agents that must get through them in whatever order things are found. The list
with lines is `hazards` in `PROJECT.json`; it drives the properties below.

**What makes each part correct.** Runner: nothing is executed beyond the budget, and
the artifact can be trusted: usage, trace, audit and verdict say what happened.
Isolation: an answer is taken or a timeout reported, never both, and nothing runs
on. Batch: each job is accounted for once and passes only if its episode did.
Bundles: a sealed bundle of a run that kept within its declaration verifies, a
damaged one does not. Session: the pointers name what is there and what they claim
it is. Replay: what one check accepts no other refuses, and a repetition is
accepted. Migration: a fixed point that keeps the verdict. Reports: they agree with
each other and with the runs. Leaderboard: the index lists what was ingested.
Registry: a plugin takes nothing away, a checked task loads, a replay finds its task
again. Tasks: success is earned by the protocol or by reading what the answer is
spread over, and the reference agents earn it.

## 2. Modules

| Module | What it is |
| --- | --- |
| `BoundedEpisode` | what callers of `run` are promised: at most `limit` actions, one verdict or an abort, and an end |
| `EpisodeRunner` | the loop of `run` with budgets, audit and trace; implements `BoundedEpisode` |
| `EpisodeRunnerProofs` | type correctness, six safety theorems, the refinement, a measure that every step decreases |
| `TimedCall` | what callers of `run_isolated` are promised: no verdict while the episode is active, only verdicts it gave |
| `IsolatedRun` | caller, child, queue and timeout of any number of calls; implements `TimedCall` |
| `BatchPool` | `run_batch` over a process pool; extends `IsolatedRun`, whose calls its workers make |
| `BatchPoolProofs` | of `IsolatedRun`: type correctness, two safety theorems, the refinement; of `BatchPool`: type correctness and three safety theorems |
| `BundleStore` | one bundle directory under seal, sign, record, crashes and damage |
| `SessionStore` | artifacts and session pointer shared by overlapping commands |
| `Archive` | verify and migrate beside the commands of `SessionStore`, which it extends |
| `Leaderboard` | submissions and `index.json`; extends `Archive` |
| `LeaderboardProofs` | theorems of `SessionStore` (type correctness, three safety theorems), of `Archive` and `Leaderboard`, and of the session beside their tools |
| `Migration` | migration of an artifact and its compliance, as operators |
| `RunLog` | runs that overlap, the log in its order, baselines and metrics; extends `Migration` |
| `RunLogProofs` | a migration settles every artifact that can be in the log |
| `Sandbox` | what a sandbox declaration permits, as the environment and as the checks decide it |
| `Replay` | two runs, the bundle between them, the checks of `replay.py` and the diff; extends `Sandbox` |
| `BundleProofs` | of `Replay`: type correctness and the four properties of the checks and the diff; of `BundleStore`: its three properties |
| `Registry` | tasks on disk, plugins, the registry and the checks of tasks |
| `Invocation` | what a command resolves, runs, replays and serves; extends `Registry` |
| `InvocationProofs` | the three properties of `Invocation`, for any entries, plugins and directories |
| `RateServices` | the four services, their actions and validators |
| `RateAgents` | episodes of these tasks under any agent and under the reference agents; extends `RateServices` |
| `RateAgentsProofs` | type correctness and two safety theorems |
| `FileTasks` | the other twelve task instances: files, stream, dice |
| `FileAgents`, `RoleAgents` | the agents of these tasks, alone and as roles; each extends the one before |
| `TaskRuns` | episodes of these tasks under any agent and under each reference agent; extends `RoleAgents` |
| `TaskRunsProofs` | both safety properties of `TaskRuns` |
| `MC*` | instances for TLC |

Definitions whose comment begins with *Mutant* are not used by any
specification. Each is a definition of the module with a plausible bug; putting
it in place of the correct one makes a property fail, which shows that the
property can. `PROJECT.json` pairs them.

### EpisodeRunner

`pc` says where `run` is: `setup`, `top` (the loop head), `agent` (observe and
act), `exec` (the task's action), `validate`, `done`, `raised`. One action
stands for each path of the loop body between two calls into foreign code, and
one for each return.

| Code (`runner.py`) | Actions |
| --- | --- |
| 247-307 set-up | `Setup`, `Propagate` |
| 309-355 step budget empty | `StepsExhausted` |
| 357-394 observe, act, violation | `BeginStep`, `AgentViolation` |
| 396-440 refused action | `InvalidAction` |
| 442-463 tool budget empty | `ToolCallsExhausted` |
| 465-471 and `GuardedEnv` | `Dispatch`, `GuardedIo`, `ConsumeAudit` |
| 472-559 action fails or raises | `ActionFails`, `ActionViolates`, `ActionRaises`, each with `ActionEnds` |
| 561-593 action returns | `ActionReturns` |
| 618-669 validator | `ValidatorAccepts`, `ValidatorRejects`, `ValidatorContinues` |

Agent, task and validator are foreign: each call may answer anything the runner
distinguishes, or raise. `GuardedIo` is enabled in set-up (258) and in the
validator (618) as in an action: all three use the same environment with the same
buffer, which records only between `begin_step` and `consume_audit`. `touched` and
`performed` are history, of the call at hand and of the actions that have ended. Observations, results and entries carry only what the
properties tell apart. Two branches are absent because no state reaches them:
`timed_out()` at 310 (`Budgets` is built without `timeout_s`, 268) and
`tool_calls_remaining < 0` at 595 (a call is made only while one is left, 442).

### IsolatedRun and TimedCall

Each call has a caller (`run_isolated`), a child (`_worker`), the queue's pipe
and a flag for a kill on its way. The queue is external and modelled as CPython
behaves: `put` leaves the writing to a feeder thread, `get(timeout)` polls with
the timeout but reads a message, once begun, without one. A large message is
complete only while it is being read. The child may answer, raise, exit without
answering, hang, or die at any point; the caller may be interrupted or killed.

### BatchPool

Extends `IsolatedRun` with the main process, the futures and the workers. Jobs
in `Timed` run in `run_isolated`, the others in the worker itself
(`batch.py:63-66`). The executor is external: jobs start in submission order; a
dead worker is noticed after a while, then unfinished futures fail, the other
workers are terminated and `submit` raises.

### BundleStore

`command` is the last command and `step` what it does next (`Follows`); each
content file is emptied (`OpenFile`, `OpenMark`) and then filled (`FillFile`).
`Crash` may come anywhere, and a write may fail: `WriteRaises` is a failure that
ends the command with an error, `MarkFails` one that `sign_bundle` swallows after
it has signed (`bundle.py:211-221`), which ends in success. The content of a file
is its class: whole, marked as signed, edited, edited so that the checks of
declaration and audit refuse it, empty, torn; a digest is the class it was
computed from, a line of `integrity.sha256` may also be lost or garbled.
`conduct` is how the recorded run kept within its declaration, which is what
`verify_bundle` looks at beside the digests (`Accepted`: 259-323). Between
commands any of the five files is edited, cut or lost (`Damage`,
`DamageListing`, `DamageSignature`), `MaxDamage` times. `signature` keeps the
manifest's line of the integrity file that was signed: it is the line that
signing changes.

### SessionStore, Archive, Leaderboard

Commands (runs and seals) execute concurrently, each once. Artifacts and
`session.json` are emptied, then filled; two writers of `session.json` may
overlay each other. `warned` are the runs whose `persist_run` failed, after
which the CLI goes on.

`Archive` adds tools beside them, each of which is given once and becomes a
verify or a migration. Verify (`VerifyResolve`, `VerifyLoad`, `VerifyBundle`)
reads `session.json` twice, once for the run and once for the bundle, as
`cli.py:184` does; that the two belong to different runs is what
`docs/operations/record_mode.md:72-74` means by it (it compares the latest run
with the latest bundle), and the comparison itself is `Replay`'s. A migration takes the files one by one: it reads, and if
anything changes empties the file (`MigrateOpen`) and fills it; a file that does
not parse becomes an error of its report and it goes on. `OldRuns` are the
artifacts an earlier version has left. `Leaderboard` adds ingests: the submission
file, then a read of `index.json`, then its rewriting. An ingest that meets a
torn index fails. `MaxDeaths` bounds the commands that die or fail;
`calm` records whether ingests ever overlapped or failed.

### Migration and RunLog

An artifact is its verdict, the fields that it and its entries have, and whether
its hash is of its content: `migrate_run_artifact` and `check_spec_compliance`
tell nothing else apart. A failure type may be none (`NoFailure`) or not be there
(`Absent`): the check wants the key in every artifact, a migration adds it to
failures only. `RunLog` has runs in progress, each with its start, and
a log in the order of the files' modification times, which a migration changes.
The reports are operators on the log: `IterRuns` with its filter, `Capped` the
limit (before or after grouping, as the code does in each place), `Metrics`,
`Baseline`, `Recovery`. Rates and means are left as the counts they are quotients
of. The clock ticks at each event, so no two runs end at once.

### Replay and Sandbox

The two runs are built step by step from what `GuardedEnv` lets pass
(`Permitted`), which an action may do several times in one step; what the agent
saw and logged (`llm_trace`), actions, results and ends are arbitrary. `close`
says how the last step was charged: as a step and a tool call; as a step only, by
an action that was refused, raised or violated the sandbox; or without an entry,
by a call that met an empty tool budget. A validator may give the same reasons
for a charged step, so `StepsUsed` and `ToolCallsUsed` follow from `close` and
not from the reason. The checks are operators that say whether the code reports
no error: an error that suppresses a later comparison (`if not errors`) does not
change that. A bundle (`Bundle`) holds the declaration, the end, both usages and
the trace. `diff_runs` compares the normalised entries position by position,
observation and log included, with the summary fields beside. A path is its sequence of names and a host its sequence of labels, with
the distinctions the code's string handling makes: roots that are not normalised,
brackets, schemes, ports, and what follows the last colon of an IPv6 address.

### Registry and Invocation

`disk` is what each task directory holds: its files, its manifest with id and
version, and what keeps its modules from being imported. `EntriesOf` takes a
plugin's entries up to the first that raises. `Sources` are the places that the
registry is read from, the program's own before those of the plugins; `Merged`
takes of the places with the same reference the last one, as a dictionary that is
filled in this order does. A reference is a task and a version; 0 is the version
of an entry that states none, and `Latest` that of a request that names none.
`Matching` and `Found` look up. `Edit` and `Install` change the world between
commands. An entry of a plugin may have a loader, which returns a task or fails
(raises, or returns no dict); what it returns may have an id and a version of its
own, and `Named` is the reference the task then goes by (`setdefault`,
`loader.py:69-71`). A command reads the registry anew; the server's `cache` is read once.
`Resolved` is the precedence of `_cmd_run`: options, episode config, the agent's
block, the defaults. `Replay` resolves the artifact's reference again. A run is
its artifact (agent, seed, the reference of the loaded task, and as history the
entry and whether its loader renamed it) and how it came about. A plugin that
raises `SystemExit` ends the process (`registry.py:312` catches `Exception`), and
a loader whose dict lacks what an episode needs makes `run` raise; of either
nothing is left that the properties could speak of.

### RateServices and RateAgents

A handshake id is the clock at its request, and the phrase is the id. Each
check of `call` is one line of the operator for its endpoint, in the code's
order, which differs between the services; the access review has a ticket, a
review time, one hiccup and a confirmation. `Act` is what the runner does around
an action: it charges a tool call and asks the validator. The reference agents
(rate limit, chain, planner and the rules of the AutoGen team) are written as
what they learn from the last result and what they do next; the planner also
keeps its plan. The step budgets of these tasks exceed their tool budgets and are
left out; an agent that sends random ids or guesses the secret is outside the
model.

### FileTasks, FileAgents, RoleAgents, TaskRuns

A file is the sequence of its lines with a value; a line says where its key
stands (at the start, in a comment, inside text, an item of a list), which is
what the agents' parsers tell apart. A task is its files, its key and its answer,
an answer being the sequence of the values it is joined from. `Perform` is an
action with the runner around it, errors and exceptions included; the stream is
`pages` pages with the critical one anywhere. An agent is an operator from its
attributes and the last observation to new attributes and an action. A role that
returns an action its contract does not allow raises, which ends the episode.
The agent `any` says nothing that it has not been given.

## 3. Runs

Deadlock checking is off where the system really stops (an episode, a call, a
batch, a log, the last command). BundleStore's and Invocation's commands never
run out, so it is on there.

| Run | Instance | What it shows |
| --- | --- | --- |
| `episode` | step budgets 0, 1, 3; tool budgets 0-2; two IO in set-up, each action and each validator, two targets, fairness | usage, trace, chain of observations, audit, verdict agree; nothing beyond the budget; the loop implements `BoundedEpisode`, its end included |
| `isolated` | a call with a timeout and one without, fairness | answers, exits, kills, timeouts in every order: refinement of `TimedCall`; timed calls end, no process is left, complete answers are taken |
| `batch` | one job with a timeout, two without, two workers, strict, fairness | accounting, verdicts and bounded parallelism with workers dying; the batch ends |
| `bundle` | one directory, any number of commands, crashes and failing writes, two damages | a bundle written in full verifies exactly if its run kept within its declaration; a damaged one passes only for files whose lines `integrity.sha256` has lost; success hides one failure only |
| `replay` | two runs of up to two steps and two accesses (`MaxIo`), three calls, three ends, five declarations, six requests | what one check accepts the others do not refuse later; the three modes and the diff agree, but for what they are meant to differ in; a repetition under a canonical declaration is accepted |
| `archive` | two commands and an artifact of an earlier version; two tools, each verify, migration or ingest; one death | pointers are true, sequential use gives the last run, success, bundle; verify finds its run; a migration without errors is complete; the index follows the ingests |
| `runlog` | up to three runs of two tasks, up to two of an earlier version | recovery times measure incidents; reports agree; migration settles and changes no statistic; what it leaves is compliant unless a success has no failure type at all |
| `invocation` | two artifacts, two directories, two plugins (a loader that works, one that fails, one that renames), three agents | a replay repeats; plugins are contained; checked tasks load if what no check runs works |
| `rate_agents` | four services, nine tool calls, clock up to 6, fairness | success is earned; confirmations are in time; the four reference agents succeed |
| `tasks` | twelve task instances, eleven actions (six of the free agent), six pages, fairness | no shortcut in any task but the auditor's; no reference agent is ever wrong; the documented pairings solve their tasks |

**Why the bounds are enough.** Budgets of 0 and 1 hit every boundary, 3 gives a
first, a middle and a last step; either budget can be the one that runs out. Two
targets and two IO operations distinguish an order and a leak. Calls do not share
state, so two suffice to see that. Three jobs on two workers make one job wait and
one worker be used again. `MaxIo = 2` bounds each call into the task, set-up and
validator included. Of BundleStore only the damages are bounded (`MaxDamage = 2`:
one file and one line, two files, or two lines); the commands are not. Two commands
and two tools are every pair of overlapping users of a file; commands, and tools,
are interchangeable (symmetry). `MaxDeaths = 1`: after a death the files are as any
second one would find them. Three runs give a failure, another failure and the
success that ends it, overlapping in any way, and limits of 1 and 2 cut groups and
the whole differently. `MaxRuns = 2` artifacts of a command and of the server can
differ in all they resolve. Nine tool calls are the ones the chain agent needs; a
clock of 6 passes the rate limit (3) and the end of a handshake window. The longest
solution of a task takes ten actions; six actions suffice the free agent to read
what the runbook's checksum needs and deliver it, and six pages put the critical one
first, last and between. Two steps show a trace that is shorter, longer or different
in one entry; no check relates more than two entries. Two accesses (`MaxIo`) are one
in each step, in either order, or both in one.

**Runs that end in a violation** state what a document says and the code does not
do; each is a finding in `PROJECT.json` with the quotation:

| Run | Property | What TLC finds |
| --- | --- | --- |
| `bundle_signature` | `SignatureMatchesIntegrity` | the first signing rewrites the file it has signed, so the signature does not match; a second `bundle sign` finds the manifest marked already and makes it match |
| `tasks_auditor` | `AuditTakesBothFiles` | the scope, which step 1 tells the agent to read, shows the expected output as a sample (`setup.py:28`); reading it solves the task |

**Further statements that do not hold.** The modules state these too; TLC refutes
each when it takes the place of the property in one of the configurations
above.

| Property | Stated by | What the code does |
| --- | --- | --- |
| `ArtifactTraceNonEmpty` | `docs/specs/contract_spec.md:62` | an empty budget, or a violation in the first `observe` or `act`, ends with an empty trace |
| `ArtifactFollowsSchema` | `tracecore-spec-v1.0.md:59` | actions and results that are no objects go into the trace as they are |
| `EpisodeEmitsArtifact` | `docs/specs/core.md:113` | exceptions of set-up, agent or validator leave `run` without an artifact |
| `EveryStepHasEntry` | `compliance-checklist-v0.1.md:21` | the step that meets an empty tool budget is charged and has no entry |
| `TimeoutIsEnforced` | `isolation.py:57-58` | a child that dies half way through its message blocks the caller for ever, timeout or not |
| `ChildExceptionIsAnError` | `isolation.py:69-70` | `SystemExit` in the child is reported as a timeout |
| `TimeoutsHaveArtifacts` | `tracecore-spec-v1.0.md:51` | a job that times out leaves no artifact |
| `BatchReturnsSummary` | `batch.py:3-4` | `SystemExit` in such a job ends the batch without a summary |
| `SuccessIsRemembered` | `CHANGELOG.md:51` | overlapping commands, or a save that fails half way, lose the latest success |
| `ArtifactsAreAtomic` | `tracecore-spec-v1.0.md:28` | artifacts are written in place |
| `SealsOnlySuccess` | `README.md:85` | with no successful run, `bundle seal` seals a failed one |
| `NoTokenWithoutHandshake` | `tasks/rate_limited_chain/README.md:16` | before any handshake, a commit without id and response compares nothing with nothing and is confirmed |
| `RolesSolveEscalation` | `tasks/multi_role_escalation/README.md:31` | the executor extracts neither token from the files, waits, and the task refuses `wait` as an unknown action |
| `NewestFirst` | `cli.py:2147`, `cli.py:2233` | the order is that of the files' modification times: a migration that rewrites an artifact makes it the newest |

**Noted while modelling**, without a property:

* `budget_override` of an episode config is parsed and never used
  (`cli.py:2141` promises a config file for the run).
* Two ingests that overlap lose one entry of `index.json`; its submission file
  stays (`leaderboard.py:106`). `IndexFollowsIngests` therefore speaks of
  ingests that take turns.
* A manifest that says version 0 is taken for one that says nothing
  (`registry.py:238`).
* The quality gate skips the lint of a reference when the message of a missing one
  begins with it: `t@1` when `t@10` is missing (`cli.py:1241`). The missing
  reference keeps the gate shut, so `GateOpens` needs no such test; only the report
  lacks the lint's findings. `GateOpensWithoutFrozen` is the gate without the
  frozen list.
* No check of the registry calls a plugin's loader (`registry.py:371-374`), so a
  valid registry may have tasks that cannot be loaded. `CheckedTasksLoad` has that
  as its condition.
* A plugin's loader may name its task as another one. The artifact then has that
  name, and a replay runs the other task; `run --replay` compares the names only
  and does not warn (`loader.py:69-71`, `runner.py:282`, `cli.py:404-424`).
* `verify_bundle` asks for no line of `integrity.sha256`: a file whose line is lost
  may hold anything. `bundle sign` lists again what there is, damaged or not. The
  bundle stays if the second run of `--record` raises or times out.
* Declarations that are not canonical (a root `/app/`, the host `::1`) make the
  environment allow what the checks refuse, so that a repeated run is rejected.
  They reach a run from a `task.yaml` or a plugin's loader: roots of a `task.toml`
  are normalised. `RepetitionIsAccepted` is stated for the canonical ones.
* A migration adds `failure_type` to failures only (`migration.py:124-133`), while
  the specification's check wants the key always (`spec_check.py:48`).
* `persist_run` may fail in a batch without a word (`batch.py:85-87`): the report
  then names an artifact that is not on disk. `ReportMatchesEpisode` states the
  other direction: what is on disk is reported with its artifact unless a worker
  died.
* Overlapping commands lose updates of `session.json`, and one that dies while it
  saves leaves it torn (`session.py:60`, `session.py:73`). `SuccessIsSuccess` holds
  all the same; `SessionFollowsHistory` speaks of commands that take turns.
* A reader that opens an artifact while `migrate --write` rewrites it finds it torn
  (`migration.py:165`). `VerifyFindsItsRun` excepts the files a migration has open;
  `MigrationIsComplete` and `RewritingKeepsStatistics` are about the rest.
* Jobs without a timeout share their worker's process (`batch.py:66`), where
  `docs/specs/tracecore-spec-v1.0.md:37` promises separation.

## 4. Fairness

* `EpisodeRunner`: weak fairness of its next step: the foreign code it calls
  returns. An episode that hangs is `run_isolated`'s concern and is modelled
  there.
* `IsolatedRun`: the caller is scheduled and its clock advances, the feeder
  thread of a live child is scheduled, and a kill takes effect. The episode
  itself owes nothing.
* `BatchPool`: as above inside each call; the main process, the workers and the
  executor's management thread are scheduled. `BatchEnds` says that the batch
  ends, or that a reader is left with half a message, or that an episode without
  a timeout hangs in the worker that hosts it: nothing else keeps a batch open.
* `RateAgents` (`ReferenceStep`) and `TaskRuns` (`ReferenceMoves`): the runner
  goes on calling the reference agent; another agent owes nothing.
* The other specifications state safety only: their commands are given by a user.

## 5. Theorems

All theorems hold for every value of the constants under the named assumptions.
`RunnerAssumption`, `ArtifactAssumption`, `IsolationAssumption`,
`SessionAssumption`, `ArchiveAssumption`, `BoardAssumption`, `RateAssumption`,
`TaskAssumption`, `RunsAssumption`,
`BundleAssumption`, `MigrationAssumption`, `RunLogAssumption` and `InvocationAssumption` only say what
the constants are; `PoolAssumption` adds that a batch has finitely many jobs and
workers. `RegistryAssumption` adds that there are finitely many versions, that a
version of a loader's own is not left open (`int("None")` would raise in the
replay), and that `registry.json` lists no task twice (the one of this repository
does not).
`ReplayAssumption` adds one fact about declarations, which holds of every host
name that can be registered: a wildcard `*.name` has no address below it (the
last labels of an address are numbers or hexadecimal). A declaration such as
`*.0.0.1` is outside the theorems.

* **EpisodeRunner.** `InductiveInv` strengthens the properties by: while the
  loop runs every entry is a charged call, so both budgets follow from the
  length of the trace (`EntriesInv`, `BudgetInv`); the state the next
  observation is built from equals what the last entry recorded (`ChainInv`);
  the artifact exists exactly at the end (`VerdictInv`). The properties alone are
  not inductive: nothing in them ties the counters to the trace before the
  episode ends. From it follow `TraceReplaysBudget`, `ObservationsChain`,
  `UsageMatchesTrace`, `EffectsWithinBudget` and that each step is a step or a
  stutter of `BoundedEpisode`. `VerdictFollowsEntry` is kept beside it, for
  `LastEntryExplainsVerdict`: the validator is asked after a charged call only,
  and an entry whose status is not `ok` is the last one and settles the verdict.
  `AuditIsExact` compares the audit of each entry with the IO that the action of
  that step has performed, whatever set-up, validator and earlier actions have
  touched. `AuditInv` says when the buffer records: it is off outside
  `exec`, and inside it the buffer holds what the action has touched so far (`auditStep` is
  `Len(trace) + 1`, so never 0, for which the guard records nothing).
  `EpisodeShrinks` is the part of termination that needs no fairness: `Remaining`,
  the steps of the module that are left, falls with every step, as no path comes
  back to the head of the loop without having consumed a step of the budget
  (`LoopGuards` gives that there is one, `IoBounded` that a call has accesses
  left only up to `MaxIo`). An episode is at most
  `steps * (2 * MaxIo + 4) + MaxIo + 2` steps long. `MaxIo` bounds what a call into
  the task does, which the code does not: a call that never returns stays a matter
  of fairness.
* **IsolatedRun** (`BatchPoolProofs`). `CallInv` adds `QueueInv`, which relates the two ends of the
  queue: a message exists only if the child answered. From it follow
  `NothingOutlivesCall`, `OutcomeIsAnswer` and the refinement of `TimedCall`.
* **BatchPool.** `PoolInv` says where a job is: at one worker, or once in the queue,
  and pending while it is (`JobInv`); what has come of it by then (`WorkInv`:
  nothing before its episode ends, and for a job with a timeout what `run_isolated`
  returned, which ties the pool to `CallInv` of `IsolatedRun`); that only a worker
  at work owns a call in progress (`OwnerInv`, which also bounds the episodes: an
  episode that runs has a worker, and no two share one); and what the list of
  results says of the jobs it names (`ResultInv`). From it follow
  `EveryJobReportedOnce`, `ReportMatchesEpisode` and `PoolIsBounded`, the last by an
  injection of the running episodes into the workers, while no worker is dead: the
  child of a dead one may run on. A broken pool is part of the other arguments:
  `PoolBreaks` fails all unfinished futures at once, and no job that it fails can
  still be reported as done.
* **SessionStore** (`LeaderboardProofs`). `SessionInv` adds `StageInv`: a command that reaches its
  update of the session has stored its run or warned, and a seal its bundle.
  From it follow `SuccessIsSuccess` and `PointersResolve`. Neither is inductive
  by itself, since a pointer may be held by a command before it is saved.
  `SuccessInv`, the part that does not speak of artifacts, is kept by itself, so
  that it can be used where tools rewrite them. `QuietInv` makes
  `SessionFollowsHistory` inductive: while nothing overlaps or fails, one command
  at most is at work, it finds the history in the session until it empties the
  file, and it saves the history with itself added (`Concluded`).
* **Archive and Leaderboard** (`LeaderboardProofs`). `PointersResolve` does not survive a migration,
  which has artifacts torn for a while. `AccountInv` weakens `Stored` to
  `Accounted`: the artifact is there, or the user was warned, or a migration has
  opened it. What is accounted for only grows, so a verify still finds the run
  it has resolved some steps ago (`VerifyFindsItsRun`). `MigrationInv` says that
  a migration without errors still has every artifact in an old format before
  it, on its list or in its hands; others only take from that set, so nothing
  is left when it ends (`MigrationIsComplete`). `ToolStep` shows once that a
  tool keeps what is said of the others, so each action is only a proof about
  its own tool. `SessionBesideTools` carries the two theorems about the session
  over to `BoardSpec`, the specification of the run `archive`. For
  `IndexFollowsIngests`, `CalmInv` says what an ingest holds while it is the only
  one (`TurnInv`): its time is later than all in the index, so that sorting by
  time is putting its run last (`HeldLast`), and the list it is about to write
  names the runs in the order of their last ingest. A list is filtered by the set
  of places that stay (`Selected`); that there is a place of each rank among them
  (`Ranked`) follows from the pigeonhole theorem of the library.
* **Replay** (`BundleProofs`). The type invariant says what the runner makes
  (`Produced`): an audited run has an audit of permitted IO in every step. The rest
  is about the checks as operators: what a bundle keeps of a run (`BundleOfRun`),
  that comparing its lines is comparing entries position by position, and that under
  a canonical declaration the environment and the checks allow the same IO
  (`CanonicalAudits`), which holds although they decide it by different code.
  `AcceptedRunsVerify`, `ModesAgree`, `RepetitionIsAccepted` and
  `DiffAgreesWithRecord` follow for runs of any length. `AcceptedRunsVerify` needs
  that each check looks at every audit that another one will look at, though the
  loops compare steps at other points; `ModesAgree` needs that a bundle keeps all
  that `check_record` reads.
* **BundleStore** (`BundleProofs`). `BundleInv` says in which steps a command can be
  (`StepInv`), that a file is open only during the step that writes it
  (`FillingInv`), what seal and record have written when they come to a step
  (`WrittenInv`), how a sound bundle looks while it is signed (`SoundInv`: only the
  manifest may differ from its line, and only between the mark and the second
  listing), and that a damaged one has a file, or a line, that no command has
  written (`DamagedInv`), until the files are written or listed again. What a
  failing write or a crash leaves is one lemma (`FailureKeeps`), since all are
  `CutShort` with a different verdict. `SuccessMeansSound` is part of the invariant,
  as it must survive the damage between commands. The theorems hold for any number
  of damages.
* **Invocation.** `InvocationInv` adds that every registry in use holds entries
  only, each under its reference (`RegistriesOK`), that an artifact names a version,
  that of the entry unless its loader chose another, and a replay
  an earlier artifact (`RunsOK`), and that what the checks of tasks have found is
  still so (`CheckedOK`: the registry that would be read depends on what is edited
  and installed only, `RegistryStays`). About the registry: places are ordered and
  bounded, so that there is a last one for each reference (`LastIn`), and what it
  is of is an entry of that reference (`MergedTyped`); a builtin entry gives way
  only to a plugin's (`BuiltinStays`). About the lookup: of finitely many matching
  versions there is a greatest (`FoundIn`), and a version that is named finds
  itself (`FoundNamed`), which is why a replay repeats, or runs the task of the name
  that a loader gave (`NameTyped`), and why a valid entry loads if its loader or its
  modules work.
  That a set of numbers has a least one comes from the library's well-founded
  induction (`NatMin`).
* **RateAgents.** `RateInv` adds `ServiceInv` (an identifier is not of the future
  and the access review gives none; a token is granted after the block and the
  hiccup) and `DeliveryInv` (what an agent delivers or has heard of as the token
  was granted). `SuccessIsEarned` needs the second: it is about the output, which
  an agent sets from what it remembers. What each agent's rules learn and choose
  is covered by a lemma each, so the theorems hold for the reference agents and
  for any other, with any number of tool calls and any bound of the clock.
* **TaskRuns.** `ToldInv` says what an agent can have heard: it looks into files
  it was given, what it keeps and delivers is in them (`Keeps`, a conjunct for
  each agent), and so is all that stands in the output (`OutputWasHeard`).
  `NoShortcut` alone is not inductive, since an answer stays in the output while
  the files it came from are known to `read` only. Where each value of an answer
  is written is one lemma (`SourcesOf`), so a validator that accepts has been
  given what `Enough` lists (`AnswerIsSpread`),
  but for the auditor's task, whose scope shows the answer. `RightInv` adds what each agent
  knows when it acts (`Knows`): a key comes from the file that names it, the
  value of an extraction from a line with the key that was asked for
  (`ExtractIsLine`), and in most tasks that agent was not written for, such a
  line does not exist (`NothingThere`); the codes of the runbook are
  those of the phases read so far, in order (`RunbookHolds`, and `NextToRead` for
  the read in progress); a role never finds the tokens of the escalation
  (`NoTokenAtStart`, the reason of the finding `RolesSolveEscalation`). Both
  theorems hold for episodes of any length, an agent that may take any number of
  actions, and streams of any number of pages.
* **RunLog.** What a migration leaves is followed field by field: the verdict is
  its own verdict (`VerdictFixed`), completing adds nothing the second time
  (`MigratedFixed`). `MigrationSettles` follows for every artifact of
  `Artifacts`, compliance with its one exception (a success without a failure type)
  included, whatever it lacks and whatever sets of fields there are; `LogTyped`
  shows that runs and migrations leave nothing else in the log.

The inductive invariants were first checked by TLC on the instances of section 3;
since the proofs cover every instance, no run repeats them. Each other module
states a type invariant for its reader (`BundleTypeOK` and the like); the properties of the runs are about more than
types.

Only model-checked, and why:

* Liveness (`TimedCallEnds`, `AnswerIsTaken`, `NoProcessLeftBehind`, `BatchEnds`,
  `ReferenceSucceeds`, `PairingsSolve`) and the termination part of
  `BoundedEpisode`: fairness is outside the prover's reach (`EpisodeShrinks`, which is
  proved, is what fairness adds to for the episode).
* `MttrMeasuresIncidents`, `ReportsAgree`, `RewritingKeepsStatistics`: what
  filters, folds and sorted lists of any length compute. Their library definitions recurse over a sequence and take an operator,
  and the theorems about such recursion do too, which the provers cannot
  instantiate.

## 6. Not modelled

* `integrations/llm_shims.py`, `telemetry/`, `judging/`: a counter compared with
  two limits and a queue of recorded responses, used by generated adapters, by
  one caller at a time; the judge scores text.
* Adapter generators, `openclaw.py`, `export_otlp.py`, templates: they render
  text.
* `interactive.py`: a terminal dialogue that ends in the `run` command.
* `maintainer.py`, `scripts/`: they run external commands.
* The rest of `webui/app.py` and `cli.py`: routes and subcommands that read what
  the run log and the leaderboard hold and lay it out.
* `ledger/`: one registry file that the maintainer writes; the signatures are a
  library's.
* The memory of the interpreter: modules and globals that episodes of one process
  share, in a worker of `batch` or a thread of `POST /run`. The environment's
  check of who calls it, which inspects the stack, needs the same.
* Formats and wording: file names, hashes of content, messages, means.

## 7. Plan

Modelling is complete up to section 6. What is left to prove: that the
reports of `RunLog` agree, with its lists filtered by a definition that the
provers can follow, as in `Leaderboard`; and the step-by-step part of the liveness
arguments (that a measure decreases) for the calls and the pool, as
`EpisodeShrinks` gives it for the episode; the conclusion stays with TLC.
