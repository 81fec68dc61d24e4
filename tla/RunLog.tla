-------------------------------- MODULE RunLog --------------------------------
(***************************************************************************)
(* The artifacts under .agent_bench/runs (runner/runlog.py) and what is    *)
(* computed from them: baselines (runner/baseline.py) and metrics          *)
(* (runner/metrics.py).  Runs overlap, and a migration rewrites artifacts  *)
(* of earlier versions while they do.                                      *)
(***************************************************************************)
EXTENDS Migration, Naturals, SequencesExt

CONSTANTS Keys,      \* [agent, task, seed] of the runs
          Legacy,    \* logs that an earlier version may have left
          MaxRuns,   \* bound on the runs
          MaxSteps   \* bound on the steps of a run

ASSUME RunLogAssumption ==
  /\ MaxRuns \in Nat /\ MaxSteps \in Nat \ {0}
  /\ Legacy \subseteq Seq([key : Keys, started : Nat, completed : Nat,
                           steps : Nat, body : Artifacts])

VARIABLES log,      \* the artifacts in the order of their files' mtime
          running,  \* the runs in progress
          clock     \* the time, one tick for each event

logVars == <<log, running, clock>>

LogInit ==
  /\ log \in Legacy
  /\ running = {}
  /\ clock = 2 * Len(log)

Start(key) ==
  /\ Len(log) + Cardinality(running) < MaxRuns
  /\ running' = running \cup {[key |-> key, started |-> clock + 1]}
  /\ clock' = clock + 1
  /\ UNCHANGED log

\* persist_run
Persist(run) ==
  /\ \E success \in BOOLEAN, steps \in 1..MaxSteps :
       log' = Append(log, [key |-> run.key, started |-> run.started,
                           completed |-> clock + 1, steps |-> steps,
                           body |-> RunnerArtifact(success, "steps_exhausted")])
  /\ running' = running \ {run}
  /\ clock' = clock + 1

\* migrate_run_file with --write: a file that changes becomes the newest.
Migrate(i) ==
  /\ Migratable(log[i].body)
  /\ Migrated(log[i].body) # log[i].body
  /\ log' = Append(RemoveAt(log, i), [log[i] EXCEPT !.body = Migrated(@)])
  /\ UNCHANGED <<running, clock>>

LogNext == \/ \E key \in Keys : Start(key)
           \/ \E run \in running : Persist(run)
           \/ \E i \in DOMAIN log : Migrate(i)

LogSpec == LogInit /\ [][LogNext]_logVars

-----------------------------------------------------------------------------
\* iter_runs: newest first, with the filters of the command.
IterRuns(keys) == SelectSeq(Reverse(log), LAMBDA run : run.key \in keys)

Capped(runs, limit) == SubSeq(runs, 1, IF limit < Len(runs) THEN limit ELSE Len(runs))

Passed(run) == run.body.success = "yes"
Count(runs, Test(_)) == Len(SelectSeq(runs, Test))

\* _pct
Percentile(values, percent) ==
  LET sorted == SortSeq(values, LAMBDA a, b : a < b)
      n == Len(values)
      index == (n * percent) \div 100
  IN sorted[IF index < n THEN index + 1 ELSE n]

Steps(runs) == [i \in DOMAIN runs |-> runs[i].steps]

\* What a run counts as in the taxonomy.
Kind(run) ==
  CASE run.body.failure \notin NoFailure -> run.body.failure
    [] run.body.failure \in NoFailure /\ Passed(run) -> "success"
    [] OTHER -> "unknown"

Row(runs) ==
  [count |-> Len(runs), passed |-> Count(runs, Passed),
   p50 |-> Percentile(Steps(runs), 50), p95 |-> Percentile(Steps(runs), 95),
   taxonomy |-> [kind \in {Kind(runs[i]) : i \in DOMAIN runs} |->
                   Count(runs, LAMBDA run : Kind(run) = kind)]]

Group(run) == <<run.key.task, run.key.agent>>
Groups == {Group(log[i]) : i \in DOMAIN log}

\* compute_metrics of a task and an agent.
Metrics(group, limit) ==
  Row(Capped(IterRuns({key \in Keys : <<key.task, key.agent>> = group}), limit))

\* Mutant: the limit is applied before the runs are grouped.
AllMetricsCappedFirst(limit) ==
  LET runs == Capped(IterRuns(Keys), limit)
  IN [group \in {Group(runs[i]) : i \in DOMAIN runs} |->
        Row(SelectSeq(runs, LAMBDA run : Group(run) = group))]

\* compute_all_metrics groups the runs and caps each group.
AllMetrics(limit) ==
  LET grouped == FoldLeft(
        LAMBDA groups, run :
          [groups EXCEPT ![Group(run)] = Append(@, run)],
        [group \in Groups |-> <<>>], IterRuns(Keys))
  IN [group \in Groups |-> Row(Capped(grouped[group], limit))]

\* Mutant: the last one that is listed is taken for the last one.
BaselineLastListed(runs) ==
  FoldLeft(
    LAMBDA bucket, run :
      [bucket EXCEPT
         !.count = @ + 1, !.successes = @ + IF Passed(run) THEN 1 ELSE 0,
         !.steps = @ + run.steps,
         !.last = [completed |-> run.completed, started |-> run.started,
                   success |-> Passed(run)]],
    [count |-> 0, successes |-> 0, steps |-> 0,
     last |-> [completed |-> 0, started |-> 0, success |-> FALSE]],
    Reverse(runs))

\* summarize_runs: among runs of the latest completion the first one stays.
Baseline(runs) ==
  FoldLeft(
    LAMBDA bucket, run :
      [count |-> bucket.count + 1,
       successes |-> bucket.successes + IF Passed(run) THEN 1 ELSE 0,
       steps |-> bucket.steps + run.steps,
       last |-> IF run.completed > bucket.last.completed
                  THEN [completed |-> run.completed, started |-> run.started,
                        success |-> Passed(run)]
                  ELSE bucket.last],
    [count |-> 0, successes |-> 0, steps |-> 0,
     last |-> [completed |-> 0, started |-> 0, success |-> FALSE]],
    runs)

\* build_baselines
Baselines(limit) ==
  LET runs == Capped(IterRuns(Keys), limit)
  IN [group \in {Group(runs[i]) : i \in DOMAIN runs} |->
        Baseline(SelectSeq(runs, LAMBDA run : Group(run) = group))]

\* Mutant: a failure that follows a failure is taken for the incident.
RecoveryOfLast(state, run) ==
  CASE ~Passed(run) ->
         [state EXCEPT !.failed = run.started,
                       !.incidents = @ + IF state.failed = 0 THEN 1 ELSE 0]
    [] Passed(run) /\ state.failed # 0 ->
         [state EXCEPT !.failed = 0,
                       !.times = Append(@, run.started - state.failed)]
    [] OTHER -> state

\* One run of a key in compute_mttr's loop.
Recovery(state, run) ==
  CASE ~Passed(run) /\ state.failed = 0 ->
         [state EXCEPT !.failed = run.started, !.incidents = @ + 1]
    [] Passed(run) /\ state.failed # 0 ->
         [state EXCEPT !.failed = 0,
                       !.times = Append(@, run.started - state.failed)]
    [] OTHER -> state

\* compute_mttr for one agent, task and seed: the runs by their start.
Mttr(key, limit) ==
  LET runs == SelectSeq(Capped(IterRuns(Keys), limit),
                        LAMBDA run : run.key = key)
  IN FoldLeft(Recovery, [failed |-> 0, incidents |-> 0, times |-> <<>>],
              SortSeq(runs, LAMBDA a, b : a.started < b.started))

-----------------------------------------------------------------------------
\* The runs of a key, as a set.
RunsOf(key) == {log[i] : i \in {j \in DOMAIN log : log[j].key = key}}

\* A failure opens an incident if no run of its key precedes it or the one
\* before it was a success.
Opens(run) ==
  /\ ~Passed(run)
  /\ \A other \in RunsOf(run.key) :
       other.started < run.started /\ ~Passed(other) =>
         \E between \in RunsOf(run.key) :
           Passed(between) /\ between.started \in other.started..run.started

\* The successes that end the incident: none lies between.
Closes(run, opener) ==
  /\ Passed(run) /\ opener.started < run.started
  /\ ~\E other \in RunsOf(run.key) :
        Passed(other) /\ other.started \in opener.started..(run.started - 1)

\* However runs overlap and migrations reorder the files, an incident is the
\* first failure of an unbroken series, and its recovery is timed to the next
\* success of the same agent, task and seed (metrics.py:14, 213-263).
MttrMeasuresIncidents ==
  \A key \in Keys :
    LET openers == {run \in RunsOf(key) : Opens(run)}
        times == Mttr(key, MaxRuns).times
    IN /\ Mttr(key, MaxRuns).incidents = Cardinality(openers)
       /\ Len(times) = Cardinality({run \in openers :
                           \E next \in RunsOf(key) : Closes(next, run)})
       /\ ToSet(times) = {pair[2].started - pair[1].started : pair \in
                            {p \in openers \X RunsOf(key) : Closes(p[2], p[1])}}

\* Whatever the limit, the metrics of all runs show in the row of a task and
\* an agent what the metrics of that task and agent show, and the two of
\* them count what the baselines of as many runs count (metrics.py:73-210).
ReportsAgree ==
  \A limit \in 1..MaxRuns :
    /\ DOMAIN AllMetrics(limit) = Groups
    /\ \A group \in Groups :
      /\ AllMetrics(limit)[group] = Metrics(group, limit)
      /\ limit = MaxRuns =>
           /\ Baselines(limit)[group].count = Metrics(group, limit).count
           /\ Baselines(limit)[group].successes = Metrics(group, limit).passed

\* A rewritten artifact counts as before: where artifacts carry a verdict, a
\* migration changes neither what the baselines nor what the recovery times
\* of the whole log show, although it changes the order of the files.
RewritingKeepsStatistics ==
  [][ (\A i \in DOMAIN log : log[i].body.success # Absent)
        /\ running' = running /\ ToSet(log') # ToSet(log) =>
      /\ Baselines(MaxRuns)' = Baselines(MaxRuns)
      /\ \A key \in Keys : Mttr(key, MaxRuns)' = Mttr(key, MaxRuns) ]_logVars

\* A migrated artifact is settled: a second migration finds nothing to
\* change, its verdict is one, with a reason and a failure type where it
\* failed, and its hash is that of its content unless it was not touched.  If
\* the runner had written what is not backfilled, it complies with the
\* specification, unless it is a success that never had a failure type: that
\* key is required and not added (migration.py:86-157, spec_check.py:36-58).
MigrationSettles ==
  \A i \in DOMAIN log :
    LET before == log[i].body
        after == Migrated(before)
    IN Migratable(before) =>
         /\ Migrated(after) = after
         /\ after.success = "yes" <=> Succeeded(before)
         /\ after.success = "yes" <=> after.failure \in NoFailure
         /\ after.success = "yes" <=> after.reason = None
         /\ after # before => after.hash = "right"
         /\ RunnerFields \subseteq before.fields =>
              (SpecCompliant(after) <=>
                 ~(Succeeded(before) /\ before.failure = Absent))

\* cli.py:2147 "List recent runs (newest first)"; `baseline --bundle` takes
\* the first one for "the most recent matching run" (cli.py:2233).
NewestFirst ==
  \A i, j \in DOMAIN log : i < j => log[i].completed < log[j].completed
=============================================================================
