\* Up to two artifacts, two directories that are edited, two plugins.
CONSTANTS
  NoDir = NoDir
  NotRead = NotRead
  Latest = Latest
  Builtin <- MCBuiltin
  Plugins <- MCPlugins
  Dirs = {"own", "plugged"}
  Contents <- MCContents
  Frozen <- MCFrozen
  Agents = {"a", "b", "c"}
  Places <- MCPlaces
  Options <- MCOptions
  Episodes <- MCEpisodes
  Configs <- MCConfigs
  MaxRuns = 2
SPECIFICATION InvocationSpec
INVARIANTS
  ReplayRepeats
  PluginsAreContained
  CheckedTasksLoad
