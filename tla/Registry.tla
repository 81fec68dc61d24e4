-------------------------------- MODULE Registry --------------------------------
(***************************************************************************)
(* The task registry (agent_bench/tasks/registry.py), the task loader      *)
(* (tasks/loader.py) and the commands that check tasks (cli.py): tasks     *)
(* that come with the program, tasks of installed plugins, and the         *)
(* directories they are in, which their authors edit.                      *)
(***************************************************************************)
EXTENDS Naturals, Sequences, FiniteSets

CONSTANTS Builtin,   \* the entries of registry.json
          Plugins,   \* entry points, each a sequence of entries
          Dirs, NoDir,
          Contents,  \* what each directory may hold
          Frozen,    \* the references that SPEC_FREEZE.md lists
          Latest,    \* the version of a reference that names none
          NotRead    \* no registry

VARIABLES disk,       \* what each directory holds
          installed   \* the plugins that are installed

registryVars == <<disk, installed>>

Ref(entry) == [id |-> entry.id, version |-> entry.version]

Entries == {Builtin[i] : i \in DOMAIN Builtin} \cup
           UNION {{Plugins[p][i] : i \in DOMAIN Plugins[p]} : p \in DOMAIN Plugins}

\* There are finitely many versions; what a loader returns may have one of its
\* own, which is not left open; the program has each of its own tasks once; no
\* registry is not a registry.
ASSUME RegistryAssumption ==
  /\ Builtin \in Seq(Entries) /\ Plugins \in Seq(Seq(Entries))
  /\ {entry.version : entry \in Entries} \subseteq Nat
  /\ IsFiniteSet({entry.version : entry \in Entries})
  /\ Latest \notin Nat
  /\ \A entry \in Entries :
       /\ entry.loader \in {"none", "fails", "returns"}
       /\ entry.loader = "returns" /\ "version" \in DOMAIN entry.returns =>
            entry.returns.version # Latest
  /\ \A i, j \in DOMAIN Builtin : Ref(Builtin[i]) = Ref(Builtin[j]) => i = j
  /\ \A refs \in SUBSET {Ref(entry) : entry \in Entries} :
       NotRead \notin [refs -> Entries]

RegistryInit ==
  /\ disk \in {held \in [Dirs -> UNION {Contents[dir] : dir \in Dirs}] :
                 \A dir \in Dirs : held[dir] \in Contents[dir]}
  /\ installed = {}

Edit(dir) ==
  /\ \E content \in Contents[dir] \ {disk[dir]} : disk' = [disk EXCEPT ![dir] = content]
  /\ UNCHANGED installed

Install(plugin) ==
  /\ installed' = IF plugin \in installed THEN installed \ {plugin}
                                          ELSE installed \cup {plugin}
  /\ UNCHANGED disk

-----------------------------------------------------------------------------
HasDir(entry) == entry.dir # NoDir /\ disk[entry.dir].exists

\* _load_task_manifest: of task.toml what is missing or of a wrong type raises,
\* of task.yaml what is no number.
Readable(dir) == disk[dir].manifest # "invalid"

\* An empty manifest, or none, says nothing.
States(dir) == disk[dir].manifest = "stated"

\* _enrich_descriptor raises if the manifest cannot be read or says something
\* else than the registry; version 0 is taken for no version.
Enriches(entry) ==
  HasDir(entry) =>
    LET says == disk[entry.dir].says
    IN /\ Readable(entry.dir)
       /\ States(entry.dir) =>
            /\ says.id = entry.id /\ says.suite = entry.suite
            /\ says.version \in {0, entry.version}

\* Of an entry point that raises, the entries before stay.  SystemExit, which is
\* no Exception, would end the process instead and is left out.
EntriesOf(plugin) ==
  {i \in DOMAIN Plugins[plugin] : \A k \in 1 .. i : Enriches(Plugins[plugin][k])}

\* The places that the registry is read from, and which of them comes later:
\* the program's own entries, and then plugin by plugin.
Sources == ({0} \X DOMAIN Builtin) \cup
           UNION {{plugin} \X EntriesOf(plugin) : plugin \in installed}
EntryAt(source) ==
  IF source[1] = 0 THEN Builtin[source[2]] ELSE Plugins[source[1]][source[2]]
Later(source, other) ==
  \/ source[1] > other[1]
  \/ source[1] = other[1] /\ source[2] > other[2]

\* A later entry takes the place of an earlier one of the same reference.
Last(sources) ==
  CHOOSE source \in sources : \A other \in sources \ {source} : Later(source, other)
Merged(sources) ==
  [ref \in {Ref(EntryAt(source)) : source \in sources} |->
     EntryAt(Last({source \in sources : Ref(EntryAt(source)) = ref}))]

\* Mutant: a plugin that raises is not passed over.
ReadRegistryStrictly ==
  IF /\ \A i \in DOMAIN Builtin : Enriches(Builtin[i])
     /\ \A plugin \in installed : EntriesOf(plugin) = DOMAIN Plugins[plugin]
    THEN Merged(Sources) ELSE NotRead

\* _ensure_registry: a builtin entry that raises leaves no registry.
ReadRegistry ==
  IF \A i \in DOMAIN Builtin : Enriches(Builtin[i]) THEN Merged(Sources) ELSE NotRead

-----------------------------------------------------------------------------
\* get_task_descriptor finds the latest version if none is named.
Matching(registry, ref) ==
  {known \in DOMAIN registry :
     known.id = ref.id /\ ref.version \in {Latest, known.version}}

Found(registry, ref) ==
  CHOOSE known \in Matching(registry, ref) :
    \A other \in Matching(registry, ref) : other.version <= known.version

Complete(content) == content.exists /\ content.manifest # "none" /\ content.files

\* load_task: a plugin's loader is called, which may fail: raise, or return what
\* is no dict.  Without one, the directory is looked into again, the manifest is
\* not.
LoadsEntry(entry) ==
  \/ entry.loader = "returns"
  \/ /\ entry.loader = "none" /\ entry.dir # NoDir
     /\ Complete(disk[entry.dir])
     /\ disk[entry.dir].actions # "broken" /\ disk[entry.dir].others

Loads(registry, ref) ==
  /\ registry # NotRead
  /\ Matching(registry, ref) # {}
  /\ LoadsEntry(registry[Found(registry, ref)])

\* The reference that the loaded task goes by: the entry's, where a loader has
\* set none of its own (setdefault).
Named(entry) ==
  LET has(key) == entry.loader = "returns" /\ key \in DOMAIN entry.returns
  IN [id |-> IF has("id") THEN entry.returns.id ELSE entry.id,
      version |-> IF has("version") THEN entry.returns.version ELSE entry.version]

\* validate_task_path
ValidPath(dir) == Complete(disk[dir]) /\ Readable(dir)

\* validate_registry_entries: a loader will do, which is not called.
ValidRegistry(registry) ==
  /\ registry # NotRead
  /\ \A ref \in DOMAIN registry :
       LET entry == registry[ref]
       IN IF entry.dir = NoDir THEN entry.loader # "none" ELSE ValidPath(entry.dir)

\* _cmd_tasks_lint of one directory: the module is imported, and must execute.
Lints(dir) == ValidPath(dir) /\ disk[dir].actions = "execute"

\* validate_spec_freeze_entries
FrozenOk(registry, ref) ==
  /\ ref \in DOMAIN registry
  /\ LET dir == registry[ref].dir IN dir # NoDir => ValidPath(dir)

\* Mutant: what is not in the registry is passed over, as it is by the lint.
GateOpensWithoutFrozen(registry) ==
  /\ ValidRegistry(registry)
  /\ \A ref \in Frozen \cap DOMAIN registry :
       LET dir == registry[ref].dir IN dir # NoDir => Lints(dir)

\* _cmd_tasks_quality_gate.  The lint passes over a reference whose text begins
\* that of a missing one; but a missing one keeps the gate shut.
GateOpens(registry) ==
  /\ ValidRegistry(registry)
  /\ Frozen # {} /\ \A ref \in Frozen : FrozenOk(registry, ref)
  /\ \A ref \in Frozen :
       LET dir == registry[ref].dir IN dir # NoDir => Lints(dir)
=============================================================================
