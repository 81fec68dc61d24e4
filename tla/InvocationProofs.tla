---------------------------- MODULE InvocationProofs ----------------------------
(***************************************************************************)
(* Proofs about Invocation: what a replay runs, that plugins take no task  *)
(* away, and that tasks found valid can be loaded.                         *)
(***************************************************************************)
EXTENDS Invocation, FiniteSetTheorems, WellFoundedInduction, TLAPS

Refs == {Ref(entry) : entry \in Entries}

-----------------------------------------------------------------------------
(***************************************************************************)
(* The least and the greatest number of a set.  The library's induction    *)
(* takes an operator; that a set of numbers has a least one does not.      *)
(***************************************************************************)
LEMMA NatMin ==
  ASSUME NEW T, T \subseteq Nat, T # {}
  PROVE  \E least \in T : \A n \in T : least <= n
<1> DEFINE R == {pair \in Nat \X Nat : pair[1] < pair[2]}
<1>1. IsWellFoundedOn(R, Nat)
  BY NatLessThanWellFounded DEF OpToRel
<1>2. \A m, n \in Nat : n < m => <<n, m>> \in R
  OBVIOUS
<1> HIDE DEF R
<1>3. PICK least \in T : \A n \in T : ~ (<<n, least>> \in R)
  BY <1>1, WFMin
<1>4. ASSUME NEW n \in T PROVE least <= n
  <2>1. least \in Nat /\ n \in Nat /\ ~(n < least)
    BY <1>2, <1>3
  <2> QED BY <2>1
<1> QED BY <1>4

LEMMA BoundedMax ==
  ASSUME NEW T, T \subseteq Nat, T # {}, NEW bound \in Nat, \A n \in T : n <= bound
  PROVE  \E most \in T : \A n \in T : n <= most
<1> DEFINE Gaps == {bound - n : n \in T}
<1>1. Gaps \subseteq Nat /\ Gaps # {}
  <2>1. ASSUME NEW n \in T PROVE bound - n \in Nat
    <3>1. n \in Nat /\ n <= bound
      OBVIOUS
    <3> QED BY <3>1
  <2> QED BY <2>1
<1>2. PICK gap \in Gaps : \A other \in Gaps : gap <= other
  <2> HIDE DEF Gaps
  <2> QED BY <1>1, NatMin
<1>3. PICK most \in T : gap = bound - most
  OBVIOUS
<1>4. ASSUME NEW n \in T PROVE n <= most
  <2>1. bound - most <= bound - n
    BY <1>2, <1>3
  <2>2. n \in Nat /\ most \in Nat
    OBVIOUS
  <2> QED BY <2>1, <2>2
<1> QED BY <1>4

\* Of a finite set that number is the greatest above which there are the
\* fewest.
LEMMA FiniteMax ==
  ASSUME NEW T, T \subseteq Nat, T # {}, IsFiniteSet(T)
  PROVE  \E most \in T : \A n \in T : n <= most
<1> DEFINE From(n) == {m \in T : m >= n}
           Sizes == {Cardinality(From(n)) : n \in T}
<1>1. \A n \in T : IsFiniteSet(From(n)) /\ Cardinality(From(n)) \in Nat
  <2>1. \A n \in T : From(n) \subseteq T
    OBVIOUS
  <2> HIDE DEF From
  <2> QED BY <2>1, FS_Subset, FS_CardinalityType
<1>2. Sizes \subseteq Nat /\ Sizes # {}
  BY <1>1
<1>3. PICK size \in Sizes : \A other \in Sizes : size <= other
  <2> HIDE DEF Sizes
  <2> QED BY <1>2, NatMin
<1>4. PICK most \in T : size = Cardinality(From(most))
  OBVIOUS
<1>5. ASSUME NEW n \in T, ~(n <= most) PROVE FALSE
  <2>1. n \in Nat /\ most \in Nat /\ n > most
    BY <1>5
  <2>2. /\ From(n) \subseteq From(most)
        /\ most \in From(most) /\ most \notin From(n)
    <3>1. ASSUME NEW m \in T, m >= n PROVE m >= most
      <4>1. m \in Nat
        OBVIOUS
      <4> QED BY <2>1, <3>1, <4>1
    <3>2. most >= most /\ ~(most >= n)
      BY <2>1
    <3> QED BY <3>1, <3>2
  <2>3. Cardinality(From(most)) <= Cardinality(From(n))
    BY <1>3, <1>4
  <2> HIDE DEF From
  <2>4. Cardinality(From(n)) <= Cardinality(From(most))
    BY <1>1, <2>2, FS_Subset
  <2>5. Cardinality(From(n)) = Cardinality(From(most))
    BY <1>1, <2>3, <2>4
  <2>6. From(n) = From(most)
    <3>1. IsFiniteSet(From(most))
      BY <1>1
    <3> QED BY <3>1, <2>2, <2>5, FS_Subset
  <2> QED BY <2>2, <2>6
<1> QED BY <1>5

-----------------------------------------------------------------------------
(***************************************************************************)
(* The registry.  Among the places that it is read from there is a last    *)
(* one, so that what is merged has an entry for each reference read.       *)
(***************************************************************************)
LEMMA BuiltinTyped ==
  /\ DOMAIN Builtin = 1 .. Len(Builtin) /\ Len(Builtin) \in Nat
  /\ \A i \in DOMAIN Builtin : Builtin[i] \in Entries
<1>1. Builtin \in Seq(Entries)
  BY RegistryAssumption
<1> HIDE DEF Entries
<1> QED BY <1>1

LEMMA PluginsTyped ==
  /\ DOMAIN Plugins = 1 .. Len(Plugins) /\ Len(Plugins) \in Nat
  /\ \A p \in DOMAIN Plugins :
       /\ DOMAIN Plugins[p] = 1 .. Len(Plugins[p]) /\ Len(Plugins[p]) \in Nat
       /\ \A i \in DOMAIN Plugins[p] : Plugins[p][i] \in Entries
<1>1. Plugins \in Seq(Seq(Entries))
  BY RegistryAssumption
<1> DEFINE Lists == Seq(Entries)
<1>2. DOMAIN Plugins = 1 .. Len(Plugins) /\ Len(Plugins) \in Nat
        /\ \A p \in DOMAIN Plugins : Plugins[p] \in Lists
  <2> HIDE DEF Lists
  <2> QED BY <1>1 DEF Lists
<1> HIDE DEF Entries
<1>3. ASSUME NEW p \in DOMAIN Plugins
      PROVE  /\ DOMAIN Plugins[p] = 1 .. Len(Plugins[p]) /\ Len(Plugins[p]) \in Nat
             /\ \A i \in DOMAIN Plugins[p] : Plugins[p][i] \in Entries
  <2>1. Plugins[p] \in Seq(Entries)
    BY <1>2
  <2> DEFINE list == Plugins[p]
  <2> HIDE DEF list
  <2>2. list \in Seq(Entries)
    BY <2>1 DEF list
  <2>3. DOMAIN list = 1 .. Len(list) /\ Len(list) \in Nat
          /\ \A i \in DOMAIN list : list[i] \in Entries
    BY <2>2
  <2> QED BY <2>3 DEF list
<1> QED BY <1>2, <1>3

\* All the places that there may be.
Everywhere == ({0} \X DOMAIN Builtin) \cup
              UNION {{plugin} \X DOMAIN Plugins[plugin] : plugin \in DOMAIN Plugins}

LEMMA PlaceTyped ==
  ASSUME NEW source \in Everywhere
  PROVE  /\ source = <<source[1], source[2]>>
         /\ source[1] \in 0 .. Len(Plugins)
         /\ source[1] = 0 => source[2] \in 1 .. Len(Builtin)
         /\ source[1] # 0 => source[2] \in 1 .. Len(Plugins[source[1]])
         /\ EntryAt(source) \in Entries
<1>1. CASE source \in {0} \X DOMAIN Builtin
  <2>1. PICK i \in DOMAIN Builtin : source = <<0, i>>
    BY <1>1
  <2> QED BY <2>1, BuiltinTyped, PluginsTyped DEF EntryAt
<1>2. CASE source \in UNION {{plugin} \X DOMAIN Plugins[plugin] :
                              plugin \in DOMAIN Plugins}
  <2>1. PICK p \in DOMAIN Plugins : source \in {p} \X DOMAIN Plugins[p]
    BY <1>2
  <2>2. PICK i \in DOMAIN Plugins[p] : source = <<p, i>>
    BY <2>1
  <2>3. p \in 1 .. Len(Plugins) /\ i \in 1 .. Len(Plugins[p]) /\ Plugins[p][i] \in Entries
    BY PluginsTyped
  <2>4. EntryAt(source) = Plugins[p][i]
    BY <2>2, <2>3, PluginsTyped DEF EntryAt
  <2> HIDE DEF Entries
  <2> QED BY <2>2, <2>3, <2>4, PluginsTyped
<1> QED BY <1>1, <1>2 DEF Everywhere

LEMMA LastIn ==
  ASSUME NEW sources, sources \subseteq Everywhere, sources # {}
  PROVE  /\ Last(sources) \in sources
         /\ \A other \in sources \ {Last(sources)} : Later(Last(sources), other)
<1> DEFINE firsts == {source[1] : source \in sources}
<1>1. firsts \subseteq Nat /\ firsts # {} /\ \A n \in firsts : n <= Len(Plugins)
  BY PlaceTyped, PluginsTyped
<1>2. PICK p \in firsts : \A n \in firsts : n <= p
  <2> HIDE DEF firsts
  <2> QED BY <1>1, BoundedMax, PluginsTyped
<1> DEFINE seconds == {source[2] : source \in {each \in sources : each[1] = p}}
           bound == IF p = 0 THEN Len(Builtin) ELSE Len(Plugins[p])
<1>3. bound \in Nat
  <2>1. p \in 0 .. Len(Plugins)
    BY PlaceTyped
  <2> QED BY <2>1, BuiltinTyped, PluginsTyped
<1>4. seconds \subseteq Nat /\ seconds # {} /\ \A n \in seconds : n <= bound
  BY PlaceTyped, BuiltinTyped, PluginsTyped, <1>2
<1>5. PICK i \in seconds : \A n \in seconds : n <= i
  <2> HIDE DEF seconds, bound
  <2> QED BY <1>3, <1>4, BoundedMax
<1>6. PICK last \in sources : last[1] = p /\ last[2] = i
  BY <1>5
<1>7. ASSUME NEW other \in sources \ {last} PROVE Later(last, other)
  <2>1. other = <<other[1], other[2]>> /\ last = <<last[1], last[2]>>
        /\ other[1] \in Nat /\ last[1] \in Nat
    BY PlaceTyped
  <2>2. other[1] <= p
    BY <1>2
  <2>3. other[1] = p => other[2] <= i /\ other[2] \in Nat
    BY <1>4, <1>5
  <2>4. i \in Nat
    BY <1>4
  <2>5. other[1] = p => other[2] # i
    BY <1>6, <2>1
  <2> QED BY <1>6, <2>1, <2>2, <2>3, <2>4, <2>5 DEF Later
<1>8. \E each \in sources : \A other \in sources \ {each} : Later(each, other)
  BY <1>7
<1> QED BY <1>8 DEF Last

LEMMA SourcesPlaced ==
  ASSUME installed \subseteq DOMAIN Plugins
  PROVE  /\ Sources \subseteq Everywhere
         /\ \A i \in DOMAIN Builtin : <<0, i>> \in Sources /\ EntryAt(<<0, i>>) = Builtin[i]
<1>1. ASSUME NEW plugin \in installed
      PROVE  {plugin} \X EntriesOf(plugin) \subseteq Everywhere
  BY <1>1 DEF Everywhere, EntriesOf
<1> QED BY <1>1 DEF Sources, Everywhere, EntryAt

\* What is merged has an entry for each reference, which is of that reference.
LEMMA MergedTyped ==
  ASSUME NEW sources, sources \subseteq Everywhere
  PROVE  LET registry == Merged(sources)
         IN /\ registry \in [DOMAIN registry -> Entries]
            /\ DOMAIN registry = {Ref(EntryAt(source)) : source \in sources}
            /\ DOMAIN registry \subseteq Refs
            /\ registry # NotRead
            /\ \A ref \in DOMAIN registry :
                 \E source \in sources : /\ registry[ref] = EntryAt(source)
                                         /\ Ref(EntryAt(source)) = ref
<1> DEFINE refs == {Ref(EntryAt(source)) : source \in sources}
           Of(ref) == {source \in sources : Ref(EntryAt(source)) = ref}
<1>1. refs \subseteq Refs
  BY PlaceTyped DEF Refs
<1>2. ASSUME NEW ref \in refs PROVE Last(Of(ref)) \in Of(ref)
  <2>1. Of(ref) \subseteq Everywhere /\ Of(ref) # {}
    OBVIOUS
  <2> HIDE DEF Of
  <2> QED BY <2>1, LastIn
<1>3. Merged(sources) = [ref \in refs |-> EntryAt(Last(Of(ref)))]
  BY DEF Merged
<1>4. \A ref \in refs : EntryAt(Last(Of(ref))) \in Entries
                          /\ Ref(EntryAt(Last(Of(ref)))) = ref /\ Last(Of(ref)) \in sources
  BY <1>2, PlaceTyped
<1>5. Merged(sources) \in [refs -> Entries]
  <2> HIDE DEF Of, refs, Entries
  <2> QED BY <1>3, <1>4
<1>6. NotRead \notin [refs -> Entries]
  <2> HIDE DEF refs
  <2> QED BY <1>1, RegistryAssumption DEF Refs
<1> HIDE DEF Of, Entries
<1> QED BY <1>1, <1>3, <1>4, <1>5, <1>6

LEMMA RegistryRead ==
  ASSUME installed \subseteq DOMAIN Plugins, ReadRegistry # NotRead
  PROVE  Typed(ReadRegistry)
<1>1. ReadRegistry = Merged(Sources) /\ Sources \subseteq Everywhere
  BY SourcesPlaced DEF ReadRegistry
<1> DEFINE registry == Merged(Sources)
<1>2. /\ registry \in [DOMAIN registry -> Entries]
      /\ \A ref \in DOMAIN registry :
           \E source \in Sources : /\ registry[ref] = EntryAt(source)
                                   /\ Ref(EntryAt(source)) = ref
  BY <1>1, MergedTyped
<1> HIDE DEF registry, Entries
<1>3. Typed(registry)
  BY <1>2 DEF Typed
<1> QED BY <1>1, <1>3 DEF registry

LEMMA TypedRefs ==
  ASSUME NEW registry, Typed(registry)
  PROVE  DOMAIN registry \subseteq Refs
  BY DEF Typed, Refs

LEMMA RefVersion ==
  ASSUME NEW ref \in Refs
  PROVE  ref.version \in Nat /\ ref.version # Latest
         /\ ref.version \in {entry.version : entry \in Entries}
<1>1. PICK entry \in Entries : ref = Ref(entry)
  BY DEF Refs
<1>2. ref.version = entry.version
  BY <1>1 DEF Ref
<1> HIDE DEF Entries
<1> QED BY <1>2, RegistryAssumption

\* There is a greatest version among those that match, and only one if the
\* version is named.
LEMMA FoundIn ==
  ASSUME NEW registry, DOMAIN registry \subseteq Refs, NEW ref,
         Matching(registry, ref) # {}
  PROVE  Found(registry, ref) \in Matching(registry, ref)
<1> DEFINE M == Matching(registry, ref)
           T == {known.version : known \in M}
<1>1. M \subseteq Refs /\ M # {}
  BY DEF Matching
<1> HIDE DEF M
<1>2. T \subseteq {entry.version : entry \in Entries} /\ T # {}
  BY <1>1, RefVersion
<1>3. T \subseteq Nat /\ IsFiniteSet(T)
  <2> HIDE DEF T, Entries
  <2> QED BY <1>2, RegistryAssumption, FS_Subset
<1>4. PICK most \in T : \A n \in T : n <= most
  <2> HIDE DEF T
  <2> QED BY <1>2, <1>3, FiniteMax
<1>5. \E known \in M : \A other \in M : other.version <= known.version
  BY <1>4
<1> QED BY <1>5 DEF Found, M

LEMMA FoundNamed ==
  ASSUME NEW registry, DOMAIN registry \subseteq Refs, NEW ref,
         ref = [id |-> ref.id, version |-> ref.version], ref.version # Latest,
         Matching(registry, ref) # {}
  PROVE  Found(registry, ref) = ref
<1> DEFINE found == Found(registry, ref)
<1>1. found \in Matching(registry, ref)
  BY FoundIn
<1>2. found \in Refs /\ found.id = ref.id /\ found.version = ref.version
  BY <1>1 DEF Matching
<1> HIDE DEF found
<1>3. found = [id |-> found.id, version |-> found.version]
  BY <1>2 DEF Refs, Ref
<1>4. found = ref
  BY <1>2, <1>3
<1> QED BY <1>4 DEF found

LEMMA FoundKnown ==
  ASSUME NEW registry, DOMAIN registry \subseteq Refs, NEW ref \in DOMAIN registry
  PROVE  Matching(registry, ref) # {} /\ Found(registry, ref) = ref
<1>1. ref \in Matching(registry, ref)
  BY DEF Matching
<1>2. ref \in Refs
  OBVIOUS
<1>3. ref = [id |-> ref.id, version |-> ref.version] /\ ref.version # Latest
  BY <1>2, RefVersion DEF Refs, Ref
<1> QED BY <1>1, <1>3, FoundNamed

\* What a loaded task goes by is a reference that names a version.
LEMMA NameTyped ==
  ASSUME NEW entry \in Entries
  PROVE  LET named == Named(entry)
         IN /\ named = [id |-> named.id, version |-> named.version]
            /\ named.version # Latest
<1> DEFINE has(key) == entry.loader = "returns" /\ key \in DOMAIN entry.returns
<1>1. Named(entry) =
        [id |-> IF has("id") THEN entry.returns.id ELSE entry.id,
         version |-> IF has("version") THEN entry.returns.version ELSE entry.version]
  BY DEF Named
<1>2. entry.version \in Nat /\ Latest \notin Nat
  <2>1. entry.version \in {each.version : each \in Entries}
    OBVIOUS
  <2> HIDE DEF Entries
  <2> QED BY <2>1, RegistryAssumption
<1>3. has("version") => entry.returns.version # Latest
  <2> HIDE DEF Entries
  <2> QED BY RegistryAssumption
<1> HIDE DEF has, Entries
<1> QED BY <1>1, <1>2, <1>3

-----------------------------------------------------------------------------
(***************************************************************************)
(* What plugins cannot take away: a builtin entry is read, and what takes  *)
(* its place is another one of the same reference, which only a plugin     *)
(* has.                                                                    *)
(***************************************************************************)
LEMMA BuiltinStays ==
  ASSUME installed \subseteq DOMAIN Plugins
  PROVE  PluginsAreContained
<1> SUFFICES ASSUME \A i \in DOMAIN Builtin : Enriches(Builtin[i])
             PROVE  /\ ReadRegistry # NotRead
                    /\ \A i \in DOMAIN Builtin :
                         /\ Ref(Builtin[i]) \in DOMAIN ReadRegistry
                         /\ \/ ReadRegistry[Ref(Builtin[i])] = Builtin[i]
                            \/ \E plugin \in installed : \E j \in DOMAIN Plugins[plugin] :
                                 Ref(Plugins[plugin][j]) = Ref(Builtin[i])
  BY DEF PluginsAreContained
<1> DEFINE registry == Merged(Sources)
<1>1. ReadRegistry = registry
  BY DEF ReadRegistry
<1>2. /\ registry # NotRead
      /\ DOMAIN registry = {Ref(EntryAt(source)) : source \in Sources}
      /\ \A ref \in DOMAIN registry :
           \E source \in Sources : /\ registry[ref] = EntryAt(source)
                                   /\ Ref(EntryAt(source)) = ref
  BY SourcesPlaced, MergedTyped
<1> HIDE DEF registry
<1>3. ASSUME NEW i \in DOMAIN Builtin
      PROVE  /\ Ref(Builtin[i]) \in DOMAIN registry
             /\ \/ registry[Ref(Builtin[i])] = Builtin[i]
                \/ \E plugin \in installed : \E j \in DOMAIN Plugins[plugin] :
                     Ref(Plugins[plugin][j]) = Ref(Builtin[i])
  <2>1. Ref(Builtin[i]) \in DOMAIN registry
    BY <1>2, SourcesPlaced
  <2>2. PICK source \in Sources : /\ registry[Ref(Builtin[i])] = EntryAt(source)
                                  /\ Ref(EntryAt(source)) = Ref(Builtin[i])
    BY <1>2, <2>1
  <2>3. CASE source \in {0} \X DOMAIN Builtin
    <3>1. PICK j \in DOMAIN Builtin : source = <<0, j>>
      BY <2>3
    <3>2. EntryAt(source) = Builtin[j]
      BY <3>1 DEF EntryAt
    <3>3. j = i
      BY <2>2, <3>2, RegistryAssumption
    <3> QED BY <2>1, <2>2, <3>2, <3>3
  <2>4. CASE source \in UNION {{plugin} \X EntriesOf(plugin) : plugin \in installed}
    <3>1. PICK plugin \in installed : source \in {plugin} \X EntriesOf(plugin)
      BY <2>4
    <3>2. PICK j \in DOMAIN Plugins[plugin] : source = <<plugin, j>>
      BY <3>1 DEF EntriesOf
    <3>3. plugin # 0
      BY PluginsTyped
    <3>4. EntryAt(source) = Plugins[plugin][j]
      BY <3>2, <3>3 DEF EntryAt
    <3> QED BY <2>1, <2>2, <3>4
  <2> QED BY <2>3, <2>4 DEF Sources
<1> QED BY <1>1, <1>2, <1>3

\* What has been found valid can be loaded: the reference of an entry finds
\* that entry, since it names the version.
LEMMA ValidTasksLoad ==
  ASSUME RegistriesOK, CheckedOK
  PROVE  CheckedTasksLoad
<1> DEFINE registry == ReadRegistry
           Imports(ref) == LET entry == registry[ref]
                           IN /\ entry.loader # "fails"
                              /\ entry.loader = "none" /\ entry.dir # NoDir =>
                                   disk[entry.dir].others
           Acts(ref) == LET entry == registry[ref]
                        IN entry.loader = "none" /\ entry.dir # NoDir =>
                             disk[entry.dir].actions # "broken"
<1> HIDE DEF registry
<1>1. ASSUME ValidRegistry(registry), NEW ref \in DOMAIN registry,
             Imports(ref), Acts(ref)
      PROVE  Loads(registry, ref)
  <2>1. registry # NotRead /\ Typed(registry) /\ DOMAIN registry \subseteq Refs
    BY <1>1, RegistryRead, TypedRefs DEF ValidRegistry, RegistriesOK, registry
  <2>2. Matching(registry, ref) # {} /\ Found(registry, ref) = ref
    BY <2>1, FoundKnown
  <2>3. registry[ref].loader \in {"none", "fails", "returns"}
    <3> DEFINE entry == registry[ref]
    <3>1. entry \in Entries
      BY <2>1 DEF Typed
    <3> HIDE DEF entry, Entries
    <3>2. entry.loader \in {"none", "fails", "returns"}
      BY <3>1, RegistryAssumption
    <3> QED BY <3>2 DEF entry
  <2>4. \/ registry[ref].dir = NoDir /\ registry[ref].loader # "none"
        \/ registry[ref].dir # NoDir /\ Complete(disk[registry[ref].dir])
    BY <1>1 DEF ValidRegistry, ValidPath
  <2> QED BY <1>1, <2>1, <2>2, <2>3, <2>4 DEF Loads, LoadsEntry
<1>2. ASSUME GateOpens(registry), NEW ref \in Frozen
      PROVE  ref \in DOMAIN registry /\ Acts(ref)
  <2>1. \A other \in Frozen : other \in DOMAIN registry
    BY <1>2 DEF GateOpens, FrozenOk
  <2>2. LET dir == registry[ref].dir IN dir # NoDir => Lints(dir)
    BY <1>2, <2>1 DEF GateOpens
  <2> QED BY <2>1, <2>2 DEF Lints
<1>3. checked \in {"valid", "gate"} => ValidRegistry(registry)
  BY DEF CheckedOK, registry
<1>4. checked = "gate" => GateOpens(registry)
  BY DEF CheckedOK, registry
<1>5. checked \in {"valid", "gate"} =>
        \A ref \in DOMAIN registry : Imports(ref) /\ Acts(ref) => Loads(registry, ref)
  BY <1>1, <1>3
<1>6. checked = "gate" =>
        \A ref \in Frozen : ref \in DOMAIN registry
                              /\ (Imports(ref) => Loads(registry, ref))
  <2> SUFFICES ASSUME checked = "gate", NEW ref \in Frozen
               PROVE  ref \in DOMAIN registry /\ (Imports(ref) => Loads(registry, ref))
    OBVIOUS
  <2>1. ref \in DOMAIN registry /\ Acts(ref)
    BY <1>2, <1>4
  <2> HIDE DEF Imports, Acts
  <2> QED BY <1>5, <2>1
<1> QED BY <1>5, <1>6 DEF CheckedTasksLoad, registry

-----------------------------------------------------------------------------
(***************************************************************************)
(* The invariant.                                                          *)
(***************************************************************************)
LEMMA Appended ==
  ASSUME NEW seq, seq \in Seq({seq[i] : i \in DOMAIN seq}), NEW last
  PROVE  LET longer == Append(seq, last)
         IN /\ longer \in Seq({longer[i] : i \in DOMAIN longer})
            /\ DOMAIN seq = 1 .. Len(seq) /\ Len(seq) \in Nat
            /\ DOMAIN longer = 1 .. Len(seq) + 1
            /\ \A i \in DOMAIN seq : longer[i] = seq[i]
            /\ longer[Len(seq) + 1] = last
<1> DEFINE range == {seq[i] : i \in DOMAIN seq}
           both == range \cup {last}
           longer == Append(seq, last)
<1> HIDE DEF range, both
<1>1. seq \in Seq(range) /\ DOMAIN seq = 1 .. Len(seq) /\ Len(seq) \in Nat
  BY DEF range
<1>2. seq \in Seq(both)
  <2>1. \A i \in 1 .. Len(seq) : seq[i] \in both
    BY <1>1 DEF range, both
  <2> QED BY <1>1, <2>1
<1>3. longer \in Seq(both)
  BY <1>2 DEF both
<1>4. /\ DOMAIN longer = 1 .. Len(seq) + 1 /\ Len(longer) = Len(seq) + 1
      /\ \A i \in DOMAIN seq : longer[i] = seq[i]
      /\ longer[Len(seq) + 1] = last
  BY <1>1, <1>2
<1> DEFINE whole == {longer[i] : i \in DOMAIN longer}
<1>5. \A i \in 1 .. Len(longer) : longer[i] \in whole
  BY <1>1, <1>4
<1>6. longer \in Seq(whole)
  <2> HIDE DEF whole, longer
  <2> QED BY <1>3, <1>5
<1> QED BY <1>1, <1>4, <1>6

\* An artifact is added: its task is the one that ran unless a loader has named
\* it, and if it is a replay without overrides, what ran is what the artifact
\* that is replayed names.
LEMMA StoredOK ==
  ASSUME RunsOK, ReplayRepeats,
         NEW registry, registry # NotRead => Typed(registry),
         NEW inputs, Runs(registry, inputs),
         NEW how, Store(Artifact(registry, inputs), how),
         how.of \in {0} \cup DOMAIN runs,
         how.of # 0 =>
           LET origin == runs[how.of].artifact
               repeats == /\ inputs.agent = origin.agent /\ inputs.task = origin.task
                          /\ inputs.seed = origin.seed
           IN /\ ~how.given => repeats
              /\ how.by = "replay" /\ ~repeats => how.warned
  PROVE  RunsOK' /\ ReplayRepeats'
<1> DEFINE artifact == Artifact(registry, inputs)
           last == [artifact |-> artifact, how |-> how]
           n == Len(runs) + 1
<1>1. /\ runs' \in Seq({runs'[i] : i \in DOMAIN runs'})
      /\ DOMAIN runs = 1 .. Len(runs) /\ Len(runs) \in Nat
      /\ DOMAIN runs' = 1 .. n
      /\ \A i \in DOMAIN runs : runs'[i] = runs[i]
      /\ runs'[n] = last
  <2>1. runs' = Append(runs, last)
    BY DEF Store
  <2>2. runs \in Seq({runs[i] : i \in DOMAIN runs})
    BY DEF RunsOK
  <2> DEFINE longer == Append(runs, last)
  <2> HIDE DEF last
  <2>3. /\ longer \in Seq({longer[i] : i \in DOMAIN longer})
        /\ DOMAIN runs = 1 .. Len(runs) /\ Len(runs) \in Nat
        /\ DOMAIN longer = 1 .. Len(runs) + 1
        /\ \A i \in DOMAIN runs : longer[i] = runs[i]
        /\ longer[Len(runs) + 1] = last
    BY <2>2, Appended
  <2>4. runs' = longer
    BY <2>1
  <2> HIDE DEF longer
  <2> QED BY <2>3, <2>4
<1> DEFINE found == Found(registry, inputs.task)
<1>2. /\ DOMAIN registry \subseteq Refs /\ Matching(registry, inputs.task) # {}
      /\ found \in DOMAIN registry
      /\ registry[found] \in Entries /\ Ref(registry[found]) = found
  <2>1. Typed(registry) /\ Matching(registry, inputs.task) # {}
    BY DEF Runs, Loads
  <2>2. DOMAIN registry \subseteq Refs
    BY <2>1, TypedRefs
  <2>3. found \in Matching(registry, inputs.task)
    BY <2>1, <2>2, FoundIn
  <2>4. found \in DOMAIN registry
    BY <2>3 DEF Matching
  <2> HIDE DEF found
  <2> QED BY <2>1, <2>2, <2>4 DEF Typed
<1>3. /\ artifact.task = Named(registry[found])
      /\ artifact.ran.entry = found
      /\ artifact.ran.renamed = (Named(registry[found]) # found)
      /\ artifact.agent = inputs.agent /\ artifact.seed = inputs.seed
  BY DEF Artifact, History
<1>4. /\ inputs.task = [id |-> inputs.task.id, version |-> inputs.task.version]
      /\ inputs.task.version # Latest
      => artifact.ran.entry = inputs.task
  BY <1>2, <1>3, FoundNamed
<1> DEFINE Names(made) == /\ made.task = [id |-> made.task.id, version |-> made.task.version]
                          /\ made.task.version # Latest
                          /\ ~made.ran.renamed => made.task = made.ran.entry
<1>8. Names(artifact)
  <2> DEFINE entry == registry[found]
  <2> HIDE DEF entry, artifact, found
  <2>1. entry \in Entries
    BY <1>2 DEF entry
  <2>2. /\ Named(entry) = [id |-> Named(entry).id, version |-> Named(entry).version]
        /\ Named(entry).version # Latest
    BY <2>1, NameTyped
  <2> QED BY <1>3, <2>2 DEF entry
<1> HIDE DEF artifact, found
<1>5. last.artifact = artifact /\ last.how = how
  OBVIOUS
<1> HIDE DEF last
<1>6. RunsOK'
  <2>1. ASSUME NEW i \in DOMAIN runs'
        PROVE  Names(runs'[i].artifact) /\ runs'[i].how.of \in 0 .. (i - 1)
    <3>1. CASE i = n
      <4>1. runs'[i].artifact = artifact /\ runs'[i].how.of \in 0 .. (i - 1)
        BY <1>1, <1>5, <3>1
      <4> HIDE DEF Names
      <4> QED BY <1>8, <4>1
    <3>2. CASE i # n
      <4>1. i \in DOMAIN runs /\ runs'[i] = runs[i]
        BY <1>1, <3>2
      <4> QED BY <4>1 DEF RunsOK
    <3> QED BY <3>1, <3>2
  <2> QED BY <1>1, <2>1 DEF RunsOK
<1>7. ReplayRepeats'
  <2> DEFINE Same(run, origin) == /\ run.agent = origin.agent /\ run.seed = origin.seed
                                  /\ run.ran.entry =
                                       IF origin.ran.renamed THEN origin.task
                                                             ELSE origin.ran.entry
             Repeats(run, made, origin) == /\ ~made.given => Same(run, origin)
                                           /\ (made.by = "replay" /\ ~Same(run, origin)
                                                 => made.warned)
  <2>1. ASSUME NEW i \in DOMAIN runs', runs'[i].how.of # 0
        PROVE  Repeats(runs'[i].artifact, runs'[i].how, runs'[runs'[i].how.of].artifact)
    <3>1. CASE i = n
      <4>1. runs'[i].artifact = artifact /\ runs'[i].how = how
            /\ how.of \in DOMAIN runs /\ runs'[how.of] = runs[how.of]
        BY <1>1, <1>5, <2>1, <3>1
      <4> DEFINE origin == runs[how.of].artifact
      <4>2. Names(origin)
        BY <4>1 DEF RunsOK
      <4>3. inputs.agent = origin.agent /\ inputs.task = origin.task
              /\ inputs.seed = origin.seed => Same(artifact, origin)
        BY <1>3, <1>4, <4>2
      <4> HIDE DEF Same
      <4>4. how.of # 0
        BY <2>1, <4>1
      <4>5. Repeats(artifact, how, origin)
        BY <4>3, <4>4
      <4> HIDE DEF Repeats
      <4> QED BY <4>1, <4>5
    <3>2. CASE i # n
      <4>1. i \in DOMAIN runs /\ runs'[i] = runs[i]
        BY <1>1, <3>2
      <4>2. runs[i].how.of \in 0 .. (i - 1) /\ runs[i].how.of # 0
        BY <4>1, <2>1 DEF RunsOK
      <4>3. runs[i].how.of \in DOMAIN runs /\ runs'[runs[i].how.of] = runs[runs[i].how.of]
        BY <4>1, <4>2, <1>1
      <4>4. Repeats(runs[i].artifact, runs[i].how, runs[runs[i].how.of].artifact)
        BY <4>1, <4>2 DEF ReplayRepeats
      <4> HIDE DEF Repeats
      <4> QED BY <4>1, <4>3, <4>4
    <3> QED BY <3>1, <3>2
  <2> QED BY <2>1 DEF ReplayRepeats
<1> QED BY <1>6, <1>7

\* While nothing is edited, the registry that would be read is the same, and
\* what the checks say of it.
LEMMA RegistryStays ==
  ASSUME UNCHANGED registryVars
  PROVE  /\ ReadRegistry' = ReadRegistry
         /\ ValidRegistry(ReadRegistry)' = ValidRegistry(ReadRegistry)
         /\ GateOpens(ReadRegistry)' = GateOpens(ReadRegistry)
<1>1. \A entry : Enriches(entry)' = Enriches(entry)
  BY DEF Enriches, HasDir, Readable, States, registryVars
<1>2. \A plugin : EntriesOf(plugin)' = EntriesOf(plugin)
  BY <1>1 DEF EntriesOf
<1>3. Sources' = Sources
  BY <1>2 DEF Sources, registryVars
<1>4. ReadRegistry' = ReadRegistry
  BY <1>1, <1>3 DEF ReadRegistry
<1> QED BY <1>4 DEF registryVars, ValidRegistry, ValidPath, Complete, Readable,
                    GateOpens, FrozenOk, Lints

LEMMA InvocationInitOK == InvocationInit => InvocationInv
  BY DEF InvocationInit, RegistryInit, InvocationInv, RegistriesOK, RunsOK,
         ReplayRepeats, CheckedOK, None

LEMMA InvocationStepOK ==
  InvocationInv /\ [InvocationNext]_invocationVars => InvocationInv'
<1> SUFFICES ASSUME InvocationInv, [InvocationNext]_invocationVars PROVE InvocationInv'
  OBVIOUS
<1> USE DEF InvocationInv
<1>1. ASSUME UNCHANGED <<disk, installed, checked>> PROVE CheckedOK'
  BY <1>1, RegistryStays DEF CheckedOK, registryVars
<1>2. ReadRegistry # NotRead => Typed(ReadRegistry)
  BY RegistryRead DEF RegistriesOK
<1>3. ASSUME NEW options \in Options, Run(options) PROVE InvocationInv'
  <2>1. PICK episode \in Episodes :
          LET inputs == Resolved(WithEpisode(options, episode), config)
          IN Runs(ReadRegistry, inputs) /\ Store(Artifact(ReadRegistry, inputs), Plain)
    BY <1>3 DEF Run
  <2> DEFINE inputs == Resolved(WithEpisode(options, episode), config)
  <2> HIDE DEF inputs
  <2>2. Runs(ReadRegistry, inputs) /\ Store(Artifact(ReadRegistry, inputs), Plain)
    BY <2>1 DEF inputs
  <2>3. Plain.of = 0
    BY DEF Plain
  <2>4. RunsOK' /\ ReplayRepeats'
    BY <1>2, <2>2, <2>3, StoredOK
  <2> QED BY <1>1, <1>3, <2>4 DEF Run, RegistriesOK
<1>4. ASSUME NEW i \in DOMAIN runs, NEW options \in Options, Replay(i, options)
      PROVE  InvocationInv'
  <2>1. PICK episode \in Episodes, by \in {"replay", "bundle"} :
          LET given == WithEpisode(options, episode)
              inputs == [agent |-> Or(given.agent, None, runs[i].artifact.agent),
                         task |-> Or(given.task, NoTask, runs[i].artifact.task),
                         seed |-> Or(given.seed, NoSeed, runs[i].artifact.seed)]
              differs == \/ inputs.agent # runs[i].artifact.agent
                         \/ inputs.task # runs[i].artifact.task
                         \/ inputs.seed # runs[i].artifact.seed
          IN /\ Runs(ReadRegistry, inputs)
             /\ Store(Artifact(ReadRegistry, inputs),
                      [of |-> i, by |-> by,
                       given |-> given # [agent |-> None, task |-> NoTask, seed |-> NoSeed],
                       warned |-> by = "replay" /\ differs])
    BY <1>4 DEF Replay
  <2> DEFINE given == WithEpisode(options, episode)
             origin == runs[i].artifact
             inputs == [agent |-> Or(given.agent, None, origin.agent),
                        task |-> Or(given.task, NoTask, origin.task),
                        seed |-> Or(given.seed, NoSeed, origin.seed)]
             repeats == /\ inputs.agent = origin.agent /\ inputs.task = origin.task
                        /\ inputs.seed = origin.seed
             how == [of |-> i, by |-> by,
                     given |-> given # [agent |-> None, task |-> NoTask, seed |-> NoSeed],
                     warned |-> by = "replay" /\ ~repeats]
  <2> HIDE DEF given, origin
  <2>2. given = [agent |-> None, task |-> NoTask, seed |-> NoSeed] => repeats
    BY DEF Or
  <2>3. /\ inputs = [agent |-> Or(given.agent, None, runs[i].artifact.agent),
                     task |-> Or(given.task, NoTask, runs[i].artifact.task),
                     seed |-> Or(given.seed, NoSeed, runs[i].artifact.seed)]
        /\ repeats <=> ~(\/ inputs.agent # runs[i].artifact.agent
                         \/ inputs.task # runs[i].artifact.task
                         \/ inputs.seed # runs[i].artifact.seed)
    BY DEF origin
  <2> HIDE DEF inputs
  <2>4. Runs(ReadRegistry, inputs) /\ Store(Artifact(ReadRegistry, inputs), how)
    BY <2>1, <2>3 DEF given
  <2>5. /\ how.of = i /\ i \in DOMAIN runs
        /\ ~how.given => repeats
        /\ how.by = "replay" /\ ~repeats => how.warned
    BY <2>2
  <2> HIDE DEF how
  <2>6. RunsOK' /\ ReplayRepeats'
    BY <1>2, <2>4, <2>5, StoredOK DEF origin
  <2> QED BY <1>1, <1>4, <2>6 DEF Replay, RegistriesOK
<1>5. ASSUME NEW inputs, NEW how, Serve(inputs, how),
             how.of \in {0} \cup DOMAIN runs,
             how.of # 0 =>
               LET origin == runs[how.of].artifact
               IN /\ how.by # "replay"
                  /\ ~how.given => /\ inputs.agent = origin.agent
                                   /\ inputs.task = origin.task
                                   /\ inputs.seed = origin.seed
      PROVE  InvocationInv'
  <2>1. cache' # NotRead => Typed(cache')
    BY <1>2, <1>5 DEF Serve, RegistriesOK
  <2>2. RunsOK' /\ ReplayRepeats'
    BY <1>5, <2>1, StoredOK DEF Serve
  <2> QED BY <1>1, <1>5, <2>1, <2>2 DEF Serve, RegistriesOK, Typed
<1>6. ASSUME NEW form \in Options, ServeRun(form) PROVE InvocationInv'
  <2>1. Plain.of = 0
    BY DEF Plain
  <2> QED BY <1>5, <1>6, <2>1 DEF ServeRun
<1>7. ASSUME NEW i \in DOMAIN runs, NEW form \in Options, ServeReplay(i, form)
      PROVE  InvocationInv'
  <2> DEFINE origin == runs[i].artifact
             inputs == [agent |-> Or(form.agent, None, origin.agent),
                        task |-> Or(form.task, NoTask, origin.task),
                        seed |-> Or(form.seed, NoSeed, origin.seed)]
             how == [Plain EXCEPT !.of = i, !.by = "server",
                       !.given = form # [agent |-> None, task |-> NoTask, seed |-> NoSeed]]
  <2>1. Serve(inputs, how)
    BY <1>7 DEF ServeReplay
  <2>2. /\ how.of = i /\ how.by = "server"
        /\ how.given = (form # [agent |-> None, task |-> NoTask, seed |-> NoSeed])
    BY DEF Plain
  <2> HIDE DEF how, origin
  <2>3. form = [agent |-> None, task |-> NoTask, seed |-> NoSeed] =>
          /\ inputs.agent = origin.agent /\ inputs.task = origin.task
          /\ inputs.seed = origin.seed
    BY DEF Or
  <2> HIDE DEF inputs
  <2> USE DEF origin
  <2> QED BY <1>5, <2>1, <2>2, <2>3
<1>8. ASSUME CheckTasks PROVE InvocationInv'
  <2>1. UNCHANGED <<disk, installed, cache, runs>>
    BY <1>8 DEF CheckTasks
  <2>2. GateOpens(ReadRegistry) => ValidRegistry(ReadRegistry)
    BY DEF GateOpens
  <2>3. /\ checked' = "gate" => GateOpens(ReadRegistry)
        /\ checked' \in {"valid", "gate"} => ValidRegistry(ReadRegistry)
    BY <1>8, <2>2 DEF CheckTasks
  <2>4. CheckedOK'
    BY <2>1, <2>3, RegistryStays DEF CheckedOK, registryVars
  <2> QED BY <2>1, <2>4 DEF RegistriesOK, RunsOK, ReplayRepeats
<1>9. ASSUME Change PROVE InvocationInv'
  <2>1. installed' \subseteq DOMAIN Plugins /\ (cache' = NotRead \/ cache' = cache)
    BY <1>9 DEF Change, Edit, Install, RegistriesOK
  <2>2. RegistriesOK' /\ CheckedOK' /\ runs' = runs
    BY <1>9, <2>1 DEF Change, RegistriesOK, CheckedOK, None
  <2> QED BY <2>2 DEF RunsOK, ReplayRepeats
<1>10. ASSUME UNCHANGED invocationVars PROVE InvocationInv'
  <2>1. UNCHANGED <<disk, installed, cache, runs, checked>>
    BY <1>10 DEF invocationVars
  <2> QED BY <1>1, <2>1 DEF RegistriesOK, RunsOK, ReplayRepeats
<1> QED BY <1>3, <1>4, <1>6, <1>7, <1>8, <1>9, <1>10 DEF InvocationNext

LEMMA InvocationInvHolds == InvocationSpec => []InvocationInv
  BY InvocationInitOK, InvocationStepOK, PTL DEF InvocationSpec

-----------------------------------------------------------------------------
\* A replay without overrides runs what is recorded, whatever was installed or
\* configured since, or the task of the name that a plugin's loader had given;
\* `--replay` warns of overrides that differ (cli.py:404-424, loader.py:64-71).
THEOREM ReplayRepeatsCorrect == InvocationSpec => []ReplayRepeats
<1>1. InvocationInv => ReplayRepeats
  BY DEF InvocationInv
<1> QED BY <1>1, InvocationInvHolds, PTL

\* The registry can be read whenever the builtin one can, with all its tasks
\* (registry.py:263-324).
THEOREM PluginsAreContainedCorrect == InvocationSpec => []PluginsAreContained
<1>1. InvocationInv => PluginsAreContained
  BY BuiltinStays DEF InvocationInv, RegistriesOK
<1> QED BY <1>1, InvocationInvHolds, PTL

\* What `tasks validate` and the quality gate have passed can be loaded while
\* nothing is edited, if its loader or its modules work
\* (registry.py:344-418, cli.py:1220-1271).
THEOREM CheckedTasksLoadCorrect == InvocationSpec => []CheckedTasksLoad
<1>1. InvocationInv => CheckedTasksLoad
  BY ValidTasksLoad DEF InvocationInv
<1> QED BY <1>1, InvocationInvHolds, PTL
=============================================================================
