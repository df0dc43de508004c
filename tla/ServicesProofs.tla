--------------------------- MODULE ServicesProofs ---------------------------
(***************************************************************************)
(* What five of the services promise, for instances of any size: a locale  *)
(* is the same one for everybody who asks, SQLite stays up under a         *)
(* connection, the plugins are loaded and a query reaches those that are   *)
(* enabled, the strings of schemas have one owner, and CreateDirectory     *)
(* makes the directory; and the types of all eight of them.                *)
(***************************************************************************)
EXTENDS MCServices, HttpClientProofs, PreferencesProofs, TransactionsProofs, SequenceTheorems,
        FiniteSetTheorems, TLAPS

-----------------------------------------------------------------------------
(* Locale.                                                                 *)

(* The data belong to the selected locale. *)
OfSelected == localeData # Null => localeData.locale = selectedLocale

LocaleIInv ==
  /\ selectedLocale \in Names
  /\ announced = selectedLocale /\ saved = selectedLocale
  /\ OfSelected

LEMMA LocaleInitIInv == LocaleInit => LocaleIInv
BY LocaleAssumption DEF LocaleInit, LocaleIInv, OfSelected

(* Data are of the locale asked for. *)
LEMMA LoadedFrom ==
  ASSUME NEW d, NEW path, NEW locale
  PROVE  loadLocaleData(d, path, locale) # Null =>
           loadLocaleData(d, path, locale).locale = locale
BY DEF loadLocaleData

LEMMA SelectKeeps ==
  ASSUME LocaleIInv, NEW path, NEW listed \in SUBSET Names, NEW locale \in Names,
         Select(path, listed, locale)
  PROVE  LocaleIInv'
<1>1. CASE locale \in listed /\ loadLocaleData(disk, path, locale) # Null
  <2>1. /\ localeData' = loadLocaleData(disk, path, locale)
        /\ selectedLocale' = locale /\ announced' = locale /\ saved' = locale
    BY <1>1 DEF Select, IsLoaded
  <2>2. localeData'.locale = locale
    BY <2>1, <1>1, LoadedFrom
  <2> QED
    BY <2>1, <2>2 DEF LocaleIInv, OfSelected
<1>2. CASE ~(locale \in listed /\ loadLocaleData(disk, path, locale) # Null)
  <2>1. /\ localeData' \in {localeData, Null}
        /\ UNCHANGED <<selectedLocale, announced, saved>>
    BY <1>2 DEF Select, IsLoaded
  <2> QED
    BY <2>1 DEF LocaleIInv, OfSelected
<1> QED
  BY <1>1, <1>2

LEMMA LocaleStep ==
  ASSUME LocaleIInv, locales \subseteq Names, [LocaleNext]_localeVars
  PROVE  LocaleIInv'
<1>1. CASE UNCHANGED localeVars
  BY <1>1 DEF localeVars, LocaleIInv, OfSelected
<1>2. ASSUME NEW n \in Names, SetSelectedLocale(n)
      PROVE  LocaleIInv'
  BY <1>2, SelectKeeps DEF SetSelectedLocale
<1>3. ASSUME NEW path \in Paths, Initialize(path)
      PROVE  LocaleIInv'
  <2>1. Select(path, locales', selectedLocale) /\ locales' \subseteq Names
    BY <1>3 DEF Initialize, Present
  <2>2. selectedLocale \in Names
    BY DEF LocaleIInv
  <2> QED
    BY <2>1, <2>2, SelectKeeps
<1>4. ASSUME NEW path, InitializeThrows(path)
      PROVE  LocaleIInv'
  BY <1>4 DEF InitializeThrows, LocaleIInv, OfSelected
<1>5. ASSUME NEW path, NEW n, NEW f, ChangeFile(path, n, f)
      PROVE  LocaleIInv'
  BY <1>5 DEF ChangeFile, LocaleIInv, OfSelected
<1>6. CASE Restart
  BY <1>6 DEF Restart, LocaleIInv, OfSelected
<1> QED
  BY <1>1, <1>2, <1>3, <1>4, <1>5, <1>6 DEF LocaleNext

LEMMA LocalesListed ==
  ASSUME locales \subseteq Names, [LocaleNext]_localeVars
  PROVE  (locales \subseteq Names)'
BY DEF LocaleNext, localeVars, SetSelectedLocale, Initialize, InitializeThrows, Present,
       ChangeFile, Restart

LEMMA LoadedType ==
  ASSUME LocaleTypeOK, NEW path \in Paths \cup {Null}, NEW n \in Names
  PROVE  loadLocaleData(disk, path, n) \in Loaded \cup {Null}
<1>1. CASE path # Null /\ disk[path][n].at = "good"
  <2>1. disk[path][n] \in Files
    BY <1>1 DEF LocaleTypeOK
  <2>2. disk[path][n].words \in SUBSET Words
    BY <1>1, <2>1 DEF Files, Absent, Broken
  <2> QED
    BY <1>1, <2>2 DEF loadLocaleData, Loaded
<1>2. CASE ~(path # Null /\ disk[path][n].at = "good")
  BY <1>2 DEF loadLocaleData
<1> QED
  BY <1>1, <1>2

LEMMA SelectTypes ==
  ASSUME LocaleTypeOK, NEW path \in Paths \cup {Null}, NEW listed, NEW n \in Names,
         Select(path, listed, n)
  PROVE  /\ selectedLocale' \in Names /\ saved' \in Names /\ announced' \in Names
         /\ localeData' \in Loaded \cup {Null} /\ defaultLocaleData' \in Loaded \cup {Null}
<1>1. /\ loadLocaleData(disk, path, n) \in Loaded \cup {Null}
      /\ loadLocaleData(disk, path, Default) \in Loaded \cup {Null}
  BY LoadedType, LocaleAssumption
<1>2. localeData' \in Loaded \cup {Null} /\ defaultLocaleData' \in Loaded \cup {Null}
  BY <1>1 DEF Select, LocaleTypeOK
<1>3. selectedLocale' \in Names /\ saved' \in Names /\ announced' \in Names
  BY DEF Select, LocaleTypeOK
<1> QED
  BY <1>2, <1>3

LEMMA LocaleTypes == LocaleSpec => []LocaleTypeOK
<1>1. LocaleInit => LocaleTypeOK
  <2>1. {Absent} \cup [at : {"good"}, words : {Words}] \subseteq Files
    BY DEF Files
  <2>2. LocaleInit => disk \in [Paths -> [Names -> Files]]
    BY <2>1 DEF LocaleInit
  <2> QED
    BY <2>2, LocaleAssumption DEF LocaleInit, LocaleTypeOK
<1>2. ASSUME LocaleTypeOK, [LocaleNext]_localeVars PROVE LocaleTypeOK'
  <2>1. CASE UNCHANGED localeVars
    BY <1>2, <2>1 DEF localeVars, LocaleTypeOK
  <2>2. ASSUME NEW n \in Names, SetSelectedLocale(n) PROVE LocaleTypeOK'
    <3>1. Select(localePath, locales, n) /\ UNCHANGED <<disk, localePath, locales>>
      BY <2>2 DEF SetSelectedLocale
    <3>2. localePath \in Paths \cup {Null}
      BY <1>2 DEF LocaleTypeOK
    <3> QED
      BY <1>2, <3>1, <3>2, SelectTypes DEF LocaleTypeOK
  <2>3. ASSUME NEW path \in Paths, Initialize(path) PROVE LocaleTypeOK'
    <3>1. /\ Select(path, locales', selectedLocale) /\ localePath' = path /\ disk' = disk
          /\ locales' \subseteq Names
      BY <2>3 DEF Initialize, Present
    <3>2. selectedLocale \in Names
      BY <1>2 DEF LocaleTypeOK
    <3> QED
      BY <1>2, <3>1, <3>2, SelectTypes DEF LocaleTypeOK
  <2>4. ASSUME NEW path \in Paths, InitializeThrows(path) PROVE LocaleTypeOK'
    BY <1>2, <2>4 DEF InitializeThrows, Present, LocaleTypeOK
  <2>5. ASSUME NEW path \in Paths, NEW n \in Names, NEW f \in Files, ChangeFile(path, n, f)
        PROVE  LocaleTypeOK'
    <3>1. disk' = [disk EXCEPT ![path] = [disk[path] EXCEPT ![n] = f]]
      BY <2>5 DEF ChangeFile
    <3>2. [disk[path] EXCEPT ![n] = f] \in [Names -> Files]
      BY <1>2 DEF LocaleTypeOK
    <3>3. disk' \in [Paths -> [Names -> Files]]
      BY <1>2, <3>1, <3>2 DEF LocaleTypeOK
    <3> QED
      BY <1>2, <2>5, <3>3 DEF ChangeFile, LocaleTypeOK
  <2>6. CASE Restart
    BY <1>2, <2>6 DEF Restart, LocaleTypeOK
  <2> QED
    BY <1>2, <2>1, <2>2, <2>3, <2>4, <2>5, <2>6 DEF LocaleNext
<1> QED
  BY <1>1, <1>2, PTL DEF LocaleSpec

(***************************************************************************)
(* The locale that is selected, the one the listeners were told and the    *)
(* one in the preferences are the same, and a word is translated into it,  *)
(* into the default locale or not at all, for any files, paths and locales *)
(* (Locale::Initialize, SetSelectedLocale and Translate).                  *)
(***************************************************************************)
THEOREM OneLocale == LocaleSpec => []SelectedEverywhere
<1>1. LocaleInit => LocaleIInv /\ locales \subseteq Names
  BY LocaleInitIInv DEF LocaleInit
<1>2. LocaleIInv /\ locales \subseteq Names /\ [LocaleNext]_localeVars
        => LocaleIInv' /\ (locales \subseteq Names)'
  BY LocaleStep, LocalesListed
<1>3. LocaleIInv => SelectedEverywhere
  BY DEF SelectedEverywhere, LocaleIInv, OfSelected, Translate
<1> QED
  BY <1>1, <1>2, <1>3, PTL DEF LocaleSpec

-----------------------------------------------------------------------------
(* Connections.                                                            *)

(* The connections that count. *)
CountedConns == {c \in Conns : life[c] \in {"alive", "leaving"}}

(* Unless threads have raced, one at most is inside, and what it has read  *)
(* is what is there; and SQLite is up while somebody counts or is about to. *)
CountIsRight ==
  /\ count = Cardinality(CountedConns)
  /\ \A c, d \in Inside : c = d
  /\ \A c \in Inside : read[c] = count
  /\ CountedConns \cup Inside # {} => up

ConnectionsIInv == ConnectionsTypeOK /\ (~raced => CountIsRight)

LEMMA ConnectionsTypes ==
  /\ ConnectionsInit => ConnectionsTypeOK
  /\ ConnectionsTypeOK /\ [ConnectionsNext]_connectionVars => ConnectionsTypeOK'
<1>1. ConnectionsInit => ConnectionsTypeOK
  <2> SUFFICES ASSUME ConnectionsInit PROVE ConnectionsTypeOK
    OBVIOUS
  <2>1. up \in BOOLEAN /\ raced \in BOOLEAN
    BY Zenon DEF ConnectionsInit
  <2> QED
    BY <2>1, ConnectionsAssumption DEF ConnectionsInit, ConnectionsTypeOK
<1>2. ASSUME ConnectionsTypeOK, UNCHANGED connectionVars
      PROVE  ConnectionsTypeOK'
  BY <1>2 DEF ConnectionsTypeOK, connectionVars
<1>3. ASSUME ConnectionsTypeOK, NEW c \in Conns, ConstructConnection(c)
      PROVE  ConnectionsTypeOK'
  <2>1. up' \in BOOLEAN /\ raced' \in BOOLEAN
    BY <1>3, Zenon DEF ConnectionsTypeOK, ConstructConnection, EnterCount
  <2> QED
    BY <2>1, <1>3 DEF ConnectionsTypeOK, ConstructConnection, EnterCount, Become
<1>4. ASSUME ConnectionsTypeOK, NEW c \in Conns, FinishConstruct(c)
      PROVE  ConnectionsTypeOK'
  BY <1>4 DEF ConnectionsTypeOK, FinishConstruct, Become
<1>5. ASSUME ConnectionsTypeOK, NEW c \in Conns, Open(c) \/ Close(c)
      PROVE  ConnectionsTypeOK'
  BY <1>5 DEF ConnectionsTypeOK, Open, Close, Closed
<1>6. ASSUME ConnectionsTypeOK, NEW c \in Conns, Prepare(c) \/ Finalize(c)
      PROVE  ConnectionsTypeOK'
  BY <1>6, ConnectionsAssumption DEF ConnectionsTypeOK, Prepare, Finalize
<1>7. ASSUME ConnectionsTypeOK, NEW c \in Conns, DestructConnection(c)
      PROVE  ConnectionsTypeOK'
  <2>1. up' \in BOOLEAN /\ raced' \in BOOLEAN
    BY <1>7, Zenon DEF ConnectionsTypeOK, DestructConnection, EnterCount
  <2> QED
    BY <2>1, <1>7 DEF ConnectionsTypeOK, DestructConnection, EnterCount, Become, Closed
<1>8. ASSUME ConnectionsTypeOK, NEW c \in Conns, FinishDestruct(c)
      PROVE  ConnectionsTypeOK'
  <2>1. up' \in BOOLEAN /\ raced' \in BOOLEAN
    BY <1>8, Zenon DEF ConnectionsTypeOK, FinishDestruct
  <2> QED
    BY <2>1, <1>8 DEF ConnectionsTypeOK, FinishDestruct, Become
<1> QED
  BY <1>1, <1>2, <1>3, <1>4, <1>5, <1>6, <1>7, <1>8 DEF ConnectionsNext

(* One more counts, or one less. *)
LEMMA CountedCardinality ==
  /\ IsFiniteSet(CountedConns) /\ Cardinality(CountedConns) \in Nat
  /\ (Cardinality(CountedConns) = 0 <=> CountedConns = {})
  /\ \A c : /\ c \notin CountedConns =>
               Cardinality(CountedConns \cup {c}) = Cardinality(CountedConns) + 1
            /\ c \in CountedConns => Cardinality(CountedConns \ {c}) = Cardinality(CountedConns) - 1
<1>1. IsFiniteSet(CountedConns)
  BY ConnectionsAssumption, FS_Subset DEF CountedConns
<1> QED
  BY <1>1, FS_CardinalityType, FS_EmptySet, FS_AddElement, FS_RemoveElement

LEMMA EnterStep ==
  ASSUME ConnectionsIInv, NEW c \in Conns,
         ConstructConnection(c) \/ DestructConnection(c), ~raced'
  PROVE  CountIsRight'
<1>1. ~raced /\ Inside = {} /\ CountIsRight
  BY DEF ConstructConnection, DestructConnection, EnterCount, ConnectionsIInv
<1>2. PICK from \in {"new", "alive"}, to \in {"counting", "leaving"} :
        /\ life[c] = from /\ (from = "new" <=> to = "counting")
        /\ life' = [life EXCEPT ![c] = to] /\ read' = [read EXCEPT ![c] = count]
        /\ count' = count
        /\ up' = IF from = "new" THEN up \/ count = 0 ELSE up
  BY DEF ConstructConnection, DestructConnection, EnterCount, Become
<1>3. Inside' = {c}
  BY <1>1, <1>2 DEF Inside, ConnectionsIInv, ConnectionsTypeOK
<1>4. CountedConns' = CountedConns
  BY <1>2 DEF CountedConns, ConnectionsIInv, ConnectionsTypeOK
<1>5. read'[c] = count'
  BY <1>2 DEF ConnectionsIInv, ConnectionsTypeOK
<1>6. up'
  <2>1. CASE from = "alive"
    <3>1. c \in CountedConns
      BY <2>1, <1>2 DEF CountedConns
    <3> QED
      BY <3>1, <2>1, <1>1, <1>2 DEF CountIsRight
  <2>2. CASE from = "new"
    <3>1. count # 0 => CountedConns # {}
      BY <1>1, CountedCardinality DEF CountIsRight
    <3> QED
      BY <3>1, <2>2, <1>1, <1>2 DEF CountIsRight
  <2> QED
    BY <2>1, <2>2
<1> QED
  BY <1>1, <1>2, <1>3, <1>4, <1>5, <1>6 DEF CountIsRight

LEMMA LeaveStep ==
  ASSUME ConnectionsIInv, NEW c \in Conns,
         FinishConstruct(c) \/ FinishDestruct(c), ~raced'
  PROVE  CountIsRight'
<1>1. ~raced /\ CountIsRight
  BY DEF FinishConstruct, FinishDestruct, ConnectionsIInv
<1>2. c \in Inside /\ read[c] = count /\ Inside = {c} /\ up
  <2>1. c \in Inside
    BY DEF FinishConstruct, FinishDestruct, Become, Inside
  <2> QED
    BY <2>1, <1>1 DEF CountIsRight
<1>3. CASE FinishConstruct(c)
  <2>1. /\ life[c] = "counting" /\ life' = [life EXCEPT ![c] = "alive"]
        /\ count' = count + 1 /\ up' = up
    BY <1>2, <1>3 DEF FinishConstruct, Become
  <2>2. c \notin CountedConns /\ CountedConns' = CountedConns \cup {c}
    BY <2>1 DEF CountedConns, ConnectionsIInv, ConnectionsTypeOK
  <2>3. Inside' = {}
    BY <2>1, <1>2 DEF Inside, ConnectionsIInv, ConnectionsTypeOK
  <2>4. count' = Cardinality(CountedConns')
    BY <2>1, <2>2, <1>1, CountedCardinality DEF CountIsRight
  <2> QED
    BY <2>1, <2>3, <2>4, <1>2 DEF CountIsRight
<1>4. CASE FinishDestruct(c)
  <2>1. /\ life[c] = "leaving" /\ life' = [life EXCEPT ![c] = "gone"]
        /\ count' = (IF count - 1 <= 0 THEN 0 ELSE count - 1)
        /\ up' = (up /\ ~(count - 1 <= 0))
    BY <1>2, <1>4 DEF FinishDestruct, Become, LastOne
  <2>2. c \in CountedConns /\ CountedConns' = CountedConns \ {c}
    BY <2>1 DEF CountedConns, ConnectionsIInv, ConnectionsTypeOK
  <2>3. Inside' = {}
    BY <2>1, <1>2 DEF Inside, ConnectionsIInv, ConnectionsTypeOK
  <2>4. /\ Cardinality(CountedConns') = count - 1 /\ count \in Nat
        /\ (count - 1 = 0 <=> CountedConns' = {})
    <3>1. Cardinality(CountedConns') = count - 1 /\ count \in Nat
      BY <2>2, <1>1, CountedCardinality DEF CountIsRight
    <3>2. IsFiniteSet(CountedConns')
      BY <2>2, CountedCardinality, FS_RemoveElement
    <3>3. Cardinality(CountedConns') = 0 <=> CountedConns' = {}
      BY <3>2, FS_EmptySet
    <3> QED
      BY <3>1, <3>3
  <2>5. count - 1 \in Nat
    <3>1. count # 0
      BY <2>2, <1>1, CountedCardinality DEF CountIsRight
    <3> QED
      BY <3>1, <2>4
  <2>6. count' = Cardinality(CountedConns')
    BY <2>1, <2>4, <2>5
  <2>7. CountedConns' # {} => up'
    <3>1. CountedConns' # {} => ~(count - 1 <= 0)
      BY <2>4, <2>5
    <3> QED
      BY <3>1, <2>1, <1>2
  <2> QED
    BY <2>3, <2>6, <2>7 DEF CountIsRight
<1> QED
  BY <1>3, <1>4

(* What happens to handles and statements leaves the count alone. *)
LEMMA OtherSteps ==
  ASSUME ConnectionsIInv, ~raced',
         \/ UNCHANGED connectionVars
         \/ \E c \in Conns : Open(c) \/ Close(c) \/ Prepare(c) \/ Finalize(c)
  PROVE  CountIsRight'
<1>1. UNCHANGED <<life, count, read, raced>> /\ (up => up')
  BY DEF connectionVars, Open, Close, Prepare, Finalize
<1>2. CountedConns' = CountedConns /\ Inside' = Inside
  BY <1>1 DEF CountedConns, Inside
<1> QED
  BY <1>1, <1>2 DEF CountIsRight, ConnectionsIInv

(***************************************************************************)
(* SQLite is up while a connection is alive, and the count is the number   *)
(* of connections alive, for any number of them, opened and destroyed in   *)
(* any order, unless two threads have been in UpdateReferenceCount at once *)
(* (Connection.cpp: each holds a mutex of its own there).                  *)
(***************************************************************************)
THEOREM SqliteStaysUp == ConnectionsSpec => []UpWhileAlive
<1>1. ConnectionsInit => ConnectionsIInv
  <2> SUFFICES ASSUME ConnectionsInit PROVE ConnectionsIInv
    OBVIOUS
  <2>1. CountedConns = {} /\ Inside = {}
    BY DEF ConnectionsInit, CountedConns, Inside
  <2>2. CountIsRight
    BY <2>1, FS_EmptySet DEF CountIsRight, ConnectionsInit
  <2> QED
    BY <2>2, ConnectionsTypes DEF ConnectionsIInv
<1>2. ConnectionsIInv /\ [ConnectionsNext]_connectionVars => ConnectionsIInv'
  <2> SUFFICES ASSUME ConnectionsIInv, [ConnectionsNext]_connectionVars, ~raced'
               PROVE  CountIsRight'
    BY ConnectionsTypes DEF ConnectionsIInv
  <2> QED
    BY EnterStep, LeaveStep, OtherSteps DEF ConnectionsNext
<1>3. ConnectionsIInv => UpWhileAlive
  <2> SUFFICES ASSUME ConnectionsIInv, ~raced
               PROVE  /\ \A c \in Conns : life[c] = "alive" => up
                      /\ Inside = {} => count = Cardinality({c \in Conns : life[c] = "alive"})
    BY DEF UpWhileAlive, ConnectionsIInv, ConnectionsTypeOK
  <2>1. CountIsRight
    BY DEF ConnectionsIInv
  <2>2. Inside = {} => CountedConns = {c \in Conns : life[c] = "alive"}
    BY DEF Inside, CountedConns
  <2>3. \A c \in Conns : life[c] = "alive" => c \in CountedConns
    BY DEF CountedConns
  <2> QED
    BY <2>1, <2>2, <2>3 DEF CountIsRight
<1> QED
  BY <1>1, <1>2, <1>3, PTL DEF ConnectionsSpec

-----------------------------------------------------------------------------
(* Plugins.                                                                *)

(* The plugins that a query has reached. *)
Reached == {plugins[i] : i \in 1..(at - 1)}

(* While the constructor runs nobody has the instance; and of the plugins  *)
(* reached, the query has seen those that have what it asks for and are    *)
(* enabled, changes apart, or all that have it.                            *)
LoadsFirst ==
  /\ Loading => loader \in Callers /\ caller[loader] = "loading" /\ ~ready
  /\ \A c \in Callers : caller[c] = "querying" => ready /\ lock = c

SeenOf(having) ==
  IF asked.everyone THEN handled = having
  ELSE handled \ touched = (having \cap enabled) \ touched

Seen ==
  /\ plugins \in Seq(Nat)
  /\ at \in Nat \ {0} /\ at <= Len(plugins) + 1
  /\ lock = NoCaller => at = 1 /\ handled = {} /\ touched = {}
  /\ lock # NoCaller => asked.having \subseteq LoadedEntries
  /\ SeenOf(Reached \cap asked.having)

PluginsIInv ==
  /\ caller = [c \in Callers |-> caller[c]] /\ next \in Nat /\ ready \in BOOLEAN
  /\ \A c \in Callers : caller[c] = "has_it" => ready
  /\ LoadsFirst /\ Seen

LEMMA PluginsInitIInv == PluginsInit => PluginsIInv
<1> SUFFICES ASSUME PluginsInit PROVE PluginsIInv
  OBVIOUS
<1>1. plugins = <<>> /\ plugins \in Seq(Nat) /\ Len(plugins) = 0
  BY DEF PluginsInit
<1>2. Reached = {}
  BY DEF PluginsInit, Reached
<1>4. Seen
  BY <1>1, <1>2 DEF PluginsInit, Seen, SeenOf
<1>3. LoadsFirst
  BY DEF PluginsInit, LoadsFirst, Loading
<1> QED
  BY <1>3, <1>4 DEF PluginsInit, PluginsIInv

(* A step of the constructor: nobody is inside a query. *)
LEMMA LoadStep ==
  ASSUME PluginsIInv, LoadEntry \/ EndLoading \/ ThrowOutOfLoop
  PROVE  PluginsIInv' /\ \A c \in Callers : caller[c] # "querying"
<1>1. Loading /\ loader \in Callers /\ caller[loader] = "loading" /\ ~ready
  BY DEF LoadEntry, EndLoading, ThrowOutOfLoop, PluginsIInv, LoadsFirst
<1>2. \A c \in Callers : caller[c] \notin {"querying", "has_it"}
  BY <1>1 DEF PluginsIInv, LoadsFirst
<1>3. CASE LoadEntry
  <2>1. /\ UNCHANGED <<loader, ready, caller, lock, asked, at, handled, enabled, touched>>
        /\ next' = next + 1
        /\ plugins' = Append(plugins, next) \/ plugins' = plugins
    BY <1>3 DEF LoadEntry
  <2>2. /\ plugins' \in Seq(Nat) /\ Len(plugins') >= Len(plugins)
        /\ \A i \in 1..Len(plugins) : plugins'[i] = plugins[i]
    <3>1. plugins \in Seq(Nat) /\ next \in Nat
      BY DEF PluginsIInv, Seen
    <3>2. CASE plugins' = Append(plugins, next)
      BY <3>1, <3>2
    <3>3. CASE plugins' = plugins
      BY <3>1, <3>3
    <3> QED
      BY <2>1, <3>2, <3>3
  <2>3. Reached' = Reached
    <3>1. \A i \in 1..(at - 1) : plugins'[i] = plugins[i]
      BY <2>2 DEF PluginsIInv, Seen
    <3> QED
      BY <2>1, <3>1 DEF Reached
  <2>4. lock = NoCaller \/ LoadedEntries \subseteq LoadedEntries'
    BY <2>2 DEF LoadedEntries, PluginsIInv, Seen
  <2>6. Seen'
    BY <2>1, <2>2, <2>3, <2>4 DEF PluginsIInv, Seen, SeenOf
  <2>5. LoadsFirst'
    BY <2>1 DEF PluginsIInv, LoadsFirst, Loading
  <2> QED
    BY <1>2, <2>1, <2>5, <2>6 DEF PluginsIInv
<1>4. CASE EndLoading \/ ThrowOutOfLoop
  <2>1. /\ ready' = TRUE /\ loader' = NoCaller
        /\ caller' = [caller EXCEPT ![loader] = "has_it"]
        /\ UNCHANGED <<next, plugins, lock, asked, at, handled, enabled, touched>>
    BY <1>4 DEF EndLoading, ThrowOutOfLoop, FinishLoading
  <2>2. Seen'
    BY <2>1 DEF PluginsIInv, Seen, SeenOf, Reached, LoadedEntries
  <2>3. LoadsFirst'
    BY <1>2, <2>1 DEF PluginsIInv, LoadsFirst, Loading
  <2>4. caller' = [c \in Callers |-> caller'[c]]
    BY <2>1 DEF PluginsIInv
  <2> QED
    BY <1>2, <2>1, <2>2, <2>3, <2>4 DEF PluginsIInv
<1> QED
  BY <1>3, <1>4

LEMMA InstanceStep ==
  ASSUME PluginsIInv, NEW c \in Callers, Instance(c)
  PROVE  PluginsIInv'
<1>1. /\ caller[c] = "idle" /\ ~Loading
      /\ UNCHANGED <<next, plugins, ready, lock, asked, at, handled, enabled, touched>>
      /\ IF ready THEN loader' = loader /\ caller' = [caller EXCEPT ![c] = "has_it"]
         ELSE loader' = c /\ caller' = [caller EXCEPT ![c] = "loading"]
  BY DEF Instance
<1>2. Seen'
  BY <1>1 DEF PluginsIInv, Seen, SeenOf, Reached, LoadedEntries
<1>3. LoadsFirst'
  BY <1>1, PluginsAssumption DEF PluginsIInv, LoadsFirst, Loading
<1> QED
  BY <1>1, <1>2, <1>3 DEF PluginsIInv

LEMMA QueryStep ==
  ASSUME PluginsIInv, NEW c \in Callers, BeginQuery(c) \/ VisitPlugin(c) \/ EndQuery(c)
  PROVE  PluginsIInv'
<1>1. /\ UNCHANGED <<loader, next, plugins, ready, enabled>>
      /\ caller[c] \in {"has_it", "querying"} /\ ready
  BY DEF BeginQuery, VisitPlugin, EndQuery, PluginsIInv, LoadsFirst
<1>2. \A d \in Callers \ {c} : caller[d] = "querying" => lock = d
  BY DEF PluginsIInv, LoadsFirst
<1>3. LoadedEntries' = LoadedEntries
  BY <1>1 DEF LoadedEntries
<1>4. CASE BeginQuery(c)
  <2>1. /\ lock = NoCaller /\ lock' = c
        /\ asked' \in [everyone : BOOLEAN, having : SUBSET LoadedEntries]
        /\ UNCHANGED <<at, handled, touched>>
        /\ caller' = [caller EXCEPT ![c] = "querying"]
    BY <1>4 DEF BeginQuery
  <2>2. at = 1 /\ handled = {} /\ touched = {}
    BY <2>1 DEF PluginsIInv, Seen
  <2>3. Reached' = {}
    BY <2>1, <2>2 DEF Reached
  <2>4. lock' # NoCaller
    BY <2>1, PluginsAssumption
  <2>5. Seen'
    BY <1>1, <1>3, <2>1, <2>2, <2>3, <2>4 DEF PluginsIInv, Seen, SeenOf
  <2>6. LoadsFirst'
    BY <1>1, <2>1, PluginsAssumption DEF PluginsIInv, LoadsFirst, Loading
  <2> QED
    BY <1>1, <2>1, <2>5, <2>6 DEF PluginsIInv
<1>5. CASE VisitPlugin(c)
  <2>1. /\ at \in 1..Len(plugins) /\ at' = at + 1
        /\ handled' = IF (asked.everyone \/ plugins[at] \in enabled) /\ plugins[at] \in asked.having
                      THEN handled \cup {plugins[at]} ELSE handled
        /\ UNCHANGED <<caller, lock, asked, touched>>
        /\ caller[c] = "querying"
    BY <1>5 DEF VisitPlugin, IsEnabled
  <2>2. Reached' = Reached \cup {plugins[at]}
    BY <1>1, <2>1 DEF Reached, PluginsIInv, Seen
  <2>3. lock = c /\ lock # NoCaller
    BY <2>1, PluginsAssumption DEF PluginsIInv, LoadsFirst
  <2>4. SeenOf(Reached \cap asked.having)'
    <3>1. CASE asked.everyone
      BY <3>1, <1>1, <2>1, <2>2 DEF PluginsIInv, Seen, SeenOf
    <3>2. CASE ~asked.everyone
      BY <3>2, <1>1, <2>1, <2>2 DEF PluginsIInv, Seen, SeenOf
    <3> QED
      BY <3>1, <3>2
  <2>5. at' \in Nat \ {0} /\ at' <= Len(plugins') + 1
    BY <1>1, <2>1 DEF PluginsIInv, Seen
  <2>6. Seen'
    BY <1>1, <1>3, <2>1, <2>3, <2>4, <2>5 DEF PluginsIInv, Seen
  <2>7. LoadsFirst'
    BY <1>1, <2>1 DEF PluginsIInv, LoadsFirst, Loading
  <2> QED
    BY <1>1, <2>1, <2>6, <2>7 DEF PluginsIInv
<1>6. CASE EndQuery(c)
  <2>1. /\ lock' = NoCaller /\ caller' = [caller EXCEPT ![c] = "has_it"]
        /\ asked' = [everyone |-> FALSE, having |-> {}]
        /\ at' = 1 /\ handled' = {} /\ touched' = {} /\ caller[c] = "querying"
    BY <1>6 DEF EndQuery, NoQuery
  <2>2. Len(plugins') \in Nat
    BY <1>1 DEF PluginsIInv, Seen
  <2>3. Seen'
    BY <1>1, <2>1, <2>2 DEF PluginsIInv, Seen, SeenOf
  <2>4. \A d \in Callers : caller'[d] # "querying"
    BY <2>1 DEF PluginsIInv, LoadsFirst
  <2>5. LoadsFirst'
    BY <1>1, <2>1, <2>4 DEF PluginsIInv, LoadsFirst, Loading
  <2> QED
    BY <1>1, <2>1, <2>3, <2>5 DEF PluginsIInv
<1> QED
  BY <1>4, <1>5, <1>6

LEMMA ToggleStep ==
  ASSUME PluginsIInv, NEW p, Toggle(p)
  PROVE  PluginsIInv'
<1>1. /\ touched' = IF lock = NoCaller THEN touched ELSE touched \cup {p}
      /\ enabled' \ {p} = enabled \ {p}
      /\ UNCHANGED <<loader, next, plugins, ready, caller, lock, asked, at, handled>>
  BY DEF Toggle
<1>2. Reached' = Reached /\ LoadedEntries' = LoadedEntries
  BY <1>1 DEF Reached, LoadedEntries
<1>3. lock = NoCaller => Reached = {}
  BY DEF PluginsIInv, Seen, Reached
<1>4. SeenOf(Reached \cap asked.having)'
  BY <1>1, <1>2, <1>3 DEF PluginsIInv, Seen, SeenOf
<1>5. Seen'
  BY <1>1, <1>2, <1>4 DEF PluginsIInv, Seen
<1> QED
  BY <1>1, <1>5 DEF PluginsIInv, LoadsFirst, Loading

LEMMA PluginsStepIInv == PluginsIInv /\ [PluginsNext]_pluginVars => PluginsIInv'
<1> SUFFICES ASSUME PluginsIInv, [PluginsNext]_pluginVars PROVE PluginsIInv'
  OBVIOUS
<1>1. CASE UNCHANGED pluginVars
  BY <1>1 DEF pluginVars, PluginsIInv, LoadsFirst, Loading, Seen, SeenOf, Reached,
              LoadedEntries
<1> QED
  BY <1>1, LoadStep, InstanceStep, QueryStep, ToggleStep DEF PluginsNext

(***************************************************************************)
(* A query that ends has called its handler with exactly the plugins that  *)
(* have its function and are enabled, but for those enabled or disabled    *)
(* meanwhile, and one for "GetPlugin" with all that answered it, enabled   *)
(* or not: for any number of threads, any directory, and however long      *)
(* loading takes (Plugins::QueryInterface and QueryFunction).              *)
(***************************************************************************)
THEOREM QueriesAreExact == PluginsSpec => QueriesSeeTheEnabled
<1>1. ASSUME PluginsIInv, [PluginsNext]_pluginVars, NEW c \in Callers,
             caller[c] = "querying", caller'[c] = "has_it"
      PROVE  SeenOf(asked.having)
  <2>1. ~(LoadEntry \/ EndLoading \/ ThrowOutOfLoop)
    BY <1>1, LoadStep
  <2>2. ASSUME NEW d \in Callers, Instance(d) PROVE caller'[c] = "querying"
    BY <1>1, <2>2 DEF Instance, PluginsIInv
  <2>3. ASSUME NEW d \in Callers, BeginQuery(d) \/ VisitPlugin(d) PROVE caller'[c] = "querying"
    BY <1>1, <2>3 DEF BeginQuery, VisitPlugin, PluginsIInv
  <2>4. PICK d \in Callers : EndQuery(d)
    BY <1>1, <2>1, <2>2, <2>3 DEF PluginsNext, pluginVars, Toggle
  <2>5. lock = c /\ lock # NoCaller /\ at \notin 1..Len(plugins)
    BY <1>1, <2>4, PluginsAssumption DEF PluginsIInv, LoadsFirst, EndQuery
  <2>6. at - 1 = Len(plugins)
    BY <1>1, <2>5 DEF PluginsIInv, Seen
  <2>7. Reached = LoadedEntries
    BY <2>6 DEF Reached, LoadedEntries
  <2>8. Reached \cap asked.having = asked.having
    BY <1>1, <2>5, <2>7 DEF PluginsIInv, Seen
  <2> QED
    BY <1>1, <2>8 DEF PluginsIInv, Seen
<1>2. PluginsIInv /\ [PluginsNext]_pluginVars =>
        [\A c \in Callers :
           caller[c] = "querying" /\ caller'[c] = "has_it"
             => IF asked.everyone THEN handled = asked.having
                ELSE handled \ touched = (asked.having \cap enabled) \ touched]_pluginVars
  BY <1>1 DEF SeenOf
<1> QED
  BY <1>2, PluginsInitIInv, PluginsStepIInv, PTL DEF PluginsSpec, QueriesSeeTheEnabled

(***************************************************************************)
(* What is loaded: of the entries passed, none of which throws, the good   *)
(* ones, each once.  The constructor stops at the end, or at an entry that *)
(* throws.                                                                 *)
(***************************************************************************)
Throwing(e)   == directory[e] \in {"dangling", "throws"}
GoodBelow(k)  == {e \in Entries : e < k /\ directory[e] = "good"}
LeftOpen      == IF next \in Entries /\ directory[next] = "throws" THEN {next} ELSE {}

LoadedUpToNext ==
  /\ next \in 1..Len(directory) + 1
  /\ \A e \in Entries : e < next => ~Throwing(e)
  /\ LoadedEntries = GoodBelow(next)
  /\ Len(plugins) = Cardinality(GoodBelow(next))
  /\ IF ready THEN /\ next \in Entries => Throwing(next)
                   /\ opened = LoadedEntries \cup LeftOpen
     ELSE opened = LoadedEntries

LoadingIInv == PluginsIInv /\ PluginsTypeOK /\ LoadedUpToNext

(* The directory is a list of at most MaxEntries entries. *)
LEMMA DirectoryFacts ==
  ASSUME directory \in UNION {[1..n -> Kinds] : n \in 0..MaxEntries}
  PROVE  /\ Len(directory) \in 0..MaxEntries /\ MaxEntries \in Nat
         /\ Entries = 1..Len(directory)
         /\ Len(directory) \in Nat
<1>1. MaxEntries \in Nat
  BY PluginsAssumption
<1>2. PICK n \in 0..MaxEntries : directory \in [1..n -> Kinds]
  OBVIOUS
<1>3. directory \in Seq(Kinds)
  BY <1>1, <1>2, SeqDef
<1>4. Len(directory) = n
  BY <1>1, <1>2, <1>3, LenProperties
<1> QED
  BY <1>1, <1>4 DEF Entries

LEMMA GoodFacts ==
  ASSUME PluginsTypeOK, NEW k \in Nat
  PROVE  /\ IsFiniteSet(GoodBelow(k)) /\ Cardinality(GoodBelow(k)) \in Nat
         /\ Cardinality(GoodBelow(k)) <= Len(directory)
         /\ k \notin GoodBelow(k)
<1>1. Len(directory) \in Nat /\ Entries = 1..Len(directory)
  BY DirectoryFacts DEF PluginsTypeOK
<1>2. IsFiniteSet(Entries) /\ Cardinality(Entries) = Len(directory)
  <2> DEFINE n == Len(directory)
  <2> HIDE DEF n
  <2>1. n \in Nat /\ Entries = 1..n
    BY <1>1 DEF n
  <2>2. IsFiniteSet(1..n) /\ Cardinality(1..n) = IF 1 > n THEN 0 ELSE n - 1 + 1
    BY <2>1, FS_Interval
  <2>3. Cardinality(1..n) = n
    BY <2>1, <2>2
  <2> QED
    BY <2>1, <2>2, <2>3 DEF n
<1>3. GoodBelow(k) \subseteq Entries
  BY DEF GoodBelow
<1>4. k \notin GoodBelow(k)
  BY <1>1 DEF GoodBelow
<1> QED
  BY <1>2, <1>3, <1>4, FS_Subset, FS_CardinalityType

LEMMA LoadingInit == PluginsInit => LoadingIInv
<1> SUFFICES ASSUME PluginsInit PROVE LoadingIInv
  OBVIOUS
<1>1. plugins = <<>> /\ plugins \in Seq(1..MaxEntries) /\ Len(plugins) = 0
  BY DEF PluginsInit
<1>2. PluginsTypeOK
  <2>1. ready \in BOOLEAN
    BY DEF PluginsInit
  <2> QED
    BY <2>1, <1>1, PluginsAssumption DEF PluginsInit, PluginsTypeOK, NoQuery
<1>3. LoadedEntries = {}
  BY <1>1 DEF LoadedEntries
<1>4. GoodBelow(next) = {}
  BY DirectoryFacts DEF PluginsInit, GoodBelow
<1>5. LoadedUpToNext
  <2>1. next = 1 /\ ~ready /\ opened = {}
    BY DEF PluginsInit
  <2>2. Len(directory) \in Nat /\ Entries = 1..Len(directory)
    BY DirectoryFacts DEF PluginsInit
  <2> QED
    BY <1>1, <1>3, <1>4, <2>1, <2>2, FS_EmptySet DEF LoadedUpToNext
<1> QED
  BY <1>2, <1>5, PluginsInitIInv DEF LoadingIInv

(* One entry more, which is good or not. *)
LEMMA LoadEntryLoads ==
  ASSUME LoadingIInv, LoadEntry
  PROVE  PluginsTypeOK' /\ LoadedUpToNext'
<1>1. /\ next \in Entries /\ ~Throwing(next) /\ next' = next + 1
      /\ UNCHANGED <<directory, loader, ready, caller, lock, asked, at, handled, enabled, touched>>
      /\ IF directory[next] = "good"
         THEN plugins' = Append(plugins, next) /\ opened' = opened \cup {next}
         ELSE plugins' = plugins /\ opened' = opened
  BY DEF LoadEntry, HasSdkVersion, Throwing
<1>2. ~ready
  BY DEF LoadEntry, LoadingIInv, PluginsIInv, LoadsFirst
<1>3. /\ Len(directory) \in Nat /\ MaxEntries \in Nat /\ Len(directory) <= MaxEntries
      /\ Entries = 1..Len(directory) /\ next \in Nat
  BY <1>1, DirectoryFacts DEF LoadingIInv, PluginsTypeOK
<1>4. Entries' = Entries
  BY <1>1 DEF Entries
<1>5. next' \in 1..Len(directory) + 1 /\ next \in 1..MaxEntries
  BY <1>1, <1>3
<1>6. plugins \in Seq(1..MaxEntries) /\ Len(plugins) \in Nat
  BY DEF LoadingIInv, PluginsTypeOK
<1>7. \A e \in Entries : e < next' => ~Throwing(e)'
  BY <1>1, <1>3 DEF LoadingIInv, LoadedUpToNext, Throwing
<1>8. CASE directory[next] = "good"
  <2>1. /\ plugins' \in Seq(1..MaxEntries) /\ Len(plugins') = Len(plugins) + 1
        /\ \A i \in 1..Len(plugins) : plugins'[i] = plugins[i]
        /\ plugins'[Len(plugins) + 1] = next
    <3>1. plugins' = Append(plugins, next)
      BY <1>1, <1>8
    <3> QED
      BY <3>1, <1>5, <1>6, AppendProperties
  <2>2. LoadedEntries' = LoadedEntries \cup {next}
    BY <2>1, <1>6 DEF LoadedEntries
  <2>3. GoodBelow(next)' = GoodBelow(next) \cup {next}
    BY <1>1, <1>3, <1>4, <1>8 DEF GoodBelow
  <2>4. Cardinality(GoodBelow(next)') = Cardinality(GoodBelow(next)) + 1
    BY <2>3, <1>3, GoodFacts, FS_AddElement DEF LoadingIInv
  <2>5. opened' = LoadedEntries' /\ opened' \subseteq Entries
    BY <2>2, <1>1, <1>2, <1>8 DEF LoadingIInv, LoadedUpToNext, PluginsTypeOK
  <2>6. LoadedUpToNext'
    BY <2>1, <2>2, <2>3, <2>4, <2>5, <1>1, <1>2, <1>4, <1>5, <1>7
    DEF LoadingIInv, LoadedUpToNext
  <2>7. PluginsTypeOK'
    BY <2>1, <2>5, <1>1, <1>3, <1>4, <1>5 DEF LoadingIInv, PluginsTypeOK
  <2> QED
    BY <2>6, <2>7
<1>9. CASE directory[next] # "good"
  <2>1. plugins' = plugins /\ opened' = opened /\ LoadedEntries' = LoadedEntries
    BY <1>1, <1>9 DEF LoadedEntries
  <2>2. GoodBelow(next)' = GoodBelow(next)
    BY <1>1, <1>3, <1>4, <1>9 DEF GoodBelow
  <2>3. LoadedUpToNext'
    BY <2>1, <2>2, <1>1, <1>2, <1>4, <1>5, <1>7 DEF LoadingIInv, LoadedUpToNext
  <2>4. PluginsTypeOK'
    BY <2>1, <1>1, <1>3, <1>4, <1>5 DEF LoadingIInv, PluginsTypeOK
  <2> QED
    BY <2>3, <2>4
<1> QED
  BY <1>8, <1>9

LEMMA FinishLoads ==
  ASSUME LoadingIInv, EndLoading \/ ThrowOutOfLoop
  PROVE  PluginsTypeOK' /\ LoadedUpToNext'
<1>1. /\ ready' = TRUE /\ loader' = NoCaller
      /\ caller' = [caller EXCEPT ![loader] = "has_it"]
      /\ UNCHANGED <<directory, next, plugins, lock, asked, at, handled, enabled, touched>>
      /\ next \in Entries => Throwing(next)
      /\ opened' = opened \cup LeftOpen
  BY DEF EndLoading, ThrowOutOfLoop, FinishLoading, LeftOpen, Throwing
<1>2. ~ready
  BY DEF EndLoading, ThrowOutOfLoop, LoadingIInv, PluginsIInv, LoadsFirst
<1>3. /\ UNCHANGED <<Entries, LoadedEntries, GoodBelow(next), LeftOpen>>
      /\ LeftOpen \subseteq Entries
      /\ \A e : Throwing(e)' = Throwing(e)
  BY <1>1 DEF Entries, LoadedEntries, GoodBelow, LeftOpen, Throwing
<1>4. LoadedUpToNext'
  BY <1>1, <1>2, <1>3 DEF LoadingIInv, LoadedUpToNext
<1>5. PluginsTypeOK'
  BY <1>1, <1>3 DEF LoadingIInv, PluginsTypeOK
<1> QED
  BY <1>4, <1>5

(* A query, or a change of the preferences, loads nothing. *)
LEMMA QueryLoadsNothing ==
  ASSUME LoadingIInv,
         \/ \E c \in Callers : Instance(c) \/ BeginQuery(c) \/ VisitPlugin(c) \/ EndQuery(c)
         \/ \E p \in 1..MaxEntries : Toggle(p)
         \/ UNCHANGED pluginVars
  PROVE  PluginsTypeOK' /\ LoadedUpToNext'
<1>1. UNCHANGED <<directory, next, plugins, opened, ready>>
  BY DEF Instance, BeginQuery, VisitPlugin, EndQuery, Toggle, pluginVars
<1>2. /\ UNCHANGED <<Entries, LoadedEntries, GoodBelow(next), LeftOpen>>
      /\ \A e : Throwing(e)' = Throwing(e)
  BY <1>1 DEF Entries, LoadedEntries, GoodBelow, LeftOpen, Throwing
<1>3. LoadedUpToNext'
  BY <1>1, <1>2 DEF LoadingIInv, LoadedUpToNext
<1>4. /\ Len(plugins) \in 0..MaxEntries /\ MaxEntries \in Nat
      /\ LoadedEntries \subseteq Entries
  <2>1. Len(directory) \in 0..MaxEntries /\ MaxEntries \in Nat /\ next \in Nat
    BY DirectoryFacts DEF LoadingIInv, PluginsTypeOK
  <2>2. Len(plugins) = Cardinality(GoodBelow(next)) /\ LoadedEntries = GoodBelow(next)
    BY DEF LoadingIInv, LoadedUpToNext
  <2>3. Cardinality(GoodBelow(next)) \in Nat /\ Cardinality(GoodBelow(next)) <= Len(directory)
    BY <2>1, GoodFacts DEF LoadingIInv
  <2> QED
    BY <2>1, <2>2, <2>3 DEF GoodBelow
<1>5. ASSUME NEW c \in Callers, Instance(c) \/ BeginQuery(c) \/ EndQuery(c)
      PROVE  PluginsTypeOK'
  <2>1. caller' \in [Callers -> {"idle", "loading", "has_it", "querying"}]
    BY <1>5 DEF Instance, BeginQuery, EndQuery, LoadingIInv, PluginsTypeOK
  <2>2. loader' \in Callers \cup {NoCaller} /\ lock' \in Callers \cup {NoCaller}
    BY <1>5 DEF Instance, BeginQuery, EndQuery, LoadingIInv, PluginsTypeOK
  <2>3. /\ at' \in {1, at} /\ handled' \in {{}, handled} /\ touched' \in {{}, touched}
        /\ enabled' = enabled
    BY <1>5 DEF Instance, BeginQuery, EndQuery
  <2>4. asked' \in [everyone : BOOLEAN, having : SUBSET Entries]
    <3>1. asked \in [everyone : BOOLEAN, having : SUBSET Entries]
      BY DEF LoadingIInv, PluginsTypeOK
    <3>2. [everyone |-> FALSE, having |-> {}] \in [everyone : BOOLEAN, having : SUBSET Entries]
      OBVIOUS
    <3>3. \A q \in [everyone : BOOLEAN, having : SUBSET LoadedEntries] :
            q \in [everyone : BOOLEAN, having : SUBSET Entries]
      BY <1>4
    <3>4. \/ asked' = asked
          \/ asked' = [everyone |-> FALSE, having |-> {}]
          \/ asked' \in [everyone : BOOLEAN, having : SUBSET LoadedEntries]
      BY <1>5 DEF Instance, BeginQuery, EndQuery, NoQuery
    <3> QED
      BY <3>1, <3>2, <3>3, <3>4
  <2> QED
    BY <1>1, <1>2, <1>4, <2>1, <2>2, <2>3, <2>4 DEF LoadingIInv, PluginsTypeOK
<1>6. ASSUME NEW c \in Callers, VisitPlugin(c)
      PROVE  PluginsTypeOK'
  <2>1. plugins[at] \in Entries /\ at + 1 \in 1..(MaxEntries + 1)
    BY <1>4, <1>6 DEF VisitPlugin, LoadedEntries
  <2> QED
    BY <1>1, <1>2, <1>6, <2>1 DEF VisitPlugin, LoadingIInv, PluginsTypeOK
<1>7. ASSUME NEW p \in 1..MaxEntries, Toggle(p)
      PROVE  PluginsTypeOK'
  <2>1. UNCHANGED <<directory, loader, next, plugins, opened, ready, caller, lock, asked, at,
                    handled>>
    BY <1>7 DEF Toggle
  <2>2. enabled' \in SUBSET (1..MaxEntries)
    BY <1>7 DEF Toggle, LoadingIInv, PluginsTypeOK
  <2>3. touched' \in SUBSET Entries
    BY <1>4, <1>7 DEF Toggle, LoadingIInv, PluginsTypeOK
  <2> QED
    BY <1>1, <1>2, <2>1, <2>2, <2>3 DEF LoadingIInv, PluginsTypeOK
<1>8. CASE UNCHANGED pluginVars
  <2>1. UNCHANGED <<loader, caller, lock, asked, at, handled, enabled, touched>>
    BY <1>8 DEF pluginVars
  <2> QED
    BY <1>1, <1>2, <1>3, <2>1 DEF LoadingIInv, PluginsTypeOK
<1> QED
  BY <1>3, <1>5, <1>6, <1>7, <1>8

LEMMA LoadingInvariance == PluginsSpec => []LoadingIInv
<1>1. LoadingIInv /\ [PluginsNext]_pluginVars => LoadingIInv'
  <2> SUFFICES ASSUME LoadingIInv, [PluginsNext]_pluginVars PROVE LoadingIInv'
    OBVIOUS
  <2>1. PluginsIInv'
    BY PluginsStepIInv DEF LoadingIInv
  <2>2. PluginsTypeOK' /\ LoadedUpToNext'
    BY LoadEntryLoads, FinishLoads, QueryLoadsNothing DEF PluginsNext
  <2> QED
    BY <2>1, <2>2 DEF LoadingIInv
<1> QED
  BY <1>1, LoadingInit, PTL DEF PluginsSpec

(***************************************************************************)
(* Whoever has the instance sees the good plugins in front of the first    *)
(* entry that throws, all of them and each once, with no other library     *)
(* open but that of the entry that threw: for any directory and any number *)
(* of threads that ask (Plugins::LoadPlugins).                             *)
(***************************************************************************)
THEOREM LoadsAllOrUpToAThrow == PluginsSpec => []AllOrUpToTheFirstThatThrows
<1>1. LoadingIInv => AllOrUpToTheFirstThatThrows
  <2> DEFINE throwing == {e \in Entries : directory[e] \in {"dangling", "throws"}}
  <2> DEFINE good == {e \in Entries : directory[e] = "good" /\ \A x \in throwing : e < x}
  <2> SUFFICES ASSUME LoadingIInv, NEW c \in Callers, caller[c] \in {"has_it", "querying"}
               PROVE  /\ LoadedEntries = good /\ Len(plugins) = Cardinality(good)
                      /\ \E rest \in SUBSET throwing :
                           Cardinality(rest) <= 1 /\ opened = LoadedEntries \cup rest
    BY DEF AllOrUpToTheFirstThatThrows
  <2>1. ready
    BY DEF LoadingIInv, PluginsIInv, LoadsFirst
  <2>2. /\ next \in Entries => next \in throwing
        /\ \A e \in throwing : ~(e < next)
        /\ next \in 1..Len(directory) + 1
    BY <2>1 DEF LoadingIInv, LoadedUpToNext, Throwing
  <2>3. Entries = 1..Len(directory) /\ Len(directory) \in Nat
    BY DirectoryFacts DEF LoadingIInv, PluginsTypeOK
  <2>4. GoodBelow(next) = good
    <3>1. ASSUME NEW e \in Entries, \A x \in throwing : e < x PROVE e < next
      BY <3>1, <2>2, <2>3
    <3>2. ASSUME NEW e \in Entries, e < next, NEW x \in throwing PROVE e < x
      BY <3>2, <2>2, <2>3
    <3> HIDE DEF throwing
    <3> QED
      BY <3>1, <3>2 DEF GoodBelow
  <2>5. LeftOpen \in SUBSET throwing /\ Cardinality(LeftOpen) <= 1
    <3>1. LeftOpen \in {{next}, {}}
      BY DEF LeftOpen
    <3>2. Cardinality({next}) = 1 /\ Cardinality({}) = 0
      BY FS_Singleton, FS_EmptySet
    <3>3. LeftOpen \subseteq throwing
      BY DEF LeftOpen
    <3>4. Cardinality(LeftOpen) \in {0, 1}
      BY <3>1, <3>2
    <3> QED
      BY <3>3, <3>4
  <2>6. opened = LoadedEntries \cup LeftOpen
    BY <2>1 DEF LoadingIInv, LoadedUpToNext
  <2> QED
    BY <2>4, <2>5, <2>6 DEF LoadingIInv, LoadedUpToNext
<1> QED
  BY <1>1, LoadingInvariance, PTL

-----------------------------------------------------------------------------
(* Schemas.                                                                *)

(* The entries of one list have no string in common. *)
Disjoint(list) == \A i, j \in DOMAIN list : i # j => list[i].owned \cap list[j].owned = {}

(* Of the entries with a name, if there are any, one is the first. *)
Named(list, name) == {i \in DOMAIN list : list[i].name = name}
IsFirst(list, name, i) == i \in Named(list, name) /\ \A j \in Named(list, name) : i <= j
HasFirsts(list) ==
  \A name \in EntryNames : Named(list, name) # {} => \E i \in DOMAIN list : IsFirst(list, name, i)

SchemaIInv ==
  /\ SchemaTypeOK
  /\ StringsHaveOneOwner
  /\ \A s \in Schemas : Disjoint(entries[s]) /\ HasFirsts(entries[s])

(* Entries are their own strings' owners: no string of theirs is in use. *)
Fresh(added) ==
  /\ added \in Seq(Entry)
  /\ \A i \in DOMAIN added : added[i].owned \cap heap = {}
  /\ Disjoint(added)
  /\ HasFirsts(added)

LEMMA SchemaInitIInv == SchemaInit => SchemaIInv
<1> SUFFICES ASSUME SchemaInit PROVE SchemaIInv
  OBVIOUS
<1>1. /\ \A s \in Schemas : entries[s] = <<>> /\ DOMAIN entries[s] = {}
      /\ entries \in [Schemas -> Seq(Entry)]
  BY DEF SchemaInit
<1>2. SchemaTypeOK
  BY <1>1 DEF SchemaInit, SchemaTypeOK
<1>3. \A s \in Schemas : Owned(s) = {}
  BY <1>1 DEF Owned
<1>4. StringsHaveOneOwner
  BY <1>3 DEF SchemaInit, StringsHaveOneOwner
<1>5. \A s \in Schemas : Disjoint(entries[s]) /\ HasFirsts(entries[s])
  BY <1>1 DEF Disjoint, HasFirsts, Named
<1> QED
  BY <1>2, <1>4, <1>5 DEF SchemaIInv

(***************************************************************************)
(* Two lists in a row: a name that the first has is found where it was.    *)
(***************************************************************************)
LEMMA ConcatFacts ==
  ASSUME NEW list \in Seq(Entry), NEW added \in Seq(Entry)
  PROVE  /\ list \o added \in Seq(Entry)
         /\ Len(list) \in Nat /\ Len(added) \in Nat
         /\ DOMAIN list = 1..Len(list) /\ DOMAIN added = 1..Len(added)
         /\ DOMAIN (list \o added) = 1..Len(list) + Len(added)
         /\ \A i \in 1..Len(list) : (list \o added)[i] = list[i]
         /\ \A i \in 1..Len(added) : (list \o added)[Len(list) + i] = added[i]
<1>1. /\ list \o added \in Seq(Entry) /\ Len(list \o added) = Len(list) + Len(added)
      /\ \A i \in 1..Len(list) + Len(added) :
           (list \o added)[i] = IF i <= Len(list) THEN list[i] ELSE added[i - Len(list)]
  BY ConcatProperties
<1>2. Len(list) \in Nat /\ Len(added) \in Nat
  BY LenProperties
<1>3. /\ DOMAIN list = 1..Len(list) /\ DOMAIN added = 1..Len(added)
      /\ DOMAIN (list \o added) = 1..Len(list) + Len(added)
  BY <1>1, LenProperties
<1>4. \A i \in 1..Len(list) : (list \o added)[i] = list[i]
  BY <1>1, <1>2
<1>5. ASSUME NEW i \in 1..Len(added)
      PROVE  (list \o added)[Len(list) + i] = added[i]
  <2>1. /\ Len(list) + i \in 1..Len(list) + Len(added) /\ ~(Len(list) + i <= Len(list))
        /\ (Len(list) + i) - Len(list) = i
    BY <1>2
  <2> QED
    BY <2>1, <1>1
<1> QED
  BY <1>1, <1>2, <1>3, <1>4, <1>5

LEMMA ConcatFirsts ==
  ASSUME NEW list \in Seq(Entry), NEW added \in Seq(Entry),
         HasFirsts(list), HasFirsts(added)
  PROVE  /\ HasFirsts(list \o added)
         /\ \A name \in EntryNames, i \in DOMAIN list :
              IsFirst(list, name, i) => IsFirst(list \o added, name, i)
<1> DEFINE both == list \o added
<1> DEFINE n == Len(list)
<1>1. /\ n \in Nat /\ Len(added) \in Nat
      /\ DOMAIN list = 1..n /\ DOMAIN added = 1..Len(added) /\ DOMAIN both = 1..n + Len(added)
      /\ \A i \in 1..n : both[i] = list[i]
      /\ \A i \in 1..Len(added) : both[n + i] = added[i]
  BY ConcatFacts
<1> HIDE DEF both, n
<1>2. \A j \in DOMAIN both : j \in 1..n \/ \E k \in 1..Len(added) : j = n + k
  <2>1. ASSUME NEW j \in 1..n + Len(added), ~(j \in 1..n)
        PROVE  \E k \in 1..Len(added) : j = n + k
    <3>1. j - n \in 1..Len(added) /\ j = n + (j - n)
      BY <2>1, <1>1
    <3> QED
      BY <3>1
  <2> QED
    BY <2>1, <1>1
<1>3. ASSUME NEW name \in EntryNames, NEW i \in DOMAIN list, IsFirst(list, name, i)
      PROVE  IsFirst(both, name, i)
  <2>1. i \in Named(both, name)
    BY <1>1, <1>3 DEF IsFirst, Named
  <2>2. ASSUME NEW j \in Named(both, name) PROVE i <= j
    <3>1. CASE j \in 1..n
      BY <3>1, <2>2, <1>1, <1>3 DEF IsFirst, Named
    <3>2. CASE \E k \in 1..Len(added) : j = n + k
      BY <3>2, <1>1
    <3> QED
      BY <3>1, <3>2, <1>2, <2>2 DEF Named
  <2> QED
    BY <2>1, <2>2 DEF IsFirst
<1>4. ASSUME NEW name \in EntryNames, Named(both, name) # {}
      PROVE  \E i \in DOMAIN both : IsFirst(both, name, i)
  <2>1. CASE Named(list, name) # {}
    <3>1. PICK i \in DOMAIN list : IsFirst(list, name, i)
      BY <2>1 DEF HasFirsts
    <3>2. IsFirst(both, name, i)
      BY <3>1, <1>3
    <3> QED
      BY <3>2 DEF IsFirst, Named
  <2>2. CASE Named(list, name) = {}
    <3>1. ASSUME NEW j \in Named(both, name)
          PROVE  \E k \in Named(added, name) : j = n + k
      <4>1. j \in DOMAIN both /\ both[j].name = name
        BY DEF Named
      <4>2. j \notin 1..n
        BY <4>1, <2>2, <1>1 DEF Named
      <4>3. PICK k \in 1..Len(added) : j = n + k
        BY <4>1, <4>2, <1>2
      <4>4. k \in Named(added, name)
        BY <4>1, <4>3, <1>1 DEF Named
      <4> QED
        BY <4>3, <4>4
    <3>2. Named(added, name) # {}
      BY <3>1, <1>4
    <3>3. PICK k \in DOMAIN added : IsFirst(added, name, k)
      BY <3>2 DEF HasFirsts
    <3>4. n + k \in DOMAIN both /\ both[n + k] = added[k] /\ added[k].name = name
      BY <3>3, <1>1 DEF IsFirst, Named
    <3>5. \A j \in Named(both, name) : n + k <= j
      BY <3>1, <3>3, <1>1 DEF IsFirst, Named
    <3>6. IsFirst(both, name, n + k)
      BY <3>4, <3>5 DEF IsFirst, Named
    <3> QED
      BY <3>4, <3>6
  <2> QED
    BY <2>1, <2>2
<1> QED
  BY <1>3, <1>4 DEF HasFirsts, both

LEMMA ConcatDisjoint ==
  ASSUME NEW list \in Seq(Entry), NEW added \in Seq(Entry), Disjoint(list), Disjoint(added),
         \A i \in DOMAIN list, j \in DOMAIN added : list[i].owned \cap added[j].owned = {}
  PROVE  Disjoint(list \o added)
<1> DEFINE both == list \o added
<1> DEFINE n == Len(list)
<1>1. /\ n \in Nat /\ Len(added) \in Nat
      /\ DOMAIN list = 1..n /\ DOMAIN added = 1..Len(added) /\ DOMAIN both = 1..n + Len(added)
      /\ \A i \in 1..n : both[i] = list[i]
      /\ \A i \in 1..Len(added) : both[n + i] = added[i]
  BY ConcatFacts
<1> HIDE DEF both, n
<1>2. ASSUME NEW j \in DOMAIN both
      PROVE  j \in DOMAIN list \/ \E k \in DOMAIN added : j = n + k
  <2>1. j \in 1..n \/ (j - n \in 1..Len(added) /\ j = n + (j - n))
    BY <1>1
  <2> QED
    BY <2>1, <1>1
<1>3. ASSUME NEW i \in DOMAIN both, NEW j \in DOMAIN both, i # j
      PROVE  both[i].owned \cap both[j].owned = {}
  <2>1. CASE i \in DOMAIN list /\ j \in DOMAIN list
    BY <2>1, <1>1, <1>3 DEF Disjoint
  <2>2. ASSUME NEW k \in DOMAIN added, NEW l \in DOMAIN added, i = n + k, j = n + l
        PROVE  both[i].owned \cap both[j].owned = {}
    BY <2>2, <1>1, <1>3 DEF Disjoint
  <2>3. ASSUME NEW k \in DOMAIN added, i \in DOMAIN list /\ j = n + k
        PROVE  both[i].owned \cap both[j].owned = {}
    <3>1. both[i] = list[i] /\ both[j] = added[k]
      BY <2>3, <1>1
    <3> QED
      BY <3>1, <2>3
  <2>4. ASSUME NEW k \in DOMAIN added, j \in DOMAIN list /\ i = n + k
        PROVE  both[i].owned \cap both[j].owned = {}
    <3>1. both[j] = list[j] /\ both[i] = added[k]
      BY <2>4, <1>1
    <3> QED
      BY <3>1, <2>4
  <2> QED
    BY <2>1, <2>2, <2>3, <2>4, <1>2
<1> QED
  BY <1>3 DEF Disjoint, both

(* What is allocated lies at free places, each entry's at one of its own. *)
LEMMA PlacesFacts ==
  ASSUME NEW n \in Nat, NEW spots \in AllocString(n)
  PROVE  /\ \A i \in 1..n : spots[i] \in 1..MaxPlaces /\ IsFree(spots[i])
         /\ \A i, j \in 1..n : i # j => spots[i] # spots[j]
<1>1. /\ spots \in [1..n -> {x \in 1..MaxPlaces : IsFree(x)}]
      /\ \A i \in 1..n, x \in 1..MaxPlaces :
           x < spots[i] /\ IsFree(x) <=> \E j \in 1..i - 1 : x = spots[j]
  BY DEF AllocString
<1>2. \A i \in 1..n : spots[i] \in 1..MaxPlaces /\ IsFree(spots[i])
  BY <1>1
<1>3. ASSUME NEW i \in 1..n, NEW j \in 1..n, j < i PROVE spots[j] < spots[i]
  <2>1. j \in 1..i - 1
    BY <1>3
  <2> QED
    BY <2>1, <1>1, <1>2
<1>4. ASSUME NEW i \in 1..n, NEW j \in 1..n, i # j PROVE spots[i] # spots[j]
  <2>1. j < i \/ i < j
    BY <1>4
  <2>2. spots[i] \in Int /\ spots[j] \in Int
    BY <1>2, SchemaAssumption
  <2> QED
    BY <2>1, <2>2, <1>3
<1> QED
  BY <1>2, <1>4

LEMMA AddEntryFacts ==
  ASSUME NEW type \in Types, NEW name \in EntryNames, NEW place \in 1..MaxPlaces
  PROVE  /\ AddEntry(type, name, place) \in Entry
         /\ AddEntry(type, name, place).name = name
         /\ \A x \in AddEntry(type, name, place).owned : x[1] = place
         /\ IsFree(place) => AddEntry(type, name, place).owned \cap heap = {}
<1> DEFINE own == {place} \X (1..Needed(type))
<1>1. Needed(type) \in 1..4
  BY SchemaAssumption DEF Needed
<1>2. own \subseteq Strings
  BY <1>1 DEF Strings
<1>3. \A x \in own : x[1] = place
  OBVIOUS
<1>4. AddEntry(type, name, place) = [type |-> type, name |-> name, owned |-> own]
  BY DEF AddEntry
<1> HIDE DEF own
<1>5. IsFree(place) => own \cap heap = {}
  BY <1>3 DEF IsFree
<1> QED
  BY <1>2, <1>3, <1>4, <1>5 DEF Entry

(***************************************************************************)
(* Entries that Add brings own strings of their own, whatever the others   *)
(* do: their names and types are all they have in common with a model.     *)
(***************************************************************************)
LEMMA AddedAreFresh ==
  ASSUME NEW n \in Nat, NEW spots \in AllocString(n), NEW added, DOMAIN added = 1..n,
         added = [i \in 1..n |-> added[i]], HasFirsts(added),
         \A i \in 1..n : \E type \in Types, name \in EntryNames :
           added[i] = AddEntry(type, name, spots[i])
  PROVE  Fresh(added)
<1>1. ASSUME NEW i \in 1..n
      PROVE  /\ added[i] \in Entry /\ added[i].owned \cap heap = {}
             /\ \A x \in added[i].owned : x[1] = spots[i]
  <2>1. PICK type \in Types, name \in EntryNames : added[i] = AddEntry(type, name, spots[i])
    OBVIOUS
  <2>2. spots[i] \in 1..MaxPlaces /\ IsFree(spots[i])
    BY PlacesFacts
  <2> QED
    BY <2>1, <2>2, AddEntryFacts
<1>2. added \in Seq(Entry)
  <2>1. added \in [1..n -> Entry]
    BY <1>1
  <2> QED
    BY <2>1, SeqDef
<1>3. Disjoint(added)
  BY <1>1, PlacesFacts DEF Disjoint
<1> QED
  BY <1>1, <1>2, <1>3 DEF Fresh

LEMMA AddNewIsFresh ==
  ASSUME NEW type \in Types, NEW name \in EntryNames, NEW spots \in AllocString(1)
  PROVE  Fresh(<<AddEntry(type, name, spots[1])>>)
<1> DEFINE added == <<AddEntry(type, name, spots[1])>>
<1>1. DOMAIN added = 1..1 /\ added = [i \in 1..1 |-> added[i]]
  OBVIOUS
<1>2. \A i \in 1..1 : i = 1 /\ added[i] = AddEntry(type, name, spots[i])
  OBVIOUS
<1>3. HasFirsts(added)
  <2> SUFFICES ASSUME NEW nm \in EntryNames, Named(added, nm) # {}
               PROVE  \E i \in DOMAIN added : IsFirst(added, nm, i)
    BY DEF HasFirsts
  <2>1. IsFirst(added, nm, 1)
    BY <1>1, <1>2 DEF IsFirst, Named
  <2> QED
    BY <2>1, <1>1
<1> HIDE DEF added
<1>4. Fresh(added)
  BY <1>1, <1>2, <1>3, AddedAreFresh
<1> QED
  BY <1>4 DEF added

LEMMA AddAllIsFresh ==
  ASSUME SchemaIInv, NEW other \in Schemas, NEW spots \in AllocString(Len(entries[other]))
  PROVE  Fresh([i \in 1..Len(entries[other]) |-> CopyEntry(entries[other][i], spots[i])])
<1> DEFINE list == entries[other]
<1> DEFINE n == Len(list)
<1> DEFINE added == [i \in 1..n |-> CopyEntry(list[i], spots[i])]
<1>1. list \in Seq(Entry) /\ HasFirsts(list)
  BY DEF SchemaIInv, SchemaTypeOK
<1> HIDE DEF list
<1>2. n \in Nat /\ DOMAIN list = 1..n /\ \A i \in 1..n : list[i] \in Entry
  BY <1>1, LenProperties, ElementOfSeq
<1>3. spots \in AllocString(n)
  BY DEF list
<1> HIDE DEF n
<1>4. \A i \in 1..n : added[i] = AddEntry(list[i].type, list[i].name, spots[i])
                       /\ list[i].type \in Types /\ list[i].name \in EntryNames
  BY <1>2 DEF CopyEntry, Entry
<1>5. DOMAIN added = 1..n /\ added = [i \in 1..n |-> added[i]]
  OBVIOUS
<1> HIDE DEF added
<1>6. \A i \in 1..n : added[i].name = list[i].name
  BY <1>2, <1>3, <1>4, PlacesFacts, AddEntryFacts
<1>7. \A name : Named(added, name) = Named(list, name)
  BY <1>2, <1>5, <1>6 DEF Named
<1>8. HasFirsts(added)
  BY <1>1, <1>2, <1>5, <1>7 DEF HasFirsts, IsFirst
<1>9. Fresh(added)
  <2>1. \A i \in 1..n : \E type \in Types, name \in EntryNames :
          added[i] = AddEntry(type, name, spots[i])
    BY <1>4
  <2> QED
    BY <2>1, <1>2, <1>3, <1>5, <1>8, AddedAreFresh
<1> QED
  BY <1>9 DEF added, n, list

(* Fresh entries join one schema, and what it had is found where it was.   *)
LEMMA BuildStep ==
  ASSUME SchemaIInv, NEW s \in Schemas, NEW added, Fresh(added), Build(s, added)
  PROVE  /\ SchemaIInv'
         /\ \A t \in Schemas, name \in EntryNames : \A i \in DOMAIN entries[t] :
              IsFirst(entries[t], name, i) =>
                IsFirst(entries'[t], name, i) /\ entries'[t][i] = entries[t][i]
<1>1. /\ entries' = [entries EXCEPT ![s] = entries[s] \o added]
      /\ heap' = heap \cup UNION {added[i].owned : i \in DOMAIN added}
      /\ released' = released /\ freedTwice' = freedTwice
  BY DEF Build
<1>2. /\ entries \in [Schemas -> Seq(Entry)] /\ heap \subseteq Strings /\ added \in Seq(Entry)
      /\ heap = UNION {Owned(t) : t \in Schemas} /\ ~freedTwice
      /\ \A t, u \in Schemas : t # u => Owned(t) \cap Owned(u) = {}
      /\ \A t \in Schemas : Disjoint(entries[t]) /\ HasFirsts(entries[t])
  BY DEF SchemaIInv, SchemaTypeOK, StringsHaveOneOwner, Fresh
<1>3. /\ entries'[s] = entries[s] \o added
      /\ \A t \in Schemas \ {s} : entries'[t] = entries[t]
      /\ entries[s] \in Seq(Entry)
  BY <1>1, <1>2
<1>4. /\ entries'[s] \in Seq(Entry)
      /\ DOMAIN entries[s] = 1..Len(entries[s]) /\ DOMAIN added = 1..Len(added)
      /\ Len(entries[s]) \in Nat /\ Len(added) \in Nat
      /\ DOMAIN entries'[s] = 1..Len(entries[s]) + Len(added)
      /\ \A i \in 1..Len(entries[s]) : entries'[s][i] = entries[s][i]
      /\ \A i \in 1..Len(added) : entries'[s][Len(entries[s]) + i] = added[i]
  BY <1>2, <1>3, ConcatFacts
<1> DEFINE new == UNION {added[i].owned : i \in DOMAIN added}
<1>5. new \cap heap = {} /\ new \subseteq Strings
  <2>1. \A i \in DOMAIN added : added[i].owned \cap heap = {}
    BY DEF Fresh
  <2>2. \A i \in DOMAIN added : added[i] \in Entry
    BY <1>2, <1>4, ElementOfSeq
  <2> QED
    BY <2>1, <2>2 DEF Entry
<1>6. heap' = heap \cup new
  BY <1>1
<1> HIDE DEF new
<1>7. Owned(s)' = Owned(s) \cup new
  <2>1. ASSUME NEW x \in Owned(s)' PROVE x \in Owned(s) \cup new
    <3>1. PICK j \in 1..Len(entries[s]) + Len(added) : x \in entries'[s][j].owned
      BY <2>1, <1>4 DEF Owned
    <3>2. CASE j \in 1..Len(entries[s])
      BY <3>1, <3>2, <1>4 DEF Owned
    <3>3. CASE j \notin 1..Len(entries[s])
      <4>1. /\ j - Len(entries[s]) \in 1..Len(added)
            /\ j = Len(entries[s]) + (j - Len(entries[s]))
        BY <3>3, <1>4
      <4>2. entries'[s][j] = added[j - Len(entries[s])]
        BY <4>1, <1>4
      <4> QED
        BY <4>1, <4>2, <3>1, <1>4 DEF new
    <3> QED
      BY <3>2, <3>3
  <2>2. ASSUME NEW x \in Owned(s) PROVE x \in Owned(s)'
    <3>1. PICK j \in 1..Len(entries[s]) : x \in entries[s][j].owned
      BY <2>2, <1>4 DEF Owned
    <3>2. j \in DOMAIN entries'[s] /\ entries'[s][j] = entries[s][j]
      BY <1>4
    <3> QED
      BY <3>1, <3>2 DEF Owned
  <2>3. ASSUME NEW x \in new PROVE x \in Owned(s)'
    <3>1. PICK j \in 1..Len(added) : x \in added[j].owned
      BY <2>3, <1>4 DEF new
    <3>2. Len(entries[s]) + j \in DOMAIN entries'[s]
          /\ entries'[s][Len(entries[s]) + j] = added[j]
      BY <1>4
    <3> QED
      BY <3>1, <3>2 DEF Owned
  <2> QED
    BY <2>1, <2>2, <2>3
<1>8. \A t \in Schemas \ {s} : Owned(t)' = Owned(t)
  BY <1>3 DEF Owned
<1>9. StringsHaveOneOwner'
  <2>1. heap' = UNION {Owned(t)' : t \in Schemas}
    BY <1>2, <1>6, <1>7, <1>8
  <2>2. \A t \in Schemas : Owned(t) \cap new = {}
    BY <1>2, <1>5
  <2>3. \A t, u \in Schemas : t # u => Owned(t)' \cap Owned(u)' = {}
    BY <2>2, <1>2, <1>7, <1>8
  <2> QED
    BY <2>1, <2>3, <1>1, <1>2 DEF StringsHaveOneOwner
<1>10. SchemaTypeOK'
  <2>1. entries' \in [Schemas -> Seq(Entry)]
    BY <1>1, <1>2, <1>3, <1>4
  <2> QED
    BY <2>1, <1>1, <1>2, <1>5, <1>6 DEF SchemaIInv, SchemaTypeOK
<1>11. Disjoint(entries'[s]) /\ HasFirsts(entries'[s])
  <2>1. ASSUME NEW i \in DOMAIN entries[s], NEW j \in DOMAIN added
        PROVE  entries[s][i].owned \cap added[j].owned = {}
    <3>1. entries[s][i].owned \subseteq Owned(s)
      BY DEF Owned
    <3>2. Owned(s) \subseteq heap
      BY <1>2
    <3> QED
      BY <3>1, <3>2 DEF Fresh
  <2>2. Disjoint(entries[s] \o added)
    BY <2>1, <1>2, <1>3, ConcatDisjoint DEF Fresh
  <2>3. HasFirsts(entries[s] \o added)
    BY <1>2, <1>3, ConcatFirsts DEF Fresh
  <2> QED
    BY <2>2, <2>3, <1>3
<1>12. \A t \in Schemas : Disjoint(entries'[t]) /\ HasFirsts(entries'[t])
  BY <1>2, <1>3, <1>11
<1>13. ASSUME NEW t \in Schemas, NEW name \in EntryNames, NEW i \in DOMAIN entries[t],
              IsFirst(entries[t], name, i)
       PROVE  IsFirst(entries'[t], name, i) /\ entries'[t][i] = entries[t][i]
  <2>1. CASE t = s
    <3>1. IsFirst(entries[s] \o added, name, i)
      BY <2>1, <1>2, <1>3, <1>13, ConcatFirsts DEF Fresh
    <3> QED
      BY <3>1, <2>1, <1>3, <1>4
  <2>2. CASE t # s
    BY <2>2, <1>3, <1>13
  <2> QED
    BY <2>1, <2>2
<1>14. SchemaIInv'
  BY <1>9, <1>10, <1>12 DEF SchemaIInv, Disjoint, HasFirsts, IsFirst, Named
<1> QED
  BY <1>13, <1>14

(* The destructor frees what the schema owned, and nothing else. *)
LEMMA ReleaseStep ==
  ASSUME SchemaIInv, NEW s \in Schemas, Release(s)
  PROVE  SchemaIInv'
<1>1. /\ heap' = heap \ Owned(s)
      /\ entries' = [entries EXCEPT ![s] = <<>>]
      /\ released' = released \cup {s}
      /\ freedTwice' = (freedTwice \/ \E i \in DOMAIN entries[s] :
                           \/ ~ entries[s][i].owned \subseteq heap
                           \/ \E j \in 1..i - 1 :
                                entries[s][i].owned \cap entries[s][j].owned # {})
  BY DEF Release, Owned
<1>2. /\ entries \in [Schemas -> Seq(Entry)] /\ heap \subseteq Strings
      /\ released \subseteq Schemas
      /\ heap = UNION {Owned(t) : t \in Schemas} /\ ~freedTwice
      /\ \A t, u \in Schemas : t # u => Owned(t) \cap Owned(u) = {}
      /\ \A t \in Schemas : Disjoint(entries[t]) /\ HasFirsts(entries[t])
  BY DEF SchemaIInv, SchemaTypeOK, StringsHaveOneOwner
<1>3. entries'[s] = <<>> /\ \A t \in Schemas \ {s} : entries'[t] = entries[t]
  BY <1>1, <1>2
<1>4. freedTwice' = FALSE
  <2>1. \A i \in DOMAIN entries[s] : entries[s][i].owned \subseteq heap
    BY <1>2 DEF Owned
  <2>2. ASSUME NEW i \in DOMAIN entries[s], NEW j \in 1..i - 1
        PROVE  entries[s][i].owned \cap entries[s][j].owned = {}
    <3>1. DOMAIN entries[s] = 1..Len(entries[s]) /\ Len(entries[s]) \in Nat
      BY <1>2, LenProperties
    <3>2. j \in DOMAIN entries[s] /\ i # j
      BY <3>1
    <3> QED
      BY <3>2, <1>2 DEF Disjoint
  <2> QED
    BY <2>1, <2>2, <1>1, <1>2
<1>5. DOMAIN entries'[s] = {}
  BY <1>3
<1>6. Owned(s)' = {} /\ \A t \in Schemas \ {s} : Owned(t)' = Owned(t)
  BY <1>3, <1>5 DEF Owned
<1>7. StringsHaveOneOwner'
  <2>1. heap' = UNION {Owned(t)' : t \in Schemas}
    BY <1>1, <1>2, <1>6
  <2> QED
    BY <2>1, <1>2, <1>4, <1>6 DEF StringsHaveOneOwner
<1>8. SchemaTypeOK'
  <2>1. entries' \in [Schemas -> Seq(Entry)]
    BY <1>1, <1>2
  <2> QED
    BY <2>1, <1>1, <1>2, <1>4 DEF SchemaTypeOK
<1>9. \A t \in Schemas : Disjoint(entries'[t]) /\ HasFirsts(entries'[t])
  <2>1. Disjoint(entries'[s]) /\ HasFirsts(entries'[s])
    BY <1>5 DEF Disjoint, HasFirsts, Named
  <2> QED
    BY <2>1, <1>2, <1>3
<1> QED
  BY <1>7, <1>8, <1>9 DEF SchemaIInv, Disjoint, HasFirsts, IsFirst, Named

LEMMA SchemaStep ==
  ASSUME SchemaIInv, [SchemaNext]_schemaVars
  PROVE  /\ SchemaIInv'
         /\ \A t \in Schemas \ released', name \in EntryNames : \A i \in DOMAIN entries[t] :
              IsFirst(entries[t], name, i) =>
                IsFirst(entries'[t], name, i) /\ entries'[t][i] = entries[t][i]
<1>1. ASSUME NEW s \in Schemas, NEW type \in Types, NEW name \in EntryNames,
             AddNew(s, type, name)
      PROVE  \E added : Fresh(added) /\ Build(s, added)
  BY <1>1, AddNewIsFresh DEF AddNew
<1>2. ASSUME NEW s \in Schemas, NEW other \in Schemas, AddAll(s, other)
      PROVE  \E added : Fresh(added) /\ Build(s, added)
  BY <1>2, AddAllIsFresh DEF AddAll
<1>3. CASE \E s \in Schemas : \E added : Fresh(added) /\ Build(s, added)
  BY <1>3, BuildStep
<1>4. ASSUME NEW s \in Schemas, Release(s)
      PROVE  \A t \in Schemas \ released' : entries'[t] = entries[t]
  BY <1>4 DEF Release, SchemaIInv, SchemaTypeOK
<1>5. CASE \E s \in Schemas : Release(s)
  BY <1>4, <1>5, ReleaseStep
<1>6. CASE UNCHANGED schemaVars
  <2>1. UNCHANGED <<entries, heap, released, freedTwice>>
    BY <1>6 DEF schemaVars
  <2>2. SchemaTypeOK' /\ StringsHaveOneOwner'
    <3>1. \A s \in Schemas : Owned(s)' = Owned(s)
      BY <2>1 DEF Owned
    <3> QED
      BY <2>1, <3>1 DEF SchemaIInv, SchemaTypeOK, StringsHaveOneOwner
  <2>3. \A s \in Schemas : Disjoint(entries'[s]) /\ HasFirsts(entries'[s])
    BY <2>1 DEF SchemaIInv
  <2>4. SchemaIInv'
    BY <2>2, <2>3 DEF SchemaIInv, Disjoint, HasFirsts, IsFirst, Named
  <2> QED
    BY <2>1, <2>4
<1> QED
  BY <1>1, <1>2, <1>3, <1>5, <1>6 DEF SchemaNext

(* Of a set of numbers, the first is what CHOOSE finds. *)
LEMMA ChosenFirst ==
  ASSUME NEW S \in SUBSET Nat, NEW i \in S, \A j \in S : i <= j
  PROVE  (CHOOSE k \in S : \A j \in S : k <= j) = i
<1>1. \A k \in S : (\A j \in S : k <= j) => k = i
  OBVIOUS
<1> QED
  BY <1>1

LEMMA SchemaInvariance == SchemaSpec => []SchemaIInv
<1>1. SchemaIInv /\ [SchemaNext]_schemaVars => SchemaIInv'
  BY SchemaStep
<1> QED
  BY <1>1, SchemaInitIInv, PTL DEF SchemaSpec

(***************************************************************************)
(* Every string has one owner, is freed once, by it, and not used after    *)
(* that, for any number of schemas of any size, built from one another and *)
(* released in any order (TSchema::Add, ~TSchema).                         *)
(***************************************************************************)
THEOREM OneOwner == SchemaSpec => []StringsHaveOneOwner
<1>1. SchemaIInv => StringsHaveOneOwner
  BY DEF SchemaIInv
<1> QED
  BY <1>1, SchemaInvariance, PTL

(***************************************************************************)
(* What FindByName has returned stays what it returns, whatever is added,  *)
(* until the schema is released.                                           *)
(***************************************************************************)
THEOREM FoundIsStable == SchemaSpec => FoundStaysFound
<1>1. ASSUME SchemaIInv, NEW s \in Schemas, NEW name \in EntryNames, NEW i \in DOMAIN entries[s],
             IsFirst(entries[s], name, i)
      PROVE  FindByName(s, name) = entries[s][i]
  <2> DEFINE found == Named(entries[s], name)
  <2>1. /\ found # {} /\ i \in found /\ found \subseteq Nat
        /\ \A j \in found : i <= j
    <3>1. entries[s] \in Seq(Entry)
      BY <1>1 DEF SchemaIInv, SchemaTypeOK
    <3>2. DOMAIN entries[s] \subseteq Nat
      BY <3>1, LenProperties
    <3> QED
      BY <3>2, <1>1 DEF IsFirst, Named
  <2> HIDE DEF found
  <2>2. (CHOOSE k \in found : \A j \in found : k <= j) = i
    BY <2>1, ChosenFirst
  <2> QED
    BY <2>1, <2>2 DEF FindByName, Named, found
<1>2. ASSUME SchemaIInv, [SchemaNext]_schemaVars, NEW s \in Schemas \ released',
             NEW name \in EntryNames, FindByName(s, name) # NoEntry
      PROVE  FindByName(s, name)' = FindByName(s, name)
  <2>1. Named(entries[s], name) # {}
    BY <1>2 DEF FindByName, Named
  <2>2. PICK i \in DOMAIN entries[s] : IsFirst(entries[s], name, i)
    BY <2>1, <1>2 DEF SchemaIInv, HasFirsts
  <2>3. IsFirst(entries'[s], name, i) /\ entries'[s][i] = entries[s][i]
    BY <2>2, <1>2, SchemaStep
  <2>4. SchemaIInv'
    BY <1>2, SchemaStep
  <2>5. i \in DOMAIN entries'[s]
    BY <2>3 DEF IsFirst, Named
  <2>6. FindByName(s, name) = entries[s][i]
    BY <2>2, <1>1, <1>2
  <2>7. FindByName(s, name)' = entries'[s][i]
    <3> DEFINE found == Named(entries'[s], name)
    <3>1. /\ found # {} /\ i \in found /\ found \subseteq Nat
          /\ \A j \in found : i <= j
      <4>1. entries'[s] \in Seq(Entry)
        BY <2>4 DEF SchemaIInv, SchemaTypeOK
      <4>2. DOMAIN entries'[s] \subseteq Nat
        BY <4>1, LenProperties
      <4> QED
        BY <4>2, <2>3 DEF IsFirst, Named
    <3> HIDE DEF found
    <3>2. (CHOOSE k \in found : \A j \in found : k <= j) = i
      BY <3>1, ChosenFirst
    <3> QED
      BY <3>1, <3>2 DEF FindByName, Named, found
  <2> QED
    BY <2>3, <2>6, <2>7
<1>3. SchemaIInv /\ [SchemaNext]_schemaVars =>
        [\A s \in Schemas \ released', name \in EntryNames :
           FindByName(s, name) # NoEntry =>
             FindByName(s, name)' = FindByName(s, name)]_schemaVars
  BY <1>2
<1> QED
  BY <1>3, SchemaInvariance, PTL DEF SchemaSpec, FoundStaysFound

-----------------------------------------------------------------------------
(***************************************************************************)
(* Directories.  A call that finds itself beaten may give up because there *)
(* is a frontier: once a directory has been made, a call that has not      *)
(* returned is at the first one that is missing.  Who beats that call is   *)
(* at the frontier next.                                                   *)
(***************************************************************************)

Active(c) == creator[c] \in {"look", "make"}

(* The directory that a call in "make" is about to make. *)
Target(c) == IF prefix[c] \in Parents THEN prefix[c] ELSE Depth

(* Where a call stops looking. *)
LastPrefix == IF slash THEN Depth + 1 ELSE Depth

(* What a call has passed exists. *)
Behind(c) == \A i \in 1..Depth : i < prefix[c] => i \in made

Passed ==
  \A c \in Creators :
    /\ (creator[c] = "begin" => prefix[c] = 1)
    /\ (Active(c) => prefix[c] <= LastPrefix /\ Behind(c))

AtFrontier(c) == Active(c) /\ prefix[c] \notin made /\ Behind(c)

(* A call that was beaten, or is about to be. *)
Late(c) == creator[c] = "false" \/ (creator[c] = "make" /\ Target(c) \in made)

Frontier ==
  failures = 0 /\ (\E c \in Creators : Late(c)) =>
    Depth \in made \/ \E c \in Creators : AtFrontier(c)

Told ==
  \A c \in Creators :
    /\ (creator[c] = "true" => Depth \in made)
    /\ (creator[c] = "false" /\ failures = 0 /\ ~beaten[c] => slash)

DirectoriesIInv == DirectoriesTypeOK /\ Passed /\ Frontier /\ Told

-----------------------------------------------------------------------------

LEMMA DirectoriesInitIInv == DirectoriesInit => DirectoriesIInv
<1> SUFFICES ASSUME DirectoriesInit PROVE DirectoriesIInv
  OBVIOUS
<1>1. DirectoriesTypeOK
  BY DirectoriesAssumption DEF DirectoriesInit, DirectoriesTypeOK
<1>2. Passed /\ Frontier /\ Told
  BY DirectoriesAssumption DEF DirectoriesInit, Passed, Frontier, Told, Active, Late
<1> QED
  BY <1>1, <1>2 DEF DirectoriesIInv

(* Parents are the prefixes in front of the last one. *)
LEMMA ParentsRange ==
  ASSUME DirectoriesTypeOK
  PROVE  /\ LastPrefix \in {Depth, Depth + 1} /\ LastPrefix \in Nat
         /\ \A p \in Nat : p \in Parents <=> p >= 1 /\ p < LastPrefix
         /\ (LastPrefix = Depth + 1 => slash)
BY DirectoriesAssumption DEF DirectoriesTypeOK, Parents, LastPrefix

LEMMA LookForAllStep ==
  ASSUME DirectoriesIInv, NEW c \in Creators, LookForAll(c)
  PROVE  DirectoriesIInv'
<1>1. /\ creator[c] = "begin" /\ prefix[c] = 1
      /\ creator' = [creator EXCEPT ![c] = IF Depth \in made THEN "true" ELSE "look"]
      /\ UNCHANGED <<slash, made, prefix, beaten, failures>>
  BY DEF LookForAll, Turn, DirectoriesIInv, Passed
<1>2. DirectoriesTypeOK'
  BY <1>1 DEF DirectoriesIInv, DirectoriesTypeOK
<1>3. creator'[c] \in {"true", "look"} /\ \A d \in Creators \ {c} : creator'[d] = creator[d]
  BY <1>1 DEF DirectoriesIInv, DirectoriesTypeOK
<1>4. Passed'
  <2>1. LastPrefix >= 1
    BY DirectoriesAssumption DEF LastPrefix
  <2>2. Behind(c)'
    BY <1>1 DEF Behind
  <2> QED
    BY <2>1, <2>2, <1>1, <1>3 DEF DirectoriesIInv, Passed, Active, Behind, LastPrefix
<1>5. Frontier'
  <2>1. \A d \in Creators : (Late(d)' => Late(d)) /\ (AtFrontier(d) => AtFrontier(d)')
    BY <1>1, <1>3 DEF Late, AtFrontier, Active, Behind, Target, Parents
  <2> QED
    BY <2>1, <1>1 DEF DirectoriesIInv, Frontier
<1>6. Told'
  BY <1>1, <1>3 DEF DirectoriesIInv, Told
<1> QED
  BY <1>2, <1>4, <1>5, <1>6 DEF DirectoriesIInv

LEMMA LookStep ==
  ASSUME DirectoriesIInv, NEW c \in Creators, Look(c)
  PROVE  DirectoriesIInv'
<1>1. creator[c] = "look" /\ UNCHANGED <<slash, made, beaten, failures>>
  BY DEF Look
<1>2. /\ DirectoriesTypeOK /\ Passed /\ Frontier /\ Told
      /\ prefix[c] \in 1..(Depth + 1) /\ prefix[c] \in Nat
  BY DirectoriesAssumption DEF DirectoriesIInv, DirectoriesTypeOK
<1>3. prefix[c] <= LastPrefix /\ Behind(c)
  BY <1>1, <1>2 DEF Passed, Active
<1>4. CASE prefix[c] \in Parents /\ prefix[c] \in made
  <2>1. prefix' = [prefix EXCEPT ![c] = @ + 1] /\ creator' = creator
    BY <1>4 DEF Look
  <2>2. /\ prefix'[c] = prefix[c] + 1 /\ prefix[c] < LastPrefix
        /\ \A d \in Creators \ {c} : prefix'[d] = prefix[d]
    BY <2>1, <1>2, <1>4, ParentsRange DEF DirectoriesTypeOK
  <2>3. DirectoriesTypeOK'
    <3>1. prefix[c] + 1 \in 1..(Depth + 1)
      BY <2>2, <1>2, DirectoriesAssumption DEF LastPrefix
    <3> QED
      BY <3>1, <2>1, <1>1, <1>2 DEF DirectoriesTypeOK
  <2>4. Behind(c)'
    BY <2>2, <1>1, <1>2, <1>3, <1>4, DirectoriesAssumption DEF Behind
  <2>5. Passed'
    <3>1. prefix'[c] <= LastPrefix
      BY <2>2, <1>2, ParentsRange
    <3> QED
      BY <3>1, <2>1, <2>2, <2>4, <1>1, <1>2 DEF Passed, Active, Behind, LastPrefix
  <2>6. Frontier'
    <3>1. \A d \in Creators : (Late(d)' => Late(d)) /\ (AtFrontier(d) => AtFrontier(d)')
      BY <2>1, <2>2, <1>1, <1>4 DEF Late, AtFrontier, Active, Behind, Target, Parents
    <3> QED
      BY <3>1, <1>1, <1>2 DEF Frontier
  <2>7. Told'
    BY <2>1, <1>1, <1>2 DEF Told
  <2> QED
    BY <2>3, <2>5, <2>6, <2>7 DEF DirectoriesIInv
<1>5. CASE ~(prefix[c] \in Parents /\ prefix[c] \in made)
  <2>1. prefix' = prefix /\ creator' = [creator EXCEPT ![c] = "make"]
    BY <1>5 DEF Look, Turn
  <2>2. creator'[c] = "make" /\ \A d \in Creators \ {c} : creator'[d] = creator[d]
    BY <2>1, <1>2 DEF DirectoriesTypeOK
  <2>3. DirectoriesTypeOK'
    BY <2>1, <1>1, <1>2 DEF DirectoriesTypeOK
  <2>4. Passed'
    BY <2>1, <2>2, <1>1, <1>2, <1>3 DEF Passed, Active, Behind, LastPrefix
  <2>5. Frontier'
    <3>1. Late(c)' => Depth \in made
      BY <2>1, <2>2, <1>1, <1>5 DEF Late, Target, Parents
    <3>2. \A d \in Creators \ {c} : Late(d)' => Late(d)
      BY <2>1, <2>2, <1>1 DEF Late, Target, Parents
    <3>3. \A d \in Creators : AtFrontier(d) => AtFrontier(d)'
      BY <2>1, <2>2, <1>1 DEF AtFrontier, Active, Behind
    <3> QED
      BY <3>1, <3>2, <3>3, <1>1, <1>2 DEF Frontier
  <2>6. Told'
    BY <2>2, <1>1, <1>2 DEF Told
  <2> QED
    BY <2>3, <2>4, <2>5, <2>6 DEF DirectoriesIInv
<1> QED
  BY <1>4, <1>5

(* A call that makes a directory is at the frontier, or done. *)
LEMMA MakeSucceeds ==
  ASSUME DirectoriesIInv, NEW c \in Creators, creator[c] = "make",
         Target(c) \notin made, Target(c) = 1 \/ Target(c) - 1 \in made,
         made' = made \cup {Target(c)},
         creator' = [creator EXCEPT ![c] = IF prefix[c] \notin Parents THEN "true" ELSE "look"],
         prefix' = [prefix EXCEPT ![c] = prefix[c] + 1],
         UNCHANGED <<slash, beaten, failures>>
  PROVE  DirectoriesIInv'
<1>1. /\ DirectoriesTypeOK /\ Passed /\ Frontier /\ Told
      /\ prefix[c] \in 1..(Depth + 1) /\ prefix[c] \in Nat
  BY DirectoriesAssumption DEF DirectoriesIInv, DirectoriesTypeOK
<1>2. prefix[c] <= LastPrefix /\ Behind(c)
  BY <1>1 DEF Passed, Active
<1>3. PICK k \in 0..Depth : made = 1..k
  BY <1>1 DEF DirectoriesTypeOK
<1>4. Target(c) \in 1..Depth
  BY <1>1, ParentsRange, DirectoriesAssumption DEF Target
<1>5. Target(c) = k + 1 /\ made' = 1..(k + 1) /\ k + 1 \in 0..Depth
  <2> DEFINE t == Target(c)
  <2>1. t \in 1..Depth /\ t \notin 1..k /\ (t = 1 \/ t - 1 \in 1..k) /\ made' = (1..k) \cup {t}
    BY <1>3, <1>4
  <2> HIDE DEF t
  <2>2. t = k + 1
    BY <2>1, <1>3
  <2>3. (1..k) \cup {k + 1} = 1..(k + 1)
    BY <1>3
  <2> QED
    BY <2>1, <2>2, <2>3, DirectoriesAssumption DEF t
<1>6. prefix[c] <= Depth
  <2>1. CASE prefix[c] = Depth + 1
    <3>1. Depth \in made /\ Target(c) = Depth
      BY <2>1, <1>1, <1>2, ParentsRange, DirectoriesAssumption DEF Behind, Target
    <3> QED
      BY <3>1
  <2> QED
    BY <2>1, <1>1, DirectoriesAssumption
<1>7. /\ prefix'[c] = prefix[c] + 1
      /\ \A d \in Creators \ {c} : prefix'[d] = prefix[d] /\ creator'[d] = creator[d]
      /\ creator'[c] = IF prefix[c] \notin Parents THEN "true" ELSE "look"
  BY <1>1 DEF DirectoriesTypeOK
<1>8. DirectoriesTypeOK'
  <2>1. prefix[c] + 1 \in 1..(Depth + 1)
    BY <1>1, <1>6, DirectoriesAssumption
  <2>2. prefix' \in [Creators -> 1..(Depth + 1)]
    BY <2>1, <1>1 DEF DirectoriesTypeOK
  <2>3. made' \in {1..n : n \in 0..Depth}
    BY <1>5
  <2> QED
    BY <2>2, <2>3, <1>1 DEF DirectoriesTypeOK
<1>9. prefix[c] \notin Parents => Depth \in made'
  BY <1>5 DEF Target
<1>10. prefix[c] \in Parents => AtFrontier(c)' /\ prefix'[c] <= LastPrefix
  <2> SUFFICES ASSUME prefix[c] \in Parents PROVE AtFrontier(c)' /\ prefix'[c] <= LastPrefix
    OBVIOUS
  <2>1. prefix[c] = k + 1 /\ prefix'[c] = k + 2
    BY <1>1, <1>3, <1>5, <1>7 DEF Target
  <2>2. prefix'[c] \notin made' /\ \A i \in 1..Depth : i < prefix'[c] => i \in made'
    BY <2>1, <1>3, <1>5
  <2>3. prefix'[c] <= LastPrefix
    BY <2>1, <1>1, ParentsRange
  <2> QED
    BY <2>2, <2>3, <1>7 DEF AtFrontier, Active, Behind
<1>11. Passed'
  <2>1. creator'[c] # "begin"
    BY <1>7
  <2>2. Active(c)' => prefix'[c] <= LastPrefix' /\ Behind(c)'
    BY <1>7, <1>10 DEF Active, AtFrontier, LastPrefix
  <2>3. \A d \in Creators \ {c} :
          /\ (creator'[d] = "begin" => prefix'[d] = 1)
          /\ (Active(d)' => prefix'[d] <= LastPrefix' /\ Behind(d)')
    BY <1>1, <1>7 DEF Passed, Active, Behind, LastPrefix
  <2> QED
    BY <2>1, <2>2, <2>3 DEF Passed
<1>12. Frontier'
  BY <1>9, <1>10 DEF Frontier
<1>13. Told'
  BY <1>1, <1>7, <1>9 DEF Told
<1> QED
  BY <1>8, <1>11, <1>12, <1>13 DEF DirectoriesIInv

(***************************************************************************)
(* A call that fails was beaten: its parents are there.  Whoever beat it   *)
(* has left somebody at the frontier, and it was not this call.            *)
(***************************************************************************)
LEMMA MakeFails ==
  ASSUME DirectoriesIInv, NEW c \in Creators, creator[c] = "make",
         Target(c) \in made \/ ~(Target(c) = 1 \/ Target(c) - 1 \in made),
         creator' = [creator EXCEPT ![c] = "false"],
         beaten' = [beaten EXCEPT ![c] = (Target(c) \in made /\ prefix[c] <= Depth)],
         UNCHANGED <<slash, made, prefix, failures>>
  PROVE  DirectoriesIInv'
<1>1. /\ DirectoriesTypeOK /\ Passed /\ Frontier /\ Told
      /\ prefix[c] \in 1..(Depth + 1) /\ prefix[c] \in Nat
  BY DirectoriesAssumption DEF DirectoriesIInv, DirectoriesTypeOK
<1>2. prefix[c] <= LastPrefix /\ Behind(c)
  BY <1>1 DEF Passed, Active
<1>3. Target(c) \in made
  <2>1. Target(c) \in 1..Depth /\ Target(c) - 1 < prefix[c]
    BY <1>1, ParentsRange, DirectoriesAssumption DEF Target
  <2>2. Target(c) = 1 \/ Target(c) - 1 \in 1..Depth
    BY <2>1, DirectoriesAssumption
  <2> QED
    BY <2>1, <2>2, <1>2 DEF Behind
<1>4. /\ creator'[c] = "false" /\ \A d \in Creators \ {c} : creator'[d] = creator[d]
      /\ beaten'[c] = (prefix[c] <= Depth) /\ \A d \in Creators \ {c} : beaten'[d] = beaten[d]
  BY <1>1, <1>3 DEF DirectoriesTypeOK
<1>5. DirectoriesTypeOK'
  <2>1. (Target(c) \in made /\ prefix[c] <= Depth) \in BOOLEAN
    OBVIOUS
  <2>2. beaten' \in [Creators -> BOOLEAN]
    BY <2>1, <1>1 DEF DirectoriesTypeOK
  <2> QED
    BY <2>2, <1>1 DEF DirectoriesTypeOK
<1>6. Passed'
  BY <1>1, <1>4 DEF Passed, Active, Behind, LastPrefix
<1>7. Frontier'
  <2>1. Late(c)
    BY <1>3 DEF Late
  <2>2. failures = 0 => Depth \in made \/ \E d \in Creators : AtFrontier(d)
    BY <2>1, <1>1 DEF Frontier
  <2>3. AtFrontier(c) => Depth \in made
    BY <1>3 DEF AtFrontier, Target
  <2>4. \A d \in Creators \ {c} : AtFrontier(d) => AtFrontier(d)'
    BY <1>4 DEF AtFrontier, Active, Behind
  <2> QED
    BY <2>2, <2>3, <2>4 DEF Frontier
<1>8. Told'
  <2>1. prefix[c] <= Depth \/ slash
    BY <1>1, <1>2, ParentsRange, DirectoriesAssumption
  <2>2. beaten'[c] \/ slash
    BY <2>1, <1>4
  <2> QED
    BY <2>2, <1>1, <1>4 DEF Told
<1> QED
  BY <1>5, <1>6, <1>7, <1>8 DEF DirectoriesIInv

LEMMA MakeBreaks ==
  ASSUME DirectoriesIInv, NEW c \in Creators, creator[c] = "make", failures < MaxFailures,
         failures' = failures + 1, creator' = [creator EXCEPT ![c] = "false"],
         UNCHANGED <<slash, made, prefix, beaten>>
  PROVE  DirectoriesIInv'
<1>1. DirectoriesTypeOK /\ Passed /\ Told
  BY DEF DirectoriesIInv
<1>2. /\ failures' \in 0..MaxFailures /\ failures' # 0
      /\ creator'[c] = "false" /\ \A d \in Creators \ {c} : creator'[d] = creator[d]
  BY <1>1, DirectoriesAssumption DEF DirectoriesTypeOK
<1>3. DirectoriesTypeOK'
  BY <1>1, <1>2 DEF DirectoriesTypeOK
<1>4. Passed'
  BY <1>1, <1>2 DEF Passed, Active, Behind, LastPrefix
<1>5. Frontier'
  BY <1>2 DEF Frontier
<1>6. Told'
  BY <1>1, <1>2 DEF Told
<1> QED
  BY <1>3, <1>4, <1>5, <1>6 DEF DirectoriesIInv

LEMMA MakeDirectoryStep ==
  ASSUME DirectoriesIInv, NEW c \in Creators, MakeDirectory(c)
  PROVE  DirectoriesIInv'
<1>1. creator[c] = "make" /\ UNCHANGED slash
  BY DEF MakeDirectory
<1>2. Target(c) = IF prefix[c] \notin Parents THEN Depth ELSE prefix[c]
  BY DEF Target
<1>3. \/ /\ Target(c) \notin made /\ (Target(c) = 1 \/ Target(c) - 1 \in made)
         /\ made' = made \cup {Target(c)}
         /\ creator' = [creator EXCEPT ![c] =
                          IF prefix[c] \notin Parents THEN "true" ELSE "look"]
         /\ prefix' = [prefix EXCEPT ![c] = prefix[c] + 1]
         /\ UNCHANGED <<beaten, failures>>
      \/ /\ Target(c) \in made \/ ~(Target(c) = 1 \/ Target(c) - 1 \in made)
         /\ creator' = [creator EXCEPT ![c] = "false"]
         /\ beaten' = [beaten EXCEPT ![c] = (Target(c) \in made /\ prefix[c] <= Depth)]
         /\ UNCHANGED <<made, prefix, failures>>
      \/ /\ failures < MaxFailures /\ failures' = failures + 1
         /\ creator' = [creator EXCEPT ![c] = "false"]
         /\ UNCHANGED <<made, prefix, beaten>>
  BY <1>2 DEF MakeDirectory, Turn
<1> QED
  BY <1>1, <1>3, MakeSucceeds, MakeFails, MakeBreaks

LEMMA DirectoriesStep == DirectoriesIInv /\ [DirectoriesNext]_directoryVars => DirectoriesIInv'
<1> SUFFICES ASSUME DirectoriesIInv, [DirectoriesNext]_directoryVars PROVE DirectoriesIInv'
  OBVIOUS
<1>1. ASSUME NEW c \in Creators, LookForAll(c) \/ Look(c) \/ MakeDirectory(c)
      PROVE  DirectoriesIInv'
  BY <1>1, LookForAllStep, LookStep, MakeDirectoryStep
<1>2. CASE UNCHANGED directoryVars
  BY <1>2 DEF directoryVars, DirectoriesIInv, DirectoriesTypeOK, Passed, Frontier, Told, Active,
     Late, AtFrontier, Behind, Target, Parents, LastPrefix
<1> QED
  BY <1>1, <1>2 DEF DirectoriesNext

(***************************************************************************)
(* CreateDirectory makes the directory, whatever the depth and however     *)
(* many callers race: who is told TRUE has it, and when all have returned  *)
(* it is there, unless mkdir failed for a reason of its own.               *)
(***************************************************************************)
THEOREM DirectoryMade == DirectoriesSpec => []MadeWhenAllReturned
<1>1. DirectoriesIInv => MadeWhenAllReturned
  <2> SUFFICES ASSUME DirectoriesIInv PROVE MadeWhenAllReturned
    OBVIOUS
  <2>1. ASSUME \A c \in Creators : creator[c] \in {"true", "false"}, failures = 0
        PROVE  Depth \in made
    <3>1. PICK c \in Creators : creator[c] \in {"true", "false"}
      BY <2>1, DirectoriesAssumption
    <3>2. creator[c] = "false" => Depth \in made
      BY <2>1 DEF DirectoriesIInv, Frontier, Late, AtFrontier, Active
    <3> QED
      BY <3>1, <3>2 DEF DirectoriesIInv, Told
  <2> QED
    BY <2>1 DEF DirectoriesIInv, Told, MadeWhenAllReturned
<1> QED
  BY <1>1, DirectoriesInitIInv, DirectoriesStep, PTL DEF DirectoriesSpec

-----------------------------------------------------------------------------
(* All of them.                                                            *)

LEMMA StepOfOne ==
  ASSUME [Next]_vars
  PROVE  /\ [HttpNext]_httpVars /\ [TransactionsNext]_transactionVars
         /\ [ConnectionsNext]_connectionVars /\ [PrefsNext]_prefsVars
         /\ [PluginsNext]_pluginVars /\ [LocaleNext]_localeVars
         /\ [SchemaNext]_schemaVars /\ [DirectoriesNext]_directoryVars
<1>1. CASE UNCHANGED vars
  BY <1>1 DEF vars
<1>2. CASE Next
  <2>1. CASE Others("http") /\ HttpNext
    BY <2>1 DEF Others
  <2>2. CASE Others("transactions") /\ TransactionsNext
    BY <2>2 DEF Others
  <2>3. CASE Others("connections") /\ ConnectionsNext
    BY <2>3 DEF Others
  <2>4. CASE Others("prefs") /\ PrefsNext
    BY <2>4 DEF Others
  <2>5. CASE Others("plugins") /\ PluginsNext
    BY <2>5 DEF Others
  <2>6. CASE Others("locale") /\ LocaleNext
    BY <2>6 DEF Others
  <2>7. CASE Others("schema") /\ SchemaNext
    BY <2>7 DEF Others
  <2>8. CASE Others("directories") /\ DirectoriesNext
    BY <2>8 DEF Others
  <2> QED
    BY <1>2, <2>1, <2>2, <2>3, <2>4, <2>5, <2>6, <2>7, <2>8 DEF Next
<1> QED
  BY <1>1, <1>2

(***************************************************************************)
(* In the run that follows one service at a time each of them does what it *)
(* does alone, so that the theorems above speak of that run as well.       *)
(***************************************************************************)
THEOREM EachIsItself ==
  Spec => /\ HttpSpec /\ TransactionsSpec /\ ConnectionsSpec /\ PrefsSpec
          /\ PluginsSpec /\ LocaleSpec /\ SchemaSpec /\ DirectoriesSpec
<1>1. Init => /\ HttpInit /\ TransactionsInit /\ ConnectionsInit /\ PrefsInit
              /\ PluginsInit /\ LocaleInit /\ SchemaInit /\ DirectoriesInit
  BY DEF Init
<1> QED
  BY <1>1, StepOfOne, PTL DEF Spec, HttpSpec, TransactionsSpec, ConnectionsSpec, PrefsSpec,
     PluginsSpec, LocaleSpec, SchemaSpec, DirectoriesSpec

(***************************************************************************)
(* The state of every service stays of its types, for any instances of     *)
(* all of them (MCServices checks one of each).                            *)
(***************************************************************************)
THEOREM ServicesTypeCorrect == Spec => []TypeOK
<1>1. ConnectionsSpec => []ConnectionsTypeOK
  BY ConnectionsTypes, PTL DEF ConnectionsSpec
<1>2. PluginsSpec => []PluginsTypeOK
  <2>1. LoadingIInv => PluginsTypeOK
    BY DEF LoadingIInv
  <2> QED
    BY <2>1, LoadingInvariance, PTL
<1>3. SchemaSpec => []SchemaTypeOK
  <2>1. SchemaIInv => SchemaTypeOK
    BY DEF SchemaIInv
  <2> QED
    BY <2>1, SchemaInvariance, PTL
<1>4. DirectoriesSpec => []DirectoriesTypeOK
  <2>1. DirectoriesIInv => DirectoriesTypeOK
    BY DEF DirectoriesIInv
  <2> QED
    BY <2>1, DirectoriesInitIInv, DirectoriesStep, PTL DEF DirectoriesSpec
<1>5. /\ HttpTypeOK /\ TransactionsTypeOK /\ ConnectionsTypeOK /\ PrefsTypeOK
      /\ PluginsTypeOK /\ LocaleTypeOK /\ SchemaTypeOK /\ DirectoriesTypeOK
      => TypeOK
  BY DEF TypeOK
<1> QED
  BY <1>1, <1>2, <1>3, <1>4, <1>5, EachIsItself, HttpTypes, TransactionsTypes, PrefsTypes,
     LocaleTypes, PTL

=============================================================================
