----------------------------- MODULE Preferences -----------------------------
(***************************************************************************)
(* f8n::prefs::Preferences: the objects that hold the settings of one      *)
(* component, the caches that hand them out, and the file they share.      *)
(* ForComponent keeps weak pointers, one per mode; ForPlugin a strong one, *)
(* without a lock, which is taken to be called by one thread at a time.    *)
(*                                                                         *)
(* A file that is absent, empty or does not parse is a file with no        *)
(* settings, and so is one that cannot be opened: Load makes no other      *)
(* difference.  That it cannot be opened to be written, or that not all of *)
(* it is written, stringToFile reports and Save ignores.                   *)
(***************************************************************************)
EXTENDS Naturals, FiniteSets

CONSTANTS
  Threads,
  Cache,            (* The holder that pluginCache is.                      *)
  Modes,            (* The modes ForComponent is called with.               *)
  MaxObjects,       (* Bounds the objects made.                             *)
  Keys, Values,
  Missing           (* The value of a key that is not there.                *)

ASSUME PreferencesAssumption ==
  /\ Cache \notin Threads /\ Missing \notin Values
  /\ Modes \subseteq {"ReadOnly", "ReadWrite", "AutoSave", "Transient"}
  /\ MaxObjects \in Nat \ {0}

VARIABLES
  plugin,           (* The component is a plugin.                           *)
  file,             (* What the file parses to.                             *)
  object,           (* The objects made: their mode and their json.         *)
  holders,          (* Who has a shared_ptr to each.                        *)
  componentCache,   (* The object last made in each mode.                   *)
  step,             (* What each thread is in the middle of.                *)
  mixed,            (* Two threads had the file open for writing at once.   *)
  clash,            (* Two objects that save have existed at once, or two   *)
                    (* threads have saved one in ModeReadWrite at once.     *)
  latest,           (* The settings that should be found next.              *)
  stored,           (* What the last write, in full or not, has left.       *)
  torn              (* A crash came while the file was being written.       *)

prefsVars == <<plugin, file, object, holders, componentCache, step, mixed, clash, latest,
               stored, torn>>

Objects == 1..MaxObjects
NoObject == 0
Settings == [Keys -> Values \cup {Missing}]
NoSettings == [k \in Keys |-> Missing]

Idle == [at |-> "idle"]
Alive(o) == holders[o] # {}
Made == {o \in Objects : object[o].mode # "none"}
New == Cardinality(Made) + 1
Writing == {t \in Threads : step[t].at = "write"}
WritesFile(m) == m \in {"AutoSave", "ReadWrite"}

(* Mutant: the destructor leaves the file alone. *)
SavesInReadWrite(m) == m = "ReadWrite"

SavesAtEnd(m) == m = "AutoSave"

Uses(t, o) == step[t] = Idle /\ o \in Made /\ t \in holders[o]

-----------------------------------------------------------------------------
(* Getting an object.                                                      *)

(* The constructor: Load.  What another thread has truncated is not there, *)
(* nor what cannot be read; the destructor will save that nothing was.     *)
Make(m, owners) ==
  /\ New \in Objects                                                  \* bound
  /\ \E json \in {file, NoSettings} :
       /\ object' = [object EXCEPT ![New] = [mode |-> m, json |-> json]]
       /\ latest' = IF m = "AutoSave" /\ json # file THEN json ELSE latest
  /\ holders' = [holders EXCEPT ![New] = owners]
  /\ clash' = (clash \/ /\ WritesFile(m)
                        /\ \/ Writing # {}
                           \/ \E o \in Made : Alive(o) /\ WritesFile(object[o].mode))

Share(t, o) ==
  /\ holders' = [holders EXCEPT ![o] = @ \cup {t}]
  /\ UNCHANGED <<plugin, object, clash, latest>>

(* Mutant: the cache is filled and never looked at. *)
NotCached(m) == FALSE

(* The weak pointer can be locked: not once the last holder has let go. *)
Cached(m) == componentCache[m] # NoObject /\ Alive(componentCache[m])

ForComponent(t, m) ==
  /\ ~plugin /\ step[t] = Idle
  /\ IF Cached(m)
     THEN Share(t, componentCache[m]) /\ UNCHANGED componentCache
     ELSE Make(m, {t}) /\ componentCache' = [componentCache EXCEPT ![m] = New]
  /\ UNCHANGED <<plugin, file, step, mixed, stored, torn>>

InPluginCache == {o \in Made : Cache \in holders[o]}

ForPlugin(t) ==
  /\ plugin /\ step[t] = Idle
  /\ \/ \E o \in InPluginCache : Share(t, o)
     \/ InPluginCache = {} /\ Make("AutoSave", {Cache, t})
  /\ UNCHANGED <<plugin, file, componentCache, step, mixed, stored, torn>>

-----------------------------------------------------------------------------
(* Saving: the text is made, without the object's mutex, the file opened   *)
(* and so truncated; then the text is written.  A file that cannot be      *)
(* opened is left as it is.                                                *)

BeginWrite(t, o) ==
  /\ file' = NoSettings
  /\ step' = [step EXCEPT ![t] = [at |-> "write", text |-> object[o].json]]
  /\ mixed' = (Writing # {})

CannotOpen == UNCHANGED <<file, step, mixed>>

Save(t, o) ==
  /\ Uses(t, o)
  /\ WritesFile(object[o].mode)           \* else nothing, or an exception
  /\ \/ BeginWrite(t, o) /\ latest' = object[o].json
     \/ CannotOpen /\ UNCHANGED latest
  /\ clash' = (clash \/ (object[o].mode = "ReadWrite" /\ Writing # {}))
  /\ UNCHANGED <<plugin, object, holders, componentCache, stored, torn>>

(* Texts of two writers, one over the other, need not parse. *)
WriteAll(t) ==
  /\ file' \in {step[t].text} \cup (IF mixed THEN {NoSettings} ELSE {})
  /\ stored' = step[t].text
  /\ UNCHANGED latest

(* A part of a text does not parse: all is lost, unless it is saved again. *)
WritePart ==
  /\ file' = NoSettings
  /\ stored' = NoSettings
  /\ latest' = IF \E o \in Objects : Alive(o) /\ object[o].mode = "AutoSave"
               THEN latest ELSE NoSettings

EndWrite(t) ==
  /\ t \in Writing
  /\ WriteAll(t) \/ WritePart
  /\ step' = [step EXCEPT ![t] = Idle]
  /\ UNCHANGED <<plugin, object, holders, componentCache, mixed, clash, torn>>

(* A holder lets go; where it was the last one, t runs the destructor,     *)
(* which saves for the last time.                                          *)
LetGo(t, holder, o) ==
  /\ step[t] = Idle
  /\ holder \in holders[o]
  /\ holders' = [holders EXCEPT ![o] = @ \ {holder}]
  /\ IF holders[o] = {holder} /\ SavesAtEnd(object[o].mode)
     THEN \/ BeginWrite(t, o) /\ UNCHANGED latest
          \/ CannotOpen /\ latest' = file
     ELSE UNCHANGED <<file, step, mixed, latest>>
  /\ UNCHANGED <<plugin, object, componentCache, clash, stored, torn>>

Drop(t, o) == LetGo(t, t, o)
SavePluginPreferences(t) == \E o \in InPluginCache : LetGo(t, Cache, o)

-----------------------------------------------------------------------------
(* Reading and changing settings, under the object's mutex.                *)

Assign(o, k, v) ==
  /\ object' = [object EXCEPT ![o].json[k] = v]
  /\ latest' = IF object[o].mode = "AutoSave" THEN object'[o].json ELSE latest
  /\ UNCHANGED <<plugin, file, holders, componentCache, mixed, clash, stored, torn>>

Set(t, o, k, v) == Uses(t, o) /\ Assign(o, k, v) /\ UNCHANGED step

(* To get what is not there puts the default there. *)
Get(t, o, k, default) ==
  /\ Uses(t, o)
  /\ object[o].json[k] = Missing
  /\ Assign(o, k, default)
  /\ UNCHANGED step

(* SetDefault: the mutex is released between Contains and Set. *)
Contains(t, o, k, v) ==
  /\ Uses(t, o)
  /\ object[o].json[k] = Missing
  /\ step' = [step EXCEPT ![t] = [at |-> "default", o |-> o, k |-> k, v |-> v]]
  /\ UNCHANGED <<plugin, file, object, holders, componentCache, mixed, clash, latest, stored, torn>>

SetDefault(t) ==
  /\ step[t].at = "default"
  /\ Assign(step[t].o, step[t].k, step[t].v)
  /\ step' = [step EXCEPT ![t] = Idle]

-----------------------------------------------------------------------------

(* The process dies and starts again; it finds the file. *)
Crash ==
  /\ holders' = [o \in Objects |-> {}]
  /\ componentCache' = [m \in Modes |-> NoObject]
  /\ step' = [t \in Threads |-> Idle]
  /\ torn' = (torn \/ Writing # {} \/ mixed)
  /\ latest' = stored
  /\ UNCHANGED <<plugin, file, object, mixed, clash, stored>>

PrefsInit ==
  /\ plugin \in BOOLEAN
  /\ file = NoSettings
  /\ object = [o \in Objects |-> [mode |-> "none", json |-> NoSettings]]
  /\ holders = [o \in Objects |-> {}]
  /\ componentCache = [m \in Modes |-> NoObject]
  /\ step = [t \in Threads |-> Idle]
  /\ mixed = FALSE
  /\ clash = FALSE
  /\ latest = NoSettings
  /\ stored = NoSettings
  /\ torn = FALSE

PrefsNext ==
  \/ \E t \in Threads :
       \/ \E m \in Modes : ForComponent(t, m)
       \/ ForPlugin(t)
       \/ SavePluginPreferences(t)
       \/ EndWrite(t)
       \/ SetDefault(t)
       \/ \E o \in Objects :
            \/ Save(t, o)
            \/ Drop(t, o)
            \/ \E k \in Keys, v \in Values :
                 Set(t, o, k, v) \/ Get(t, o, k, v) \/ Contains(t, o, k, v)
  \/ Crash

PrefsSpec == PrefsInit /\ [][PrefsNext]_prefsVars

-----------------------------------------------------------------------------
(* Properties.                                                             *)

PrefsTypeOK ==
  /\ plugin \in BOOLEAN
  /\ file \in Settings
  /\ object \in [Objects -> [mode : Modes \cup {"none", "AutoSave"}, json : Settings]]
  /\ holders \in [Objects -> SUBSET (Threads \cup {Cache})]
  /\ componentCache \in [Modes -> Objects \cup {NoObject}]
  /\ \A t \in Threads :
       step[t] \in {Idle} \cup [at : {"write"}, text : Settings]
                         \cup [at : {"default"}, o : Objects, k : Keys, v : Values]
  /\ mixed \in BOOLEAN /\ clash \in BOOLEAN /\ torn \in BOOLEAN
  /\ latest \in Settings /\ stored \in Settings

(***************************************************************************)
(* Settings survive their objects: when nobody has the component and no    *)
(* destructor is under way, the file holds what was set last in            *)
(* ModeAutoSave or saved last in ModeReadWrite, through crashes too.  What *)
(* a failure nobody looks at takes is no more than this: where the file    *)
(* cannot be opened to save, what was set since the last save; where it is *)
(* cut short, or cannot be read by an object that saves at its end, all,   *)
(* unless an object saves it again.  It says nothing where two saving      *)
(* objects overlap, as happens when a thread asks for a component while    *)
(* another thread runs the destructor of its last user, or where a crash   *)
(* meets the file truncated.                                               *)
(***************************************************************************)
SettingsSurvive ==
  (\A o \in Objects : ~Alive(o)) /\ Writing = {} /\ ~clash /\ ~torn => file = latest

(***************************************************************************)
(* All the users of a component in one mode share one object, so that none *)
(* of them misses or undoes what another sets.                             *)
(***************************************************************************)
OnePerMode ==
  ~plugin =>
    \A o, p \in Made : Alive(o) /\ Alive(p) /\ object[o].mode = object[p].mode => o = p

=============================================================================
