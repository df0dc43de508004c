------------------------------ MODULE Plugins ------------------------------
(***************************************************************************)
(* f8n::plugin::Plugins: the one instance, made by the first thread that   *)
(* asks for it, the loading of the plugin directory, entry by entry, and   *)
(* queries, which call their handler with the instance's mutex held.       *)
(***************************************************************************)
EXTENDS Naturals, FiniteSets, Sequences

CONSTANTS
  Callers,          (* Threads that ask for the instance and query it.      *)
  NoCaller,         (* An unlocked mutex.                                   *)
  MaxEntries,       (* Entries of the plugin directory, at most.            *)
  Kinds             (* What they can be, see EntryKinds.                    *)

(***************************************************************************)
(* "good"; "other_sdk", a plugin of another SDK version; "no_entry", a     *)
(* library without GetPlugin; "unloadable"; "not_so", found by its ending  *)
(* and not a library of this system; "dangling", a link to nothing, whose  *)
(* canonical name is empty and has no Filename; "throws" and "reenters",   *)
(* whose GetPlugin throws, or calls Plugins::Instance.                     *)
(***************************************************************************)
EntryKinds == {"good", "other_sdk", "no_entry", "unloadable", "not_so", "dangling",
               "throws", "reenters"}

ASSUME PluginsAssumption ==
  NoCaller \notin Callers /\ MaxEntries \in Nat /\ Kinds \subseteq EntryKinds

VARIABLES
  directory,        (* The directory, in the order it is read.              *)
  loader,           (* The thread in the constructor, with instanceMutex.   *)
  next,             (* The entry it loads next.                             *)
  plugins,          (* The entries loaded, in order.                        *)
  opened,           (* The entries whose library is open.                   *)
  ready,            (* The constructor is done.                             *)
  caller,           (* What each thread is doing.                           *)
  lock,             (* Who holds the instance's mutex.                      *)
  asked,            (* What that query asks for: everyone, by "GetPlugin",  *)
                    (* or those that are enabled; and which plugins have    *)
                    (* the function and answer it.                          *)
  at,               (* The plugin that query has reached, or will begin at. *)
  handled,          (* The plugins it has called its handler with.          *)
  enabled,          (* Preferences: a plugin that is missing is enabled.    *)
  touched           (* Plugins enabled or disabled since the query began.   *)

pluginVars == <<directory, loader, next, plugins, opened, ready, caller, lock, asked, at,
                handled, enabled, touched>>

Entries == 1..Len(directory)
Loading == loader # NoCaller
LoadedEntries == {plugins[i] : i \in 1..Len(plugins)}

-----------------------------------------------------------------------------
(* Instance, the constructor and LoadPlugins.                              *)

Instance(c) ==
  /\ caller[c] = "idle"
  /\ ~Loading
  /\ IF ready THEN UNCHANGED loader /\ caller' = [caller EXCEPT ![c] = "has_it"]
     ELSE loader' = c /\ caller' = [caller EXCEPT ![c] = "loading"]
  /\ UNCHANGED <<directory, next, plugins, opened, ready, lock, asked, at, handled, enabled,
                 touched>>

(* Mutant: a plugin of another SDK is loaded too. *)
AnyVersion(kind) == kind \in {"good", "other_sdk"}

HasSdkVersion(kind) == kind = "good"

(* What GetPlugin of another version, or nothing, has opened is closed. *)
LoadEntry ==
  /\ Loading /\ next \in Entries
  /\ directory[next] \notin {"dangling", "throws", "reenters"}
  /\ next' = next + 1
  /\ IF HasSdkVersion(directory[next])
     THEN plugins' = Append(plugins, next) /\ opened' = opened \cup {next}
     ELSE UNCHANGED <<plugins, opened>>
  /\ UNCHANGED <<directory, loader, ready, caller, lock, asked, at, handled, enabled, touched>>

FinishLoading ==
  /\ ready' = TRUE
  /\ loader' = NoCaller
  /\ caller' = [caller EXCEPT ![loader] = "has_it"]
  /\ UNCHANGED <<directory, next, plugins, lock, asked, at, handled, enabled, touched>>

EndLoading ==
  /\ Loading /\ next \notin Entries
  /\ FinishLoading
  /\ UNCHANGED opened

(* An exception ends the loop, and is swallowed; the library stays open. *)
ThrowOutOfLoop ==
  /\ Loading /\ next \in Entries
  /\ directory[next] \in {"dangling", "throws"}
  /\ FinishLoading
  /\ opened' = opened \cup (IF directory[next] = "throws" THEN {next} ELSE {})

-----------------------------------------------------------------------------
(* QueryFunction and QueryInterface, for any function.                     *)

NoQuery == [everyone |-> FALSE, having |-> {}]

(* "GetPlugin" is for QueryInterface; not every plugin has a function, nor *)
(* returns something each time it is called.                               *)
BeginQuery(c) ==
  /\ caller[c] = "has_it"
  /\ lock = NoCaller
  /\ lock' = c
  /\ asked' \in [everyone : BOOLEAN, having : SUBSET LoadedEntries]
  /\ caller' = [caller EXCEPT ![c] = "querying"]
  /\ UNCHANGED <<directory, loader, next, plugins, opened, ready, at, handled, enabled, touched>>

(* Mutant: what is disabled is queried like the others. *)
NeverDisabled(p) == TRUE

IsEnabled(p) == p \in enabled

(* Who is disabled is passed over, unless it is for its GetPlugin. *)
VisitPlugin(c) ==
  /\ caller[c] = "querying"
  /\ at \in 1..Len(plugins)
  /\ at' = at + 1
  /\ handled' = IF (asked.everyone \/ IsEnabled(plugins[at])) /\ plugins[at] \in asked.having
                THEN handled \cup {plugins[at]} ELSE handled
  /\ UNCHANGED <<directory, loader, next, plugins, opened, ready, caller, lock, asked, enabled,
                 touched>>

EndQuery(c) ==
  /\ caller[c] = "querying"
  /\ at \notin 1..Len(plugins)
  /\ lock' = NoCaller
  /\ caller' = [caller EXCEPT ![c] = "has_it"]
  /\ asked' = NoQuery /\ at' = 1 /\ handled' = {} /\ touched' = {}
  /\ UNCHANGED <<directory, loader, next, plugins, opened, ready, enabled>>

(* A thread or a handler sets the preference, under another mutex; that of *)
(* a plugin that is not loaded makes no difference.                        *)
Toggle(p) ==
  /\ ready /\ p \in LoadedEntries
  /\ enabled' = IF p \in enabled THEN enabled \ {p} ELSE enabled \cup {p}
  /\ touched' = IF lock = NoCaller THEN touched ELSE touched \cup {p}
  /\ UNCHANGED <<directory, loader, next, plugins, opened, ready, caller, lock, asked, at,
                 handled>>

PluginsInit ==
  /\ directory \in UNION {[1..n -> Kinds] : n \in 0..MaxEntries}
  /\ loader = NoCaller
  /\ next = 1
  /\ plugins = <<>>
  /\ opened = {}
  /\ ready = FALSE
  /\ caller = [c \in Callers |-> "idle"]
  /\ lock = NoCaller
  /\ asked = NoQuery
  /\ at = 1
  /\ handled = {}
  /\ enabled = 1..MaxEntries
  /\ touched = {}

PluginsNext ==
  \/ \E c \in Callers : Instance(c) \/ BeginQuery(c) \/ VisitPlugin(c) \/ EndQuery(c)
  \/ LoadEntry \/ EndLoading \/ ThrowOutOfLoop
  \/ \E p \in 1..MaxEntries : Toggle(p)

PluginsSpec == PluginsInit /\ [][PluginsNext]_pluginVars

-----------------------------------------------------------------------------
(* Properties.                                                             *)

PluginsTypeOK ==
  /\ directory \in UNION {[1..n -> Kinds] : n \in 0..MaxEntries}
  /\ loader \in Callers \cup {NoCaller} /\ lock \in Callers \cup {NoCaller}
  /\ asked \in [everyone : BOOLEAN, having : SUBSET Entries]
  /\ next \in 1..(MaxEntries + 1) /\ at \in 1..(MaxEntries + 1)
  /\ plugins \in Seq(1..MaxEntries)
  /\ opened \subseteq Entries /\ handled \subseteq Entries
  /\ enabled \subseteq 1..MaxEntries /\ touched \subseteq Entries
  /\ ready \in BOOLEAN
  /\ caller \in [Callers -> {"idle", "loading", "has_it", "querying"}]

(***************************************************************************)
(* Who has the instance sees all of it: the good plugins in front of the   *)
(* first entry that throws, each once, with its library and no other open, *)
(* but that of the one that threw.                                         *)
(***************************************************************************)
AllOrUpToTheFirstThatThrows ==
  LET throwing == {e \in Entries : directory[e] \in {"dangling", "throws"}}
      good == {e \in Entries : directory[e] = "good" /\ \A x \in throwing : e < x}
  IN (\E c \in Callers : caller[c] \in {"has_it", "querying"}) =>
       /\ LoadedEntries = good /\ Len(plugins) = Cardinality(good)
       /\ \E rest \in SUBSET throwing : Cardinality(rest) <= 1 /\ opened = LoadedEntries \cup rest

(***************************************************************************)
(* A query that ends has called its handler with exactly the plugins that  *)
(* have its function and are enabled, whatever was loaded or queried       *)
(* meanwhile; it may go either way with those enabled or disabled since it *)
(* began.  One for "GetPlugin" has called it with the disabled ones too.   *)
(***************************************************************************)
QueriesSeeTheEnabled ==
  [][\A c \in Callers :
       caller[c] = "querying" /\ caller'[c] = "has_it"
         => IF asked.everyone THEN handled = asked.having
            ELSE handled \ touched = (asked.having \cap enabled) \ touched]_pluginVars

=============================================================================
