-------------------------- MODULE PreferencesProofs --------------------------
(***************************************************************************)
(* The properties of Preferences, for any number of threads, objects, keys *)
(* and values.  Settings survive because the objects that save come one    *)
(* after the other: while there is one, it has the latest settings and     *)
(* nobody else writes the file; once it is gone, the file has them or is   *)
(* about to, or what a failure has left of them.                           *)
(***************************************************************************)
EXTENDS Preferences, FiniteSetTheorems, TLAPS

(* The types, as far as they matter here. *)
PrefsTyped ==
  /\ object = [o \in Objects |-> object[o]]
  /\ \A o \in Objects : object[o] = [mode |-> object[o].mode, json |-> object[o].json]
  /\ holders \in [Objects -> SUBSET (Threads \cup {Cache})]
  /\ componentCache \in [Modes -> Objects \cup {NoObject}]
  /\ step = [t \in Threads |-> step[t]]

(* Objects are made in order, and what is held has been made. *)
InOrder ==
  /\ \E n \in 0..MaxObjects : Made = 1..n
  /\ \A o \in Objects : Alive(o) => o \in Made

(* The cache has every object of a component that is held. *)
InCache ==
  ~plugin => \A o \in Objects :
    Alive(o) => object[o].mode \in Modes /\ componentCache[object[o].mode] = o

(* Who is in SetDefault has the object. *)
HoldsIt ==
  \A t \in Threads : step[t].at = "default" =>
    step[t].o \in Objects /\ t \in holders[step[t].o]

(* An object that will be saved, or may be. *)
Saves(o) == Alive(o) /\ WritesFile(object[o].mode)

Keeps(o) == Saves(o) /\ SavesAtEnd(object[o].mode)

OneSaves ==
  /\ \A o, p \in Objects : Saves(o) /\ Saves(p) => o = p
  /\ \A o \in Objects : Saves(o) => Writing \subseteq holders[o]

HasLatest ==
  \/ \E o \in Objects : Keeps(o) /\ object[o].json = latest
  \/ /\ \A o \in Objects : ~Keeps(o)
     /\ Writing = {} => file = latest
     /\ \A t \in Writing : Writing = {t} /\ step[t].text = latest /\ ~mixed

FileStored == Writing = {} /\ ~mixed /\ ~torn => file = stored

PrefsIInv ==
  /\ PrefsTyped /\ InOrder /\ InCache /\ HoldsIt /\ FileStored
  /\ ~clash /\ ~torn => OneSaves /\ HasLatest

-----------------------------------------------------------------------------

LEMMA PrefsInitIInv == PrefsInit => PrefsIInv
<1> SUFFICES ASSUME PrefsInit PROVE PrefsIInv
  OBVIOUS
<1>1. PrefsTyped
  BY DEF PrefsInit, PrefsTyped
<1>2. Made = {} /\ Writing = {} /\ \A o \in Objects : ~Alive(o)
  BY DEF PrefsInit, Made, Writing, Alive, Idle
<1>3. InOrder
  <2>1. 0 \in 0..MaxObjects /\ 1..0 = {}
    BY PreferencesAssumption
  <2> QED
    BY <2>1, <1>2 DEF InOrder
<1>4. InCache /\ FileStored
  BY <1>2 DEF InCache, FileStored, PrefsInit
<1>5. HoldsIt
  BY DEF HoldsIt, PrefsInit, Idle
<1>6. OneSaves /\ HasLatest
  BY <1>2 DEF OneSaves, HasLatest, Saves, Keeps, PrefsInit
<1> QED
  BY <1>1, <1>3, <1>4, <1>5, <1>6 DEF PrefsIInv

(* The place for a new object is free. *)
LEMMA NewIsFree ==
  ASSUME InOrder, New \in Objects
  PROVE  /\ New \notin Made /\ ~Alive(New)
         /\ \E n \in 0..MaxObjects : Made \cup {New} = 1..n
<1>1. PICK n \in 0..MaxObjects : Made = 1..n
  BY DEF InOrder
<1>2. Cardinality(Made) = n
  BY <1>1, FS_Interval, PreferencesAssumption
<1>3. New = n + 1
  BY <1>2 DEF New
<1>4. New \notin Made
  BY <1>1, <1>3
<1>5. Made \cup {New} = 1..(n + 1) /\ n + 1 \in 0..MaxObjects
  BY <1>1, <1>3, PreferencesAssumption DEF Objects
<1> QED
  BY <1>4, <1>5 DEF InOrder

(***************************************************************************)
(* A new object, in a mode that is not in use.                             *)
(***************************************************************************)
LEMMA MakeStep ==
  ASSUME PrefsIInv, NEW m, m # "none", NEW owners \in SUBSET (Threads \cup {Cache}), owners # {},
         Make(m, owners),
         UNCHANGED <<plugin, file, step, mixed, stored, torn>>,
         componentCache' \in [Modes -> Objects \cup {NoObject}],
         ~plugin => /\ m \in Modes /\ ~Cached(m)
                    /\ componentCache' = [componentCache EXCEPT ![m] = New]
  PROVE  PrefsIInv'
<1>1. PICK n \in Objects : /\ n = New /\ n \notin Made /\ ~Alive(n)
                           /\ \E k \in 0..MaxObjects : Made \cup {n} = 1..k
  BY NewIsFree DEF Make, PrefsIInv
<1>2. PICK json \in {file, NoSettings} :
        /\ object' = [object EXCEPT ![n] = [mode |-> m, json |-> json]]
        /\ latest' = IF m = "AutoSave" /\ json # file THEN json ELSE latest
  BY <1>1 DEF Make
<1>3. /\ holders' = [holders EXCEPT ![n] = owners]
      /\ clash' = (clash \/ /\ WritesFile(m)
                            /\ \/ Writing # {}
                               \/ \E o \in Made : Alive(o) /\ WritesFile(object[o].mode))
  BY <1>1 DEF Make
<1>4. /\ object'[n] = [mode |-> m, json |-> json] /\ holders'[n] = owners
      /\ \A o \in Objects \ {n} : object'[o] = object[o] /\ holders'[o] = holders[o]
  BY <1>1, <1>2, <1>3 DEF PrefsIInv, PrefsTyped
<1>5. Made' = Made \cup {n}
  BY <1>1, <1>4 DEF Made
<1>6. Alive(n)' /\ \A o \in Objects \ {n} : Alive(o)' = Alive(o)
  BY <1>4 DEF Alive
<1>7. Writing' = Writing
  BY DEF Writing
<1>8. PrefsTyped'
  BY <1>1, <1>2, <1>3, <1>4 DEF PrefsIInv, PrefsTyped
<1>9. InOrder'
  BY <1>1, <1>5, <1>6 DEF PrefsIInv, InOrder
<1>10. InCache'
  <2> SUFFICES ASSUME ~plugin, NEW o \in Objects, Alive(o)'
               PROVE  object'[o].mode \in Modes /\ componentCache'[object'[o].mode] = o
    BY DEF InCache
  <2>1. /\ m \in Modes /\ ~Cached(m) /\ componentCache'[m] = n
        /\ \A x \in Modes \ {m} : componentCache'[x] = componentCache[x]
    BY <1>1 DEF PrefsIInv, PrefsTyped
  <2>2. CASE o = n
    BY <2>1, <2>2, <1>4
  <2>3. CASE o # n
    <3>1. Alive(o) /\ object'[o] = object[o]
      BY <2>3, <1>4, <1>6
    <3>2. object[o].mode \in Modes /\ componentCache[object[o].mode] = o
      BY <3>1 DEF PrefsIInv, InCache
    <3>3. object[o].mode # m
      BY <3>1, <3>2, <2>1 DEF Cached, Objects, NoObject
    <3> QED
      BY <3>1, <3>2, <3>3, <2>1
  <2> QED
    BY <2>2, <2>3
<1>11. HoldsIt'
  BY <1>1, <1>4 DEF PrefsIInv, HoldsIt, Alive
<1>12. FileStored'
  BY <1>7 DEF PrefsIInv, FileStored
<1>13. ASSUME ~clash', ~torn' PROVE OneSaves' /\ HasLatest'
  <2>1. ~clash /\ ~torn /\ OneSaves /\ HasLatest
    BY <1>3, <1>13 DEF PrefsIInv
  <2>2. \A o \in Objects \ {n} : (Saves(o)' <=> Saves(o)) /\ (Keeps(o)' <=> Keeps(o))
    BY <1>4, <1>6 DEF Saves, Keeps
  <2>3. ~Saves(n) /\ ~Keeps(n)
    BY <1>1 DEF Saves, Keeps
  <2>4. CASE ~WritesFile(m)
    <3>1. ~Saves(n)' /\ ~Keeps(n)'
      BY <2>4, <1>4 DEF Saves, Keeps
    <3>2. OneSaves'
      BY <3>1, <2>1, <2>2, <2>3, <1>4, <1>7 DEF OneSaves
    <3>3. latest' = latest
      BY <2>4, <1>2 DEF WritesFile
    <3>4. HasLatest'
      BY <3>1, <3>3, <2>1, <2>2, <2>3, <1>4, <1>7 DEF HasLatest
    <3> QED
      BY <3>2, <3>4
  <2>5. CASE WritesFile(m)
    <3>1. Writing = {} /\ \A o \in Objects : ~Saves(o) /\ ~Keeps(o)
      BY <2>5, <1>3, <1>13 DEF Saves, Keeps, PrefsIInv, InOrder
    <3>2. file = latest
      BY <3>1, <2>1 DEF HasLatest
    <3>3. OneSaves'
      BY <3>1, <2>2, <1>7 DEF OneSaves
    <3>4. HasLatest'
      <4>1. CASE SavesAtEnd(m)
        <5>1. Keeps(n)'
          BY <4>1, <2>5, <1>4, <1>6 DEF Keeps, Saves
        <5>2. object'[n].json = latest'
          BY <4>1, <1>2, <1>4, <3>2 DEF SavesAtEnd
        <5> QED
          BY <5>1, <5>2, <1>1 DEF HasLatest
      <4>2. CASE ~SavesAtEnd(m)
        <5>1. ~Keeps(n)'
          BY <4>2, <1>4 DEF Keeps
        <5>2. latest' = latest
          BY <4>2, <1>2 DEF SavesAtEnd
        <5> QED
          BY <5>1, <5>2, <3>1, <3>2, <2>2, <1>7 DEF HasLatest
      <4> QED
        BY <4>1, <4>2
    <3> QED
      BY <3>3, <3>4
  <2> QED
    BY <2>4, <2>5
<1> QED
  BY <1>8, <1>9, <1>10, <1>11, <1>12, <1>13 DEF PrefsIInv

(* One more user of an object that has some. *)
LEMMA ShareStep ==
  ASSUME PrefsIInv, NEW t \in Threads, NEW o \in Objects, Alive(o), Share(t, o),
         UNCHANGED <<plugin, file, componentCache, step, mixed, stored, torn>>
  PROVE  PrefsIInv'
<1>1. /\ UNCHANGED <<plugin, file, object, componentCache, step, mixed, clash, latest, stored,
                     torn>>
      /\ holders' = [holders EXCEPT ![o] = @ \cup {t}]
  BY DEF Share
<1>2. \A q \in Objects : (Alive(q)' <=> Alive(q)) /\ holders[q] \subseteq holders'[q]
  BY <1>1 DEF PrefsIInv, PrefsTyped, Alive
<1>3. Writing' = Writing /\ Made' = Made
  BY <1>1 DEF Writing, Made
<1>4. \A q \in Objects : (Saves(q)' <=> Saves(q)) /\ (Keeps(q)' <=> Keeps(q))
  BY <1>1, <1>2 DEF Saves, Keeps
<1>5. PrefsTyped'
  BY <1>1 DEF PrefsIInv, PrefsTyped
<1>6. InOrder' /\ InCache'
  BY <1>1, <1>2, <1>3 DEF PrefsIInv, InOrder, InCache
<1>7. HoldsIt' /\ FileStored'
  BY <1>1, <1>2, <1>3 DEF PrefsIInv, HoldsIt, FileStored
<1>8. ~clash' /\ ~torn' => OneSaves' /\ HasLatest'
  <2>1. OneSaves => OneSaves'
    BY <1>2, <1>3, <1>4 DEF OneSaves
  <2>2. HasLatest => HasLatest'
    BY <1>1, <1>3, <1>4 DEF HasLatest
  <2> QED
    BY <2>1, <2>2, <1>1 DEF PrefsIInv
<1> QED
  BY <1>5, <1>6, <1>7, <1>8 DEF PrefsIInv

LEMMA ForComponentStep ==
  ASSUME PrefsIInv, NEW t \in Threads, NEW m \in Modes, ForComponent(t, m)
  PROVE  PrefsIInv'
<1>1. CASE Cached(m)
  <2>1. componentCache[m] \in Objects /\ Alive(componentCache[m])
    BY <1>1 DEF Cached, PrefsIInv, PrefsTyped
  <2> QED
    BY <1>1, <2>1, ShareStep DEF ForComponent
<1>2. CASE ~Cached(m)
  <2>1. m # "none" /\ {t} # {} /\ {t} \in SUBSET (Threads \cup {Cache})
    BY PreferencesAssumption
  <2>2. /\ Make(m, {t}) /\ ~plugin
        /\ componentCache' = [componentCache EXCEPT ![m] = New]
        /\ UNCHANGED <<plugin, file, step, mixed, stored, torn>>
    BY <1>2 DEF ForComponent
  <2>3. componentCache' \in [Modes -> Objects \cup {NoObject}]
    BY <2>2 DEF PrefsIInv, PrefsTyped, Make
  <2> QED
    BY <1>2, <2>1, <2>2, <2>3, MakeStep
<1> QED
  BY <1>1, <1>2

LEMMA ForPluginStep ==
  ASSUME PrefsIInv, NEW t \in Threads, ForPlugin(t)
  PROVE  PrefsIInv'
<1>1. UNCHANGED <<plugin, file, componentCache, step, mixed, stored, torn>> /\ plugin
  BY DEF ForPlugin
<1>2. CASE \E o \in InPluginCache : Share(t, o)
  <2>1. PICK o \in InPluginCache : Share(t, o)
    BY <1>2
  <2>2. o \in Objects /\ Alive(o)
    BY DEF InPluginCache, Made, Alive
  <2> QED
    BY <1>1, <2>1, <2>2, ShareStep
<1>3. CASE Make("AutoSave", {Cache, t})
  <2>1. "AutoSave" # "none" /\ {Cache, t} # {} /\ {Cache, t} \in SUBSET (Threads \cup {Cache})
    OBVIOUS
  <2>2. componentCache' \in [Modes -> Objects \cup {NoObject}]
    BY <1>1 DEF PrefsIInv, PrefsTyped
  <2> QED
    BY <1>1, <1>3, <2>1, <2>2, MakeStep
<1> QED
  BY <1>2, <1>3 DEF ForPlugin

-----------------------------------------------------------------------------
(* Saving.                                                                 *)

(* A thread that begins to write, with or without its object. *)
LEMMA BeginWriteStep ==
  ASSUME PrefsTyped, NEW t \in Threads, NEW o \in Objects, step[t] = Idle, BeginWrite(t, o)
  PROVE  /\ Writing' = Writing \cup {t} /\ t \notin Writing
         /\ step' = [u \in Threads |-> step'[u]]
         /\ step'[t].at = "write" /\ step'[t].text = object[o].json
         /\ \A u \in Threads \ {t} : step'[u] = step[u]
         /\ (mixed' <=> Writing # {})
<1>1. step' = [step EXCEPT ![t] = [at |-> "write", text |-> object[o].json]]
  BY DEF BeginWrite
<1>2. /\ step'[t] = [at |-> "write", text |-> object[o].json]
      /\ \A u \in Threads \ {t} : step'[u] = step[u]
      /\ step' = [u \in Threads |-> step'[u]]
  BY <1>1 DEF PrefsTyped
<1>3. step'[t].at = "write" /\ step'[t].text = object[o].json
  BY <1>2
<1>4. step[t].at # "write"
  BY DEF Idle
<1>5. Writing' = Writing \cup {t} /\ t \notin Writing
  BY <1>2, <1>3, <1>4 DEF Writing
<1>6. mixed' <=> Writing # {}
  BY DEF BeginWrite
<1> QED
  BY <1>2, <1>3, <1>5, <1>6

(* Nothing of the file has changed, because it could not be opened. *)
LEMMA SaveFailsStep ==
  ASSUME PrefsIInv, NEW t \in Threads, NEW o \in Objects, Uses(t, o), WritesFile(object[o].mode),
         CannotOpen, clash' = (clash \/ (object[o].mode = "ReadWrite" /\ Writing # {})),
         UNCHANGED <<latest, plugin, object, holders, componentCache, stored, torn>>
  PROVE  PrefsIInv'
<1>1. UNCHANGED <<plugin, file, object, holders, componentCache, step, mixed, latest, stored, torn>>
  BY DEF CannotOpen
<1>2. \A q \in Objects :
        (Alive(q)' <=> Alive(q)) /\ (Saves(q)' <=> Saves(q)) /\ (Keeps(q)' <=> Keeps(q))
  BY <1>1 DEF Alive, Saves, Keeps
<1>3. Made' = Made /\ Writing' = Writing
  BY <1>1 DEF Made, Writing
<1>4. PrefsTyped' /\ InOrder' /\ InCache' /\ HoldsIt' /\ FileStored'
  BY <1>1, <1>2, <1>3 DEF PrefsIInv, PrefsTyped, InOrder, InCache, HoldsIt, FileStored
<1>5. (OneSaves => OneSaves') /\ (HasLatest => HasLatest')
  BY <1>1, <1>2, <1>3 DEF OneSaves, HasLatest
<1>6. ~clash' => ~clash
  OBVIOUS
<1> QED
  BY <1>1, <1>4, <1>5, <1>6 DEF PrefsIInv

LEMMA SaveStep ==
  ASSUME PrefsIInv, NEW t \in Threads, NEW o \in Objects, Save(t, o)
  PROVE  PrefsIInv'
<1> SUFFICES ASSUME BeginWrite(t, o), latest' = object[o].json
             PROVE  PrefsIInv'
  BY SaveFailsStep DEF Save
<1>1. /\ step[t] = Idle /\ t \in holders[o] /\ WritesFile(object[o].mode)
      /\ BeginWrite(t, o)
      /\ clash' = (clash \/ (object[o].mode = "ReadWrite" /\ Writing # {}))
      /\ latest' = object[o].json
      /\ UNCHANGED <<plugin, object, holders, componentCache, stored, torn>>
  BY DEF Save, Uses
<1>2. /\ Writing' = Writing \cup {t} /\ t \notin Writing
      /\ step' = [u \in Threads |-> step'[u]]
      /\ step'[t].at = "write" /\ step'[t].text = object[o].json
      /\ \A u \in Threads \ {t} : step'[u] = step[u]
      /\ (mixed' <=> Writing # {})
  BY <1>1, BeginWriteStep DEF PrefsIInv
<1>3. Saves(o)
  BY <1>1 DEF Saves, Alive
<1>4. \A q \in Objects :
        (Alive(q)' <=> Alive(q)) /\ (Saves(q)' <=> Saves(q)) /\ (Keeps(q)' <=> Keeps(q))
  BY <1>1 DEF Alive, Saves, Keeps
<1>5. PrefsTyped'
  BY <1>1, <1>2 DEF PrefsIInv, PrefsTyped
<1>6. Made' = Made
  BY <1>1 DEF Made
<1>7. InOrder' /\ InCache'
  BY <1>1, <1>4, <1>6 DEF PrefsIInv, InOrder, InCache
<1>8. HoldsIt'
  BY <1>1, <1>2 DEF PrefsIInv, HoldsIt
<1>9. FileStored'
  BY <1>2 DEF FileStored
<1>10. ASSUME ~clash', ~torn' PROVE OneSaves' /\ HasLatest'
  <2>1. OneSaves /\ HasLatest /\ ~(object[o].mode = "ReadWrite" /\ Writing # {})
    BY <1>1, <1>10 DEF PrefsIInv
  <2>2. OneSaves'
    <3>1. \A p, q \in Objects : Saves(p) /\ Saves(q) => p = q
      BY <2>1 DEF OneSaves
    <3>2. \A q \in Objects : Saves(q) => q = o
      BY <3>1, <1>3
    <3>3. Writing' \subseteq holders'[o]
      BY <1>1, <1>2, <1>3, <2>1 DEF OneSaves
    <3> QED
      BY <3>1, <3>2, <3>3, <1>4 DEF OneSaves
  <2>3. CASE SavesAtEnd(object[o].mode)
    BY <2>2, <2>3, <1>1, <1>3, <1>4 DEF HasLatest, Keeps
  <2>4. CASE ~SavesAtEnd(object[o].mode)
    <3>1. object[o].mode = "ReadWrite" /\ Writing = {}
      BY <2>1, <2>4, <1>1 DEF WritesFile, SavesAtEnd
    <3>2. \A q \in Objects : ~Keeps(q)
      BY <2>1, <2>4, <1>3 DEF OneSaves, Keeps
    <3>3. Writing' = {t} /\ ~mixed'
      BY <3>1, <1>2
    <3> QED
      BY <2>2, <3>2, <3>3, <1>1, <1>2, <1>4 DEF HasLatest
  <2> QED
    BY <2>3, <2>4
<1> QED
  BY <1>5, <1>7, <1>8, <1>9, <1>10 DEF PrefsIInv

LEMMA EndWriteStep ==
  ASSUME PrefsIInv, NEW t \in Threads, EndWrite(t)
  PROVE  PrefsIInv'
<1>1. /\ t \in Writing
      /\ WriteAll(t) \/ WritePart
      /\ step' = [step EXCEPT ![t] = Idle]
      /\ UNCHANGED <<plugin, object, holders, componentCache, mixed, clash, torn>>
  BY DEF EndWrite
<1>2. step'[t].at = "idle" /\ \A u \in Threads \ {t} : step'[u] = step[u]
  BY <1>1 DEF PrefsIInv, PrefsTyped, Idle
<1>3. Writing' = Writing \ {t}
  BY <1>2 DEF Writing
<1>4. \A q \in Objects :
        (Alive(q)' <=> Alive(q)) /\ (Saves(q)' <=> Saves(q)) /\ (Keeps(q)' <=> Keeps(q))
  BY <1>1 DEF Alive, Saves, Keeps
<1>5. PrefsTyped'
  BY <1>1 DEF PrefsIInv, PrefsTyped
<1>6. Made' = Made
  BY <1>1 DEF Made
<1>7. InOrder' /\ InCache'
  BY <1>1, <1>4, <1>6 DEF PrefsIInv, InOrder, InCache
<1>8. HoldsIt'
  BY <1>1, <1>2 DEF PrefsIInv, HoldsIt
<1>9. FileStored'
  BY <1>1 DEF FileStored, WriteAll, WritePart
<1>10. ASSUME ~clash', ~torn' PROVE OneSaves' /\ HasLatest'
  <2>1. OneSaves /\ HasLatest
    BY <1>1, <1>10 DEF PrefsIInv
  <2>2. OneSaves'
    BY <2>1, <1>1, <1>3, <1>4 DEF OneSaves
  <2>3. CASE \E q \in Objects : Keeps(q) /\ object[q].json = latest
    <3>1. PICK q \in Objects : Keeps(q) /\ object[q].json = latest
      BY <2>3
    <3>2. Alive(q) /\ object[q].mode = "AutoSave"
      BY <3>1 DEF Keeps, Saves, SavesAtEnd
    <3>3. latest' = latest
      BY <3>2, <1>1 DEF WriteAll, WritePart
    <3> QED
      BY <2>2, <3>1, <3>3, <1>1, <1>4 DEF HasLatest
  <2>4. CASE \A q \in Objects : ~Keeps(q)
    <3>1. Writing = {t} /\ step[t].text = latest /\ ~mixed
      BY <2>1, <2>4, <1>1 DEF HasLatest
    <3>2. ~ \E q \in Objects : Alive(q) /\ object[q].mode = "AutoSave"
      BY <2>4 DEF Keeps, Saves, SavesAtEnd, WritesFile
    <3>3. file' = latest'
      BY <3>1, <3>2, <1>1 DEF WriteAll, WritePart
    <3>4. Writing' = {}
      BY <3>1, <1>3
    <3> QED
      BY <2>2, <3>3, <3>4, <2>4, <1>4 DEF HasLatest
  <2> QED
    BY <2>1, <2>3, <2>4 DEF HasLatest
<1> QED
  BY <1>5, <1>7, <1>8, <1>9, <1>10 DEF PrefsIInv

(***************************************************************************)
(* A holder that lets go; the last one of an object in ModeAutoSave begins *)
(* to save it.                                                             *)
(***************************************************************************)
LEMMA LetGoStep ==
  ASSUME PrefsIInv, NEW t \in Threads, NEW h \in {t, Cache}, NEW o \in Objects, LetGo(t, h, o)
  PROVE  PrefsIInv'
<1>1. /\ step[t] = Idle /\ h \in holders[o]
      /\ holders' = [holders EXCEPT ![o] = @ \ {h}]
      /\ UNCHANGED <<plugin, object, componentCache, clash, stored, torn>>
  BY DEF LetGo
<1>2. /\ holders'[o] = holders[o] \ {h}
      /\ \A q \in Objects \ {o} : holders'[q] = holders[q]
      /\ holders' \in [Objects -> SUBSET (Threads \cup {Cache})]
  BY <1>1 DEF PrefsIInv, PrefsTyped
<1>3. Alive(o) /\ (Alive(o)' <=> holders[o] # {h})
  BY <1>1, <1>2 DEF Alive
<1>4. \A q \in Objects \ {o} : Alive(q)' <=> Alive(q)
  BY <1>2 DEF Alive
<1>5. /\ \A q \in Objects \ {o} : (Saves(q)' <=> Saves(q)) /\ (Keeps(q)' <=> Keeps(q))
      /\ Saves(o)' <=> Saves(o) /\ Alive(o)'
      /\ Keeps(o)' <=> Keeps(o) /\ Alive(o)'
  BY <1>1, <1>3, <1>4 DEF Saves, Keeps
<1>6. Made' = Made
  BY <1>1 DEF Made
<1>7. InOrder' /\ InCache'
  BY <1>1, <1>3, <1>4, <1>6 DEF PrefsIInv, InOrder, InCache
<1>8. \A u \in Threads : step[u].at # "idle" => u # h
  BY <1>1, PreferencesAssumption DEF Idle
<1>9. CASE holders[o] = {h} /\ SavesAtEnd(object[o].mode)
  <2>1. ASSUME ~clash', ~torn'
        PROVE  /\ Writing = {} /\ OneSaves' /\ object[o].json = latest
               /\ \A q \in Objects : ~Keeps(q)'
    <3>1. OneSaves /\ HasLatest
      BY <1>1, <2>1 DEF PrefsIInv
    <3>2. Saves(o) /\ Keeps(o)
      BY <1>3, <1>9 DEF Saves, Keeps, SavesAtEnd, WritesFile
    <3>3. \A q \in Objects : Saves(q) => q = o
      BY <3>1, <3>2 DEF OneSaves
    <3>4. Writing \subseteq {h}
      BY <1>9, <3>1, <3>2 DEF OneSaves
    <3>5. Writing = {}
      BY <3>4, <1>8 DEF Writing
    <3>6. \A q \in Objects : ~Saves(q)' /\ ~Keeps(q)'
      BY <1>3, <1>5, <1>9, <3>3 DEF Keeps
    <3>7. object[o].json = latest
      BY <3>1, <3>2, <3>3 DEF HasLatest, Keeps
    <3>8. OneSaves'
      BY <3>6 DEF OneSaves
    <3> QED
      BY <3>5, <3>6, <3>7, <3>8
  <2>2. CASE BeginWrite(t, o) /\ UNCHANGED latest
    <3>1. /\ Writing' = Writing \cup {t} /\ t \notin Writing
          /\ step' = [u \in Threads |-> step'[u]]
          /\ step'[t].at = "write" /\ step'[t].text = object[o].json
          /\ \A u \in Threads \ {t} : step'[u] = step[u]
          /\ (mixed' <=> Writing # {})
      BY <1>1, <2>2, BeginWriteStep DEF PrefsIInv
    <3>2. PrefsTyped'
      BY <1>1, <1>2, <3>1 DEF PrefsIInv, PrefsTyped
    <3>3. HoldsIt'
      BY <1>2, <1>8, <3>1 DEF PrefsIInv, HoldsIt
    <3>4. FileStored'
      BY <3>1 DEF FileStored
    <3>5. ASSUME ~clash', ~torn' PROVE HasLatest'
      <4>1. Writing' = {t} /\ ~mixed' /\ step'[t].text = latest'
        BY <2>1, <2>2, <3>1, <3>5
      <4> QED
        BY <4>1, <2>1, <3>5 DEF HasLatest
    <3> QED
      BY <1>7, <2>1, <3>2, <3>3, <3>4, <3>5 DEF PrefsIInv
  <2>3. CASE CannotOpen /\ latest' = file
    <3>1. UNCHANGED <<file, step, mixed>>
      BY <2>3 DEF CannotOpen
    <3>2. Writing' = Writing
      BY <3>1 DEF Writing
    <3>3. PrefsTyped' /\ HoldsIt'
      BY <1>1, <1>2, <1>8, <3>1 DEF PrefsIInv, PrefsTyped, HoldsIt
    <3>4. FileStored'
      BY <1>1, <3>1, <3>2 DEF PrefsIInv, FileStored
    <3>5. ASSUME ~clash', ~torn' PROVE HasLatest'
      BY <2>1, <2>3, <3>1, <3>2, <3>5 DEF HasLatest
    <3> QED
      BY <1>7, <2>1, <3>3, <3>4, <3>5 DEF PrefsIInv
  <2> QED
    BY <1>9, <2>2, <2>3 DEF LetGo
<1>10. CASE ~(holders[o] = {h} /\ SavesAtEnd(object[o].mode))
  <2>1. UNCHANGED <<file, step, mixed, latest>>
    BY <1>10 DEF LetGo
  <2>2. Writing' = Writing
    BY <2>1 DEF Writing
  <2>3. PrefsTyped'
    BY <1>1, <1>2, <2>1 DEF PrefsIInv, PrefsTyped
  <2>4. HoldsIt'
    BY <1>2, <1>8, <2>1 DEF PrefsIInv, HoldsIt
  <2>5. FileStored'
    BY <1>1, <2>1, <2>2 DEF PrefsIInv, FileStored
  <2>6. ASSUME ~clash', ~torn' PROVE OneSaves' /\ HasLatest'
    <3>1. OneSaves /\ HasLatest
      BY <1>1, <2>6 DEF PrefsIInv
    <3>2. h \notin Writing
      BY <1>8 DEF Writing
    <3>3. OneSaves'
      BY <1>2, <1>5, <2>2, <3>1, <3>2 DEF OneSaves
    <3>4. \A q \in Objects : Keeps(q)' <=> Keeps(q)
      BY <1>3, <1>5, <1>10 DEF Keeps
    <3>5. HasLatest'
      BY <1>1, <2>1, <2>2, <3>1, <3>4 DEF HasLatest
    <3> QED
      BY <3>3, <3>5
  <2> QED
    BY <1>7, <2>3, <2>4, <2>5, <2>6 DEF PrefsIInv
<1> QED
  BY <1>9, <1>10

-----------------------------------------------------------------------------
(* Settings, and crashes.                                                  *)

LEMMA AssignStep ==
  ASSUME PrefsIInv, NEW t \in Threads, NEW o \in Objects, NEW k, NEW v,
         t \in holders[o], Assign(o, k, v), step[t].at # "write",
         step' = step \/ step' = [step EXCEPT ![t] = Idle]
  PROVE  PrefsIInv'
<1>1. /\ object' = [object EXCEPT ![o].json[k] = v]
      /\ latest' = IF object[o].mode = "AutoSave" THEN object'[o].json ELSE latest
      /\ UNCHANGED <<plugin, file, holders, componentCache, mixed, clash, stored, torn>>
  BY DEF Assign
<1>2. /\ object' = [q \in Objects |-> object'[q]]
      /\ \A q \in Objects : /\ object'[q] = [mode |-> object'[q].mode, json |-> object'[q].json]
                            /\ object'[q].mode = object[q].mode
      /\ \A q \in Objects \ {o} : object'[q] = object[q]
  <2> DEFINE json == [object[o].json EXCEPT ![k] = v]
  <2>1. /\ object = [q \in Objects |-> object[q]]
        /\ \A q \in Objects : object[q] = [mode |-> object[q].mode, json |-> object[q].json]
    BY DEF PrefsIInv, PrefsTyped
  <2>2. /\ object' = [q \in Objects |-> object'[q]]
        /\ object'[o] = [object[o] EXCEPT !.json = json]
        /\ \A q \in Objects \ {o} : object'[q] = object[q]
    BY <1>1, <2>1
  <2> HIDE DEF json
  <2>3. object'[o] = [mode |-> object[o].mode, json |-> json]
    BY <2>1, <2>2
  <2> QED
    BY <2>1, <2>2, <2>3
<1>3. /\ step' = [u \in Threads |-> step'[u]]
      /\ \A u \in Threads : step'[u] = step[u] \/ (u = t /\ step'[u].at = "idle")
  BY DEF PrefsIInv, PrefsTyped, Idle
<1>4. Writing' = Writing /\ \A u \in Writing : step'[u] = step[u]
  BY <1>3 DEF Writing
<1>5. \A q \in Objects :
        (Alive(q)' <=> Alive(q)) /\ (Saves(q)' <=> Saves(q)) /\ (Keeps(q)' <=> Keeps(q))
  BY <1>1, <1>2 DEF Alive, Saves, Keeps
<1>6. PrefsTyped'
  BY <1>1, <1>2, <1>3 DEF PrefsIInv, PrefsTyped
<1>7. Made' = Made
  BY <1>2 DEF Made
<1>8. InOrder' /\ InCache'
  BY <1>1, <1>2, <1>5, <1>7 DEF PrefsIInv, InOrder, InCache
<1>9. HoldsIt'
  BY <1>1, <1>3 DEF PrefsIInv, HoldsIt
<1>10. FileStored'
  BY <1>1, <1>4 DEF PrefsIInv, FileStored
<1>11. ASSUME ~clash', ~torn' PROVE OneSaves' /\ HasLatest'
  <2>1. OneSaves /\ HasLatest
    BY <1>1, <1>11 DEF PrefsIInv
  <2>2. OneSaves'
    BY <2>1, <1>1, <1>4, <1>5 DEF OneSaves
  <2>3. CASE object[o].mode = "AutoSave"
    <3>1. Keeps(o)
      BY <2>3 DEF Keeps, Saves, Alive, SavesAtEnd, WritesFile
    <3>2. latest' = object'[o].json
      BY <2>3, <1>1
    <3> QED
      BY <2>2, <3>1, <3>2, <1>5 DEF HasLatest
  <2>4. CASE object[o].mode # "AutoSave"
    <3>1. ~Keeps(o) /\ latest' = latest
      BY <2>4, <1>1 DEF Keeps, SavesAtEnd
    <3>2. CASE \E q \in Objects : Keeps(q) /\ object[q].json = latest
      <4>1. PICK q \in Objects : Keeps(q) /\ object[q].json = latest
        BY <3>2
      <4>2. object'[q] = object[q]
        BY <4>1, <3>1, <1>2
      <4> QED
        BY <2>2, <3>1, <4>1, <4>2, <1>5 DEF HasLatest
    <3>3. CASE ~ \E q \in Objects : Keeps(q) /\ object[q].json = latest
      BY <2>1, <2>2, <3>1, <3>3, <1>1, <1>4, <1>5 DEF HasLatest
    <3> QED
      BY <3>2, <3>3
  <2> QED
    BY <2>3, <2>4
<1> QED
  BY <1>6, <1>8, <1>9, <1>10, <1>11 DEF PrefsIInv

LEMMA ContainsStep ==
  ASSUME PrefsIInv, NEW t \in Threads, NEW o \in Objects, NEW k \in Keys, NEW v \in Values,
         Contains(t, o, k, v)
  PROVE  PrefsIInv'
<1>1. /\ step[t] = Idle /\ t \in holders[o]
      /\ step' = [step EXCEPT ![t] = [at |-> "default", o |-> o, k |-> k, v |-> v]]
      /\ UNCHANGED <<plugin, file, object, holders, componentCache, mixed, clash, latest,
                     stored, torn>>
  BY DEF Contains, Uses
<1>2. /\ step' = [u \in Threads |-> step'[u]]
      /\ step'[t].at = "default" /\ step'[t].o = o
      /\ \A u \in Threads \ {t} : step'[u] = step[u]
  BY <1>1 DEF PrefsIInv, PrefsTyped
<1>3. step[t].at = "idle"
  BY <1>1 DEF Idle
<1>4. Writing' = Writing /\ t \notin Writing
  BY <1>2, <1>3 DEF Writing
<1>5. \A q \in Objects :
        (Alive(q)' <=> Alive(q)) /\ (Saves(q)' <=> Saves(q)) /\ (Keeps(q)' <=> Keeps(q))
  BY <1>1 DEF Alive, Saves, Keeps
<1>6. Made' = Made
  BY <1>1 DEF Made
<1>7. PrefsTyped' /\ HoldsIt'
  BY <1>1, <1>2 DEF PrefsIInv, PrefsTyped, HoldsIt
<1>8. InOrder' /\ InCache' /\ FileStored'
  BY <1>1, <1>4, <1>5, <1>6 DEF PrefsIInv, InOrder, InCache, FileStored
<1>9. OneSaves => OneSaves'
  BY <1>1, <1>4, <1>5 DEF OneSaves
<1>10. \A u \in Writing : u \in Threads \ {t}
  BY <1>4 DEF Writing
<1>11. HasLatest => HasLatest'
  BY <1>1, <1>2, <1>4, <1>5, <1>10 DEF HasLatest
<1> QED
  BY <1>1, <1>7, <1>8, <1>9, <1>11 DEF PrefsIInv

(* Nobody has an object any more; what is found is what was stored. *)
LEMMA CrashStep ==
  ASSUME PrefsIInv, Crash
  PROVE  PrefsIInv'
<1>1. \A o \in Objects : ~Alive(o)' /\ ~Saves(o)' /\ ~Keeps(o)'
  BY DEF Crash, Alive, Saves, Keeps
<1>2. Writing' = {} /\ \A t \in Threads : step'[t].at = "idle"
  BY DEF Crash, Writing, Idle
<1>3. Made' = Made
  BY DEF Crash, Made
<1>4. PrefsTyped'
  BY DEF PrefsIInv, PrefsTyped, Crash
<1>5. InOrder' /\ InCache' /\ HoldsIt'
  BY <1>1, <1>2, <1>3 DEF PrefsIInv, InOrder, InCache, HoldsIt
<1>6. ~torn' => file' = stored' /\ latest' = stored'
  BY DEF PrefsIInv, FileStored, Crash
<1>7. FileStored'
  BY <1>6 DEF FileStored
<1>8. ~clash' /\ ~torn' => OneSaves' /\ HasLatest'
  BY <1>1, <1>2, <1>6 DEF OneSaves, HasLatest
<1> QED
  BY <1>4, <1>5, <1>7, <1>8 DEF PrefsIInv

-----------------------------------------------------------------------------

LEMMA PrefsStepIInv == PrefsIInv /\ [PrefsNext]_prefsVars => PrefsIInv'
<1> SUFFICES ASSUME PrefsIInv, [PrefsNext]_prefsVars PROVE PrefsIInv'
  OBVIOUS
<1>1. ASSUME NEW t \in Threads, NEW m \in Modes, ForComponent(t, m) PROVE PrefsIInv'
  BY <1>1, ForComponentStep
<1>2. ASSUME NEW t \in Threads, ForPlugin(t) PROVE PrefsIInv'
  BY <1>2, ForPluginStep
<1>3. ASSUME NEW t \in Threads, SavePluginPreferences(t) PROVE PrefsIInv'
  <2>1. PICK o \in InPluginCache : LetGo(t, Cache, o)
    BY <1>3 DEF SavePluginPreferences
  <2>2. o \in Objects /\ Cache \in {t, Cache}
    BY DEF InPluginCache, Made
  <2> QED
    BY <2>1, <2>2, LetGoStep
<1>4. ASSUME NEW t \in Threads, EndWrite(t) PROVE PrefsIInv'
  BY <1>4, EndWriteStep
<1>5. ASSUME NEW t \in Threads, SetDefault(t) PROVE PrefsIInv'
  <2>1. step[t].at = "default" /\ Assign(step[t].o, step[t].k, step[t].v)
        /\ step' = [step EXCEPT ![t] = Idle]
    BY <1>5 DEF SetDefault
  <2>2. step[t].o \in Objects /\ t \in holders[step[t].o]
    BY <2>1 DEF PrefsIInv, HoldsIt
  <2> QED
    BY <2>1, <2>2, AssignStep
<1>6. ASSUME NEW t \in Threads, NEW o \in Objects, Save(t, o) PROVE PrefsIInv'
  BY <1>6, SaveStep
<1>7. ASSUME NEW t \in Threads, NEW o \in Objects, Drop(t, o) PROVE PrefsIInv'
  BY <1>7, LetGoStep DEF Drop
<1>8. ASSUME NEW t \in Threads, NEW o \in Objects, NEW k \in Keys, NEW v \in Values,
             Set(t, o, k, v) \/ Get(t, o, k, v)
      PROVE  PrefsIInv'
  <2>1. step[t].at # "write" /\ t \in holders[o] /\ Assign(o, k, v) /\ step' = step
    BY <1>8 DEF Set, Get, Uses, Idle
  <2> QED
    BY <2>1, AssignStep
<1>9. ASSUME NEW t \in Threads, NEW o \in Objects, NEW k \in Keys, NEW v \in Values,
             Contains(t, o, k, v)
      PROVE  PrefsIInv'
  BY <1>9, ContainsStep
<1>10. CASE Crash
  BY <1>10, CrashStep
<1>11. CASE UNCHANGED prefsVars
  BY <1>11 DEF prefsVars, PrefsIInv, PrefsTyped, InOrder, Made, InCache, HoldsIt, FileStored,
               OneSaves, HasLatest, Saves, Keeps, Alive, Writing
<1> QED
  BY <1>1, <1>2, <1>3, <1>4, <1>5, <1>6, <1>7, <1>8, <1>9, <1>10, <1>11 DEF PrefsNext

LEMMA PrefsIInvAlways == PrefsSpec => []PrefsIInv
  BY PrefsInitIInv, PrefsStepIInv, PTL DEF PrefsSpec

(***************************************************************************)
(* The users of a component in one mode share one object, however many     *)
(* threads ask, let go and ask again: ForComponent's weak pointers never   *)
(* lose an object that somebody still has.                                 *)
(***************************************************************************)
THEOREM OneObjectPerMode == PrefsSpec => []OnePerMode
<1>1. PrefsIInv => OnePerMode
  <2> SUFFICES ASSUME PrefsIInv, ~plugin, NEW o \in Made, NEW p \in Made, Alive(o), Alive(p),
                      object[o].mode = object[p].mode
               PROVE  o = p
    BY DEF OnePerMode
  <2>1. o \in Objects /\ p \in Objects
    BY DEF Made
  <2> QED
    BY <2>1 DEF PrefsIInv, InCache
<1> QED
  BY <1>1, PrefsIInvAlways, PTL

(***************************************************************************)
(* When nobody has the component any more the file holds the settings that *)
(* should be found next, for any number of threads, objects, settings,     *)
(* failures of the file and crashes, unless objects that save have         *)
(* overlapped or a crash has met the file truncated.  Saves that fail take *)
(* what was set since the last one, or all, and leave it at that: nothing  *)
(* older comes back and nothing else is lost later.                        *)
(***************************************************************************)
THEOREM SettingsAreFound == PrefsSpec => []SettingsSurvive
<1>1. PrefsIInv => SettingsSurvive
  BY DEF PrefsIInv, SettingsSurvive, HasLatest, Keeps, Saves
<1> QED
  BY <1>1, PrefsIInvAlways, PTL

-----------------------------------------------------------------------------
(* Types.                                                                  *)

ObjectType == [mode : Modes \cup {"none", "AutoSave"}, json : Settings]
StepType == {Idle} \cup [at : {"write"}, text : Settings]
              \cup [at : {"default"}, o : Objects, k : Keys, v : Values]

(* The types without the steps of threads, which are a function as well. *)
DataTypes ==
  /\ plugin \in BOOLEAN
  /\ file \in Settings
  /\ object \in [Objects -> ObjectType]
  /\ holders \in [Objects -> SUBSET (Threads \cup {Cache})]
  /\ componentCache \in [Modes -> Objects \cup {NoObject}]
  /\ mixed \in BOOLEAN /\ clash \in BOOLEAN /\ torn \in BOOLEAN
  /\ latest \in Settings /\ stored \in Settings

PrefsTypesIInv == DataTypes /\ step \in [Threads -> StepType]

LEMMA MakeTypes ==
  ASSUME DataTypes, NEW m \in Modes \cup {"AutoSave"}, NEW owners \in SUBSET (Threads \cup {Cache}),
         Make(m, owners)
  PROVE  /\ object' \in [Objects -> ObjectType] /\ clash' \in BOOLEAN
         /\ holders' \in [Objects -> SUBSET (Threads \cup {Cache})]
         /\ latest' \in Settings
<1>1. clash' \in BOOLEAN
  BY DEF Make, DataTypes
<1>2. PICK json \in {file, NoSettings} :
        /\ object' = [object EXCEPT ![New] = [mode |-> m, json |-> json]]
        /\ latest' = IF m = "AutoSave" /\ json # file THEN json ELSE latest
  BY DEF Make
<1>3. json \in Settings /\ latest \in Settings
  BY DEF DataTypes, NoSettings, Settings
<1>4. [mode |-> m, json |-> json] \in ObjectType
  BY <1>3 DEF ObjectType
<1>5. object' \in [Objects -> ObjectType] /\ holders' \in [Objects -> SUBSET (Threads \cup {Cache})]
  BY <1>2, <1>4 DEF Make, DataTypes
<1> QED
  BY <1>1, <1>2, <1>3, <1>5

LEMMA GettingTypes ==
  ASSUME PrefsTypesIInv, NEW t \in Threads, (\E m \in Modes : ForComponent(t, m)) \/ ForPlugin(t)
  PROVE  PrefsTypesIInv'
<1>1. /\ UNCHANGED <<plugin, file, step, mixed, stored, torn>> /\ DataTypes
  BY DEF ForComponent, ForPlugin, PrefsTypesIInv
<1>2. /\ object' \in [Objects -> ObjectType] /\ clash' \in BOOLEAN
      /\ holders' \in [Objects -> SUBSET (Threads \cup {Cache})]
      /\ latest' \in Settings
  <2>1. ASSUME NEW o, Share(t, o)
        PROVE  /\ UNCHANGED <<object, clash, latest>>
               /\ holders' \in [Objects -> SUBSET (Threads \cup {Cache})]
    BY <1>1, <2>1 DEF Share, DataTypes
  <2>2. ASSUME NEW m \in Modes, ForComponent(t, m)
        PROVE  (\E o : Share(t, o)) \/ Make(m, {t})
    BY <2>2 DEF ForComponent
  <2>3. ForPlugin(t) => (\E o : Share(t, o)) \/ Make("AutoSave", {Cache, t})
    BY DEF ForPlugin
  <2>4. {t} \in SUBSET (Threads \cup {Cache}) /\ {Cache, t} \in SUBSET (Threads \cup {Cache})
    OBVIOUS
  <2> QED
    BY <1>1, <2>1, <2>2, <2>3, <2>4, MakeTypes DEF DataTypes
<1>3. componentCache' \in [Modes -> Objects \cup {NoObject}]
  <2>1. ASSUME NEW m \in Modes, ForComponent(t, m)
        PROVE  \/ UNCHANGED componentCache
               \/ New \in Objects /\ componentCache' = [componentCache EXCEPT ![m] = New]
    BY <2>1 DEF ForComponent, Make
  <2>2. ForPlugin(t) => UNCHANGED componentCache
    BY DEF ForPlugin
  <2> QED
    BY <1>1, <2>1, <2>2 DEF DataTypes
<1> QED
  BY <1>1, <1>2, <1>3 DEF PrefsTypesIInv, DataTypes

LEMMA AssignTypes ==
  ASSUME DataTypes, NEW o \in Objects, NEW k \in Keys, NEW v \in Values, Assign(o, k, v)
  PROVE  DataTypes'
<1>1. [object[o].json EXCEPT ![k] = v] \in Settings
  BY DEF DataTypes, ObjectType, Settings
<1>2. [object[o] EXCEPT !.json = [object[o].json EXCEPT ![k] = v]] \in ObjectType
  BY <1>1 DEF DataTypes, ObjectType
<1>3. object' = [object EXCEPT ![o] = [object[o] EXCEPT !.json = [object[o].json EXCEPT ![k] = v]]]
  BY DEF Assign, DataTypes
<1>4. object' \in [Objects -> ObjectType]
  BY <1>2, <1>3 DEF DataTypes
<1>5. latest' \in Settings
  <2>1. object'[o].json \in Settings
    BY <1>4 DEF ObjectType
  <2> QED
    BY <2>1 DEF Assign, DataTypes
<1> QED
  BY <1>4, <1>5 DEF Assign, DataTypes

LEMMA BeginWriteTypes ==
  ASSUME PrefsTypesIInv, NEW t \in Threads, NEW o \in Objects, BeginWrite(t, o)
  PROVE  file' \in Settings /\ step' \in [Threads -> StepType] /\ mixed' \in BOOLEAN
<1>1. [at |-> "write", text |-> object[o].json] \in StepType
  BY DEF PrefsTypesIInv, DataTypes, ObjectType, StepType
<1>2. file' \in Settings
  BY DEF BeginWrite, NoSettings, Settings
<1>3. mixed' \in BOOLEAN
  BY DEF BeginWrite
<1> QED
  BY <1>1, <1>2, <1>3 DEF BeginWrite, PrefsTypesIInv

LEMMA LetGoTypes ==
  ASSUME PrefsTypesIInv, NEW t \in Threads, NEW o \in Objects, NEW holder, LetGo(t, holder, o)
  PROVE  PrefsTypesIInv'
<1>1. holders' \in [Objects -> SUBSET (Threads \cup {Cache})]
  BY DEF LetGo, PrefsTypesIInv, DataTypes
<1>2. file' \in Settings /\ step' \in [Threads -> StepType] /\ mixed' \in BOOLEAN
  BY BeginWriteTypes DEF LetGo, CannotOpen, PrefsTypesIInv, DataTypes
<1>3. latest' \in Settings
  BY DEF LetGo, PrefsTypesIInv, DataTypes
<1> QED
  BY <1>1, <1>2, <1>3 DEF LetGo, PrefsTypesIInv, DataTypes

LEMMA SavingTypes ==
  ASSUME PrefsTypesIInv, NEW t \in Threads, EndWrite(t) \/ \E o \in Objects : Save(t, o)
  PROVE  PrefsTypesIInv'
<1>1. ASSUME NEW o \in Objects, Save(t, o) PROVE PrefsTypesIInv'
  <2>1. file' \in Settings /\ step' \in [Threads -> StepType] /\ mixed' \in BOOLEAN
    BY <1>1, BeginWriteTypes DEF Save, CannotOpen, PrefsTypesIInv, DataTypes
  <2>2. clash' \in BOOLEAN
    BY <1>1 DEF Save, PrefsTypesIInv, DataTypes
  <2>3. latest' \in Settings
    BY <1>1 DEF Save, PrefsTypesIInv, DataTypes, ObjectType
  <2> QED
    BY <1>1, <2>1, <2>2, <2>3 DEF Save, PrefsTypesIInv, DataTypes
<1>2. CASE EndWrite(t)
  <2>1. step[t].text \in Settings
    BY <1>2 DEF EndWrite, Writing, PrefsTypesIInv, StepType, Idle
  <2>2. NoSettings \in Settings /\ latest \in Settings
    BY DEF NoSettings, Settings, PrefsTypesIInv, DataTypes
  <2>3. file' \in Settings /\ stored' \in Settings /\ latest' \in Settings
    BY <1>2, <2>1, <2>2 DEF EndWrite, WriteAll, WritePart
  <2>4. step' \in [Threads -> StepType]
    BY <1>2 DEF EndWrite, PrefsTypesIInv, StepType
  <2> QED
    BY <1>2, <2>3, <2>4 DEF EndWrite, PrefsTypesIInv, DataTypes
<1> QED
  BY <1>1, <1>2

LEMMA SettingTypes ==
  ASSUME PrefsTypesIInv, NEW t \in Threads,
         \/ SetDefault(t)
         \/ \E o \in Objects, k \in Keys, v \in Values :
              Set(t, o, k, v) \/ Get(t, o, k, v) \/ Contains(t, o, k, v)
  PROVE  PrefsTypesIInv'
<1>1. CASE SetDefault(t)
  <2>1. step[t].o \in Objects /\ step[t].k \in Keys /\ step[t].v \in Values
    BY <1>1 DEF SetDefault, PrefsTypesIInv, StepType, Idle
  <2>2. step' \in [Threads -> StepType]
    BY <1>1 DEF SetDefault, PrefsTypesIInv, StepType
  <2> QED
    BY <1>1, <2>1, <2>2, AssignTypes DEF SetDefault, PrefsTypesIInv
<1>2. ASSUME NEW o \in Objects, NEW k \in Keys, NEW v \in Values, Set(t, o, k, v) \/ Get(t, o, k, v)
      PROVE  PrefsTypesIInv'
  BY <1>2, AssignTypes DEF Set, Get, PrefsTypesIInv
<1>3. ASSUME NEW o \in Objects, NEW k \in Keys, NEW v \in Values, Contains(t, o, k, v)
      PROVE  PrefsTypesIInv'
  <2>1. [at |-> "default", o |-> o, k |-> k, v |-> v] \in StepType
    BY DEF StepType
  <2>2. step' \in [Threads -> StepType]
    BY <1>3, <2>1 DEF Contains, PrefsTypesIInv
  <2> QED
    BY <1>3, <2>2 DEF Contains, PrefsTypesIInv, DataTypes
<1> QED
  BY <1>1, <1>2, <1>3

LEMMA PrefsTypes == PrefsSpec => []PrefsTypeOK
<1>1. PrefsInit => PrefsTypesIInv
  <2>1. NoSettings \in Settings
    BY DEF NoSettings, Settings
  <2>2. [mode |-> "none", json |-> NoSettings] \in ObjectType
    BY <2>1 DEF ObjectType
  <2>3. Idle \in StepType
    BY DEF StepType
  <2> QED
    BY <2>1, <2>2, <2>3 DEF PrefsInit, PrefsTypesIInv, DataTypes
<1>2. PrefsTypesIInv /\ [PrefsNext]_prefsVars => PrefsTypesIInv'
  <2> SUFFICES ASSUME PrefsTypesIInv, [PrefsNext]_prefsVars PROVE PrefsTypesIInv'
    OBVIOUS
  <2>1. CASE Crash
    <3>1. torn' \in BOOLEAN
      BY <2>1 DEF Crash, PrefsTypesIInv, DataTypes
    <3> QED
      BY <2>1, <3>1 DEF Crash, PrefsTypesIInv, DataTypes, StepType
  <2>2. CASE UNCHANGED prefsVars
    BY <2>2 DEF prefsVars, PrefsTypesIInv, DataTypes
  <2>3. ASSUME NEW t \in Threads, SavePluginPreferences(t) \/ \E o \in Objects : Drop(t, o)
        PROVE  PrefsTypesIInv'
    BY <2>3, LetGoTypes DEF SavePluginPreferences, Drop, InPluginCache, Made
  <2> QED
    BY <2>1, <2>2, <2>3, GettingTypes, SavingTypes, SettingTypes DEF PrefsNext
<1>3. PrefsTypesIInv => PrefsTypeOK
  BY DEF PrefsTypesIInv, DataTypes, ObjectType, StepType, PrefsTypeOK
<1> QED
  BY <1>1, <1>2, <1>3, PTL DEF PrefsSpec

=============================================================================
