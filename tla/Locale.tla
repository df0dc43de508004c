------------------------------- MODULE Locale -------------------------------
(***************************************************************************)
(* f8n::i18n::Locale: the selected locale, the translations loaded for it  *)
(* and for the default locale, and the preference that remembers it.       *)
(* Files come and go on disk between the time they are listed and loaded.  *)
(***************************************************************************)
EXTENDS Naturals

CONSTANTS
  Paths,            (* Directories Initialize is called with.               *)
  Names,            (* Locales.                                             *)
  Default,          (* en_US.                                               *)
  Words,            (* Keys of strings.                                     *)
  Null              (* Json that is null; the path before Initialize.       *)

ASSUME LocaleAssumption ==
  /\ Default \in Names
  /\ Null \notin Names \cup Paths \cup Words

VARIABLES
  disk,             (* Each file: "absent", "broken", or the keys it has.   *)
  localePath,
  locales,          (* What Initialize has listed.                          *)
  selectedLocale,
  localeData,       (* Loaded: of which path and locale, with which keys.   *)
  defaultLocaleData,
  saved,            (* The preference.                                      *)
  announced         (* What LocaleChanged was last called with.             *)

localeVars == <<disk, localePath, locales, selectedLocale, localeData, defaultLocaleData,
                saved, announced>>

Absent == [at |-> "absent"]
Broken == [at |-> "broken"]
Files == {Absent, Broken} \cup [at : {"good"}, words : SUBSET Words]
Loaded == [path : Paths, locale : Names, words : SUBSET Words]

(* FileToByteArray and json::parse: whatever goes wrong gives null. *)
loadLocaleData(d, path, locale) ==
  IF path # Null /\ d[path][locale].at = "good"
  THEN [path |-> path, locale |-> locale, words |-> d[path][locale].words]
  ELSE Null

(* Mutant: the locale is selected before its data are known to be there. *)
SelectedUnloaded(data, locale) == TRUE

IsLoaded(data, locale) == data # Null

(* SetSelectedLocale: the data are replaced even where none were loaded. *)
Select(path, listed, locale) ==
  LET data == IF locale \in listed THEN loadLocaleData(disk, path, locale) ELSE localeData
  IN /\ defaultLocaleData' = IF defaultLocaleData = Null
                             THEN loadLocaleData(disk, path, Default)
                             ELSE defaultLocaleData
     /\ localeData' = data
     /\ IF locale \in listed /\ IsLoaded(data, locale)
        THEN selectedLocale' = locale /\ announced' = locale
        ELSE UNCHANGED <<selectedLocale, announced>>
     /\ saved' = IF locale \in listed /\ data # Null THEN locale ELSE saved

SetSelectedLocale(locale) ==
  /\ Select(localePath, locales, locale)
  /\ UNCHANGED <<disk, localePath, locales>>

Present(path) == {n \in Names : disk[path][n] # Absent}

(* Lists the files and selects once more what is selected. *)
Initialize(path) ==
  /\ localePath' = path
  /\ locales' = Present(path)
  /\ Select(path, locales', selectedLocale)
  /\ UNCHANGED disk

(* Filename throws at a file that was found and is gone, or was a link to  *)
(* nothing: those before it are listed, and nothing is selected.           *)
InitializeThrows(path) ==
  /\ localePath' = path
  /\ locales' \in SUBSET Present(path)
  /\ UNCHANGED <<disk, selectedLocale, localeData, defaultLocaleData, saved, announced>>

(* Another program installs, spoils or removes a file. *)
ChangeFile(path, n, f) ==
  /\ disk' = [disk EXCEPT ![path][n] = f]
  /\ UNCHANGED <<localePath, locales, selectedLocale, localeData, defaultLocaleData, saved,
                 announced>>

(* The process starts again: the constructor reads the preference. *)
Restart ==
  /\ localePath' = Null
  /\ locales' = {}
  /\ selectedLocale' = saved
  /\ localeData' = Null
  /\ defaultLocaleData' = Null
  /\ announced' = saved
  /\ UNCHANGED <<disk, saved>>

(* Translate: the locale whose string is returned, or Null for the key. *)
Translate(word) ==
  IF localeData # Null /\ word \in localeData.words THEN localeData.locale
  ELSE IF defaultLocaleData # Null /\ word \in defaultLocaleData.words THEN Default
  ELSE Null

LocaleInit ==
  /\ disk \in [Paths -> [Names -> {Absent} \cup [at : {"good"}, words : {Words}]]]
  /\ localePath = Null
  /\ locales = {}
  /\ selectedLocale = Default
  /\ localeData = Null
  /\ defaultLocaleData = Null
  /\ saved = Default
  /\ announced = Default

LocaleNext ==
  \/ \E n \in Names : SetSelectedLocale(n)
  \/ \E path \in Paths : Initialize(path) \/ InitializeThrows(path)
  \/ \E path \in Paths, n \in Names, f \in Files : ChangeFile(path, n, f)
  \/ Restart

LocaleSpec == LocaleInit /\ [][LocaleNext]_localeVars

-----------------------------------------------------------------------------
(* Properties.                                                             *)

LocaleTypeOK ==
  /\ disk \in [Paths -> [Names -> Files]]
  /\ localePath \in Paths \cup {Null}
  /\ locales \subseteq Names
  /\ selectedLocale \in Names /\ saved \in Names /\ announced \in Names
  /\ localeData \in Loaded \cup {Null}
  /\ defaultLocaleData \in Loaded \cup {Null}

(***************************************************************************)
(* However selections, new paths, listings that end early, restarts and    *)
(* files that come and go alternate, the locale that GetSelectedLocale     *)
(* names is the one that was announced and that the next start will        *)
(* select.  A word is translated into that locale or into the default one, *)
(* or stays a key; it may be the default one although the selected locale  *)
(* has the word, after its file could not be loaded again.                 *)
(***************************************************************************)
SelectedEverywhere ==
  /\ announced = selectedLocale /\ saved = selectedLocale
  /\ \A w \in Words : Translate(w) \in {selectedLocale, Default, Null}

=============================================================================
