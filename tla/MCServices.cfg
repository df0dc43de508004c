SPECIFICATION Spec
CONSTANTS
  Users = {u1, u2}
  NoThread = none
  MaxRuns = 2
  Scopes = {s1, s2}
  Batches = {1, 2, 3}
  MaxWrites = 3
  MaxFaults = 2
  Conns = {c1, c2, c3}
  MaxStatements = 1
  Threads = {t1, t2}
  Cache = cache
  Modes = {"AutoSave", "ReadWrite", "ReadOnly"}
  MaxObjects = 2
  Keys = {k}
  Values = {v}
  Missing = missing
  Callers = {c1, c2}
  NoCaller = none
  MaxEntries = 3
  Kinds = {"good", "other_sdk", "dangling", "throws", "reenters"}
  Paths = {p, q}
  Names = {en, de}
  Default = en
  Words = {w}
  Null = null
  Schemas = {s1, s2}
  Types = {"Int", "String", "Enum"}
  EntryNames = {a, b}
  MaxSize = 2
  MaxPlaces = 4
  NoEntry = none
  Creators = {c1, c2, c3}
  Depth = 3
  MaxFailures = 1
INVARIANTS
  TypeOK
  AliveWhileWorking
  AllOrNothing
  CanceledIsUndone
  OpenWhileScoped
  UpWhileAlive
  SettingsSurvive
  OnePerMode
  AllOrUpToTheFirstThatThrows
  
  StringsHaveOneOwner
  MadeWhenAllReturned
PROPERTIES
  NoCallbackAfterCancel
  CancelReturns
  QueriesSeeTheEnabled
  FoundStaysFound
CHECK_DEADLOCK FALSE
