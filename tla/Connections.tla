----------------------------- MODULE Connections -----------------------------
(***************************************************************************)
(* f8n::db::Connection and Statement: the life of connections, of the      *)
(* statements prepared on them, and of the SQLite library, which a static  *)
(* count of connections starts and shuts down.  Every connection guards    *)
(* that count with a mutex of its own, so two connections made or          *)
(* destroyed at the same time race for it.                                 *)
(***************************************************************************)
EXTENDS Integers, FiniteSets

CONSTANTS
  Conns,            (* Connection objects.                                  *)
  MaxStatements     (* Bounds the statements alive on a connection.         *)

ASSUME ConnectionsAssumption ==
  IsFiniteSet(Conns) /\ MaxStatements \in Nat

VARIABLES
  life,             (* "new", "counting" (in the constructor), "alive",     *)
                    (* "leaving" (in the destructor), "gone".               *)
  handle,           (* The sqlite3 the connection points at: "null",        *)
                    (* "open", or "left_open" by a destructor.              *)
  statements,       (* Statements alive on that handle.                     *)
  count,            (* The static count.                                    *)
  read,             (* What a thread inside UpdateReferenceCount has read.  *)
  up,               (* SQLite is initialised.                               *)
  raced             (* Two threads have been inside at once.                *)

connectionVars == <<life, handle, statements, count, read, up, raced>>

Inside == {c \in Conns : life[c] \in {"counting", "leaving"}}
Usable(c) == life[c] = "alive"

Become(c, from, to) == life[c] = from /\ life' = [life EXCEPT ![c] = to]

(* Entering UpdateReferenceCount: what is read may be stale when written.  *)
EnterCount(c, from, to) ==
  /\ Become(c, from, to)
  /\ read' = [read EXCEPT ![c] = count]
  /\ raced' = (raced \/ Inside # {})

(* The constructor: SQLite is initialised where the count was zero. *)
ConstructConnection(c) ==
  /\ EnterCount(c, "new", "counting")
  /\ up' = (up \/ count = 0)
  /\ UNCHANGED <<handle, statements, count>>

FinishConstruct(c) ==
  /\ Become(c, "counting", "alive")
  /\ count' = read[c] + 1
  /\ UNCHANGED <<handle, statements, read, up, raced>>

(* To open initialises SQLite too.  A handle that could not be opened is   *)
(* closed like any other; to open one twice would lose the first.          *)
Open(c) ==
  /\ Usable(c)
  /\ handle[c] = "null"
  /\ handle' = [handle EXCEPT ![c] = "open"]
  /\ up' = TRUE
  /\ UNCHANGED <<life, statements, count, read, raced>>

(* SQLite does not close what has statements. *)
Closed(c) == IF statements[c] = 0 THEN "null" ELSE handle[c]

Close(c) ==
  /\ Usable(c)
  /\ handle' = [handle EXCEPT ![c] = Closed(c)]
  /\ UNCHANGED <<life, statements, count, read, up, raced>>

Prepare(c) ==
  /\ Usable(c)
  /\ handle[c] = "open"
  /\ statements[c] < MaxStatements                                    \* bound
  /\ statements' = [statements EXCEPT ![c] = @ + 1]
  /\ UNCHANGED <<life, handle, count, read, up, raced>>

(* A statement may outlive its connection: then the handle stays open. *)
Finalize(c) ==
  /\ statements[c] > 0
  /\ statements' = [statements EXCEPT ![c] = @ - 1]
  /\ UNCHANGED <<life, handle, count, read, up, raced>>

(* The destructor: Close, whatever comes of it, and then the count. *)
DestructConnection(c) ==
  /\ EnterCount(c, "alive", "leaving")
  /\ handle' = [handle EXCEPT ![c] = IF Closed(c) = "open" THEN "left_open" ELSE "null"]
  /\ UNCHANGED <<statements, count, up>>

(* Mutant: the last connection but one shuts SQLite down. *)
LastButOne(n) == n <= 1
LastOne(n) == n <= 0

FinishDestruct(c) ==
  /\ Become(c, "leaving", "gone")
  /\ count' = IF LastOne(read[c] - 1) THEN 0 ELSE read[c] - 1
  /\ up' = (up /\ ~LastOne(read[c] - 1))
  /\ UNCHANGED <<handle, statements, read, raced>>

ConnectionsInit ==
  /\ life = [c \in Conns |-> "new"]
  /\ handle = [c \in Conns |-> "null"]
  /\ statements = [c \in Conns |-> 0]
  /\ count = 0
  /\ read = [c \in Conns |-> 0]
  /\ up = FALSE
  /\ raced = FALSE

ConnectionsNext ==
  \E c \in Conns : \/ ConstructConnection(c) \/ FinishConstruct(c)
                   \/ Open(c) \/ Close(c) \/ Prepare(c) \/ Finalize(c)
                   \/ DestructConnection(c) \/ FinishDestruct(c)

ConnectionsSpec == ConnectionsInit /\ [][ConnectionsNext]_connectionVars

-----------------------------------------------------------------------------
(* Properties.                                                             *)

ConnectionsTypeOK ==
  /\ life \in [Conns -> {"new", "counting", "alive", "leaving", "gone"}]
  /\ handle \in [Conns -> {"null", "open", "left_open"}]
  /\ statements \in [Conns -> 0..MaxStatements]
  /\ count \in Int
  /\ read \in [Conns -> Int]
  /\ up \in BOOLEAN /\ raced \in BOOLEAN

(***************************************************************************)
(* SQLite is not shut down under a connection: while one is alive it is    *)
(* up, and the count is the number of those alive, as long as no two       *)
(* threads have met inside UpdateReferenceCount.                           *)
(***************************************************************************)
UpWhileAlive ==
  raced \/ /\ \A c \in Conns : life[c] = "alive" => up
           /\ Inside = {} => count = Cardinality({c \in Conns : life[c] = "alive"})

=============================================================================
