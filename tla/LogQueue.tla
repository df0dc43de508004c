------------------------------ MODULE LogQueue ------------------------------
(***************************************************************************)
(* f8n::debug: any thread logs, one log thread hands every entry to each   *)
(* backend in turn.  A session lasts from Start to Stop.                   *)
(*                                                                         *)
(* Start, Stop and enqueue run under one recursive mutex, so at most one   *)
(* thread is inside them and which one it is does not matter: `mutex` says *)
(* what its owner is doing.  Sections of the queue's own mutex are single  *)
(* actions.  The log thread holds neither while it calls a backend, and    *)
(* reads `cancel`, `queue` and `backends` without a lock.                  *)
(*                                                                         *)
(* Entries are numbered from 1 in each session, in the order of push.      *)
(***************************************************************************)
EXTENDS Integers, Sequences

CONSTANTS
  Levels,           (* The levels clients log at, `info` among them.        *)
  MaxBackends,      (* Bounds the backends handed to Start.                 *)
  MaxEntries,       (* Bounds the entries of one session.                   *)
  Reentrant         (* A backend may itself log, on the log thread.         *)

ASSUME LogAssumption ==
  /\ Levels \subseteq {"verbose", "info", "warning", "error"}
  /\ "info" \in Levels
  /\ MaxBackends \in Nat
  /\ MaxEntries \in Nat \ {0}
  /\ Reentrant \in BOOLEAN

VARIABLES
  mutex,            (* "free", or the owner is in Start behind the creation *)
                    (* of the thread ("starting"), in Stop with `cancel`    *)
                    (* set ("stopping") or in its join ("joining").         *)
  session,          (* `queue` and `thread` are not null.                   *)
  cancel,           (* The flag that ends thread_proc.                      *)
  active,           (* The queue's own flag.                                *)
  entries,          (* The queue.                                           *)
  accepted,         (* How many entries this session has pushed.            *)
  backends,         (* How many backends the session has.                   *)
  logger,           (* Where thread_proc is.                                *)
  notified,         (* The waiting log thread has been notified.            *)
  entry,            (* The entry popped last.                               *)
  visit,            (* The backend that is next to get it.                  *)
  written           (* Per backend, the last call of this session.          *)

queueVars   == <<active, entries, accepted, notified>>
sessionVars == <<session, cancel, backends>>
loggerVars  == <<logger, entry, visit, written>>
vars == <<mutex, queueVars, sessionVars, loggerVars>>

Tags    == {"LOG_SESSION", "client"}
Entries == [id : 1..MaxEntries, tag : Tags, level : Levels]

(* A call of a backend: an entry, and the method it is given to. *)
Methods == {"verbose", "info", "warning", "error"}
NoCall  == [id |-> 0, tag |-> "client", level |-> "info", method |-> "info"]
Calls   == [id : 0..MaxEntries, tag : Tags, level : Levels, method : Methods]

-----------------------------------------------------------------------------
(* The sections of the queue.                                              *)

(* Mutants: the new entry goes first; the notify asks too late. *)
PushedInFront(e) == <<e>> \o entries
NotifiesAfterPush == entries' = <<>>

Pushed(e) == Append(entries, e)
NotifiesOnPush == entries = <<>>

(* push: a stopped queue takes nothing. *)
Push(tag, level) ==
  IF active
  THEN /\ accepted' = accepted + 1
       /\ entries' = Pushed([id |-> accepted + 1, tag |-> tag, level |-> level])
       /\ notified' = (notified \/ (NotifiesOnPush /\ logger = "waiting"))
       /\ UNCHANGED active
  ELSE UNCHANGED queueVars

(* enqueue: nothing is logged outside a session. *)
Enqueue(tag, level) ==
  IF session THEN Push(tag, level) ELSE UNCHANGED queueVars

-----------------------------------------------------------------------------
(* The owner of the mutex.                                                 *)

(* A client logs, while the log thread's own call may be on its way. *)
Log(level) ==
  /\ mutex = "free"
  /\ accepted + (IF logger = "calling" THEN 1 ELSE 0) < MaxEntries  \* bound
  /\ Enqueue("client", level)
  /\ UNCHANGED <<mutex, sessionVars, loggerVars>>

(* Mutant: the mutex is let go before the session is announced. *)
ReleasedEarly == "free"

AfterSpawn == "starting"

(* With a session under way Start returns at once. *)
Start(n) ==
  /\ mutex = "free"
  /\ ~session
  /\ mutex' = AfterSpawn
  /\ session' = TRUE
  /\ backends' = n
  /\ cancel' = FALSE
  /\ active' = TRUE
  /\ entries' = <<>>
  /\ accepted' = 0
  /\ notified' = FALSE
  /\ logger' = "loop"
  /\ visit' = 1
  /\ written' = [b \in 1..MaxBackends |-> NoCall]
  /\ UNCHANGED entry

(* Start logs the first entry itself, the log thread running already. *)
Announce ==
  /\ mutex = "starting"
  /\ mutex' = "free"
  /\ Enqueue("LOG_SESSION", "info")
  /\ UNCHANGED <<sessionVars, loggerVars>>

(* Stop without a session does no more than this. *)
StopIdle ==
  /\ mutex = "free"
  /\ ~session
  /\ cancel' = TRUE
  /\ backends' = 0
  /\ UNCHANGED <<mutex, session, queueVars, loggerVars>>

Stop ==
  /\ mutex = "free"
  /\ session
  /\ mutex' = "stopping"
  /\ cancel' = TRUE
  /\ UNCHANGED <<session, backends, queueVars, loggerVars>>

(* Mutant: stop wakes nobody. *)
WakesNobody == FALSE

WakesOnStop == logger = "waiting"

(* log_queue::stop drops what has not been written. *)
StopQueue ==
  /\ mutex = "stopping"
  /\ mutex' = "joining"
  /\ active' = FALSE
  /\ entries' = <<>>
  /\ notified' = (notified \/ WakesOnStop)
  /\ UNCHANGED <<accepted, sessionVars, loggerVars>>

(* Mutant: Stop does not wait for the thread. *)
Detached == TRUE

Joined == logger = "exited"

(* join returns; the queue and the backends are destroyed. *)
FinishStop ==
  /\ mutex = "joining"
  /\ Joined
  /\ mutex' = "free"
  /\ session' = FALSE
  /\ backends' = 0
  /\ UNCHANGED <<cancel, queueVars, loggerVars>>

-----------------------------------------------------------------------------
(* The log thread.                                                         *)

Goto(from, to) == logger = from /\ logger' = to

CheckCancel ==
  /\ Goto("loop", IF cancel THEN "exited" ELSE "pop")
  /\ UNCHANGED <<mutex, queueVars, sessionVars, entry, visit, written>>

MustWait == entries = <<>> /\ active

PopWait ==
  /\ MustWait
  /\ Goto("pop", "waiting")
  /\ notified' = FALSE
  /\ UNCHANGED <<mutex, active, entries, accepted, sessionVars, entry, visit, written>>

(* A stopped queue has nothing to give. *)
PopNothing ==
  /\ ~MustWait
  /\ ~active
  /\ Goto("pop", "loop")
  /\ UNCHANGED <<mutex, queueVars, sessionVars, entry, visit, written>>

PopTop ==
  /\ ~MustWait
  /\ active
  /\ Goto("pop", "visiting")
  /\ entry' = Head(entries)
  /\ entries' = Tail(entries)
  /\ visit' = 1
  /\ UNCHANGED <<mutex, active, accepted, notified, sessionVars, written>>

(* pop_top waits in a loop: woken for nothing, it looks again. *)
SpuriousWake ==
  /\ Goto("waiting", "pop")
  /\ notified' = FALSE
  /\ UNCHANGED <<mutex, active, entries, accepted, sessionVars, entry, visit, written>>

Wake == notified /\ SpuriousWake

(* Mutant: the loop goes one backend too far. *)
BackendsLeftAndOne == visit <= backends + 1

BackendsLeft == visit <= backends

(* Errors go to the method for verbose entries. *)
Method(level) == IF level = "error" THEN "verbose" ELSE level

Write ==
  /\ BackendsLeft
  /\ Goto("visiting", "writing")
  /\ written' = [written EXCEPT ![visit] =
                   [id |-> entry.id, tag |-> entry.tag, level |-> entry.level,
                    method |-> Method(entry.level)]]
  /\ UNCHANGED <<mutex, queueVars, sessionVars, entry, visit>>

(* The backend logs: it asks for the mutex, and keeps asking. *)
BackendLogs ==
  /\ Reentrant
  /\ accepted < MaxEntries                             \* bound
  /\ Goto("writing", "calling")
  /\ UNCHANGED <<mutex, queueVars, sessionVars, entry, visit, written>>

BackendLogged(level) ==
  /\ mutex = "free"
  /\ Goto("calling", "writing")
  /\ Enqueue("client", level)
  /\ UNCHANGED <<mutex, sessionVars, entry, visit, written>>

BackendReturns ==
  /\ Goto("writing", "visiting")
  /\ visit' = visit + 1
  /\ UNCHANGED <<mutex, queueVars, sessionVars, entry, written>>

Written ==
  /\ ~BackendsLeft
  /\ Goto("visiting", "loop")
  /\ UNCHANGED <<mutex, queueVars, sessionVars, entry, visit, written>>

-----------------------------------------------------------------------------

Init ==
  /\ mutex = "free"
  /\ session = FALSE
  /\ cancel = TRUE
  /\ active = FALSE            \* there is no queue yet
  /\ entries = <<>>
  /\ accepted = 0
  /\ backends = 0
  /\ logger = "exited"
  /\ notified = FALSE
  /\ entry = [id |-> 1, tag |-> "client", level |-> "info"]
  /\ visit = 1
  /\ written = [b \in 1..MaxBackends |-> NoCall]

(* What a thread inside Start or Stop goes on to do. *)
OwnerStep == Announce \/ StopQueue \/ FinishStop

LoggerStep ==
  \/ CheckCancel
  \/ PopWait \/ PopNothing \/ PopTop
  \/ Wake
  \/ Write \/ BackendReturns \/ Written
  \/ \E level \in Levels : BackendLogged(level)

ClientStep ==
  \/ \E level \in Levels : Log(level)
  \/ \E n \in 0..MaxBackends : Start(n)
  \/ StopIdle
  \/ Stop

Next ==
  \/ ClientStep
  \/ OwnerStep
  \/ LoggerStep
  \/ BackendLogs
  \/ SpuriousWake

Spec == Init /\ [][Next]_vars

(***************************************************************************)
(* The log thread is scheduled and its backends return, and so is a thread *)
(* inside Start or Stop.  Nobody has to log, start or stop.                *)
(***************************************************************************)
LiveSpec == Spec /\ WF_vars(OwnerStep) /\ WF_vars(LoggerStep)

-----------------------------------------------------------------------------
(* Properties.                                                             *)

TypeOK ==
  /\ mutex \in {"free", "starting", "stopping", "joining"}
  /\ session \in BOOLEAN
  /\ cancel \in BOOLEAN
  /\ active \in BOOLEAN
  /\ entries \in Seq(Entries)
  /\ accepted \in 0..MaxEntries
  /\ backends \in 0..MaxBackends
  /\ logger \in {"loop", "pop", "waiting", "visiting", "writing", "calling", "exited"}
  /\ notified \in BOOLEAN
  /\ entry \in Entries
  /\ visit \in 1..MaxBackends + 1
  /\ written \in [1..MaxBackends -> Calls]

(***************************************************************************)
(* A backend gets the entries of its session in the order they were        *)
(* pushed, each once and none left out, up to the entries Stop drops: the  *)
(* next call a backend sees is always for the next entry (thread_proc).    *)
(***************************************************************************)
WritesInOrder ==
  [][\A b \in 1..MaxBackends :
       written'[b] # written[b] =>
         written'[b].id \in {0, written[b].id + 1}]_vars

(***************************************************************************)
(* The first entry a backend ever sees is the one that opens the session,  *)
(* although the log thread and the clients run before Start logs it; the   *)
(* mutex Start keeps, and may take again in enqueue, sees to that.         *)
(***************************************************************************)
SessionComesFirst ==
  \A b \in 1..MaxBackends :
    written[b].id > 0 => (written[b].id = 1 <=> written[b].tag = "LOG_SESSION")

(***************************************************************************)
(* While thread_proc is anywhere but at its end, the queue it dereferences *)
(* without a lock exists, and the backend it is in is one of the session's.*)
(***************************************************************************)
NothingFreedInUse ==
  /\ logger # "exited" => session
  /\ logger \in {"writing", "calling"} => visit \in 1..backends

(***************************************************************************)
(* An entry that was pushed reaches every backend, unless a Stop comes     *)
(* first: push notifies only when the queue was empty, and that is enough. *)
(***************************************************************************)
EventuallyWritten ==
  \A i \in 1..MaxEntries, b \in 1..MaxBackends :
    (accepted >= i /\ b <= backends) ~> 
      (written[b].id >= i \/ mutex \in {"stopping", "joining"})

(***************************************************************************)
(* Stop returns, whatever the log thread is doing when it is called: only  *)
(* a backend that logs from the log thread can keep it from that, for it   *)
(* waits for the mutex that Stop holds while it joins.                     *)
(***************************************************************************)
OnlyReentryBlocksStop == (mutex = "joining") ~> (mutex = "free" \/ logger = "calling")

(***************************************************************************)
(* An entry is given to the method of its level: debug.h declares one      *)
(* method per level, and FileBackend::error writes the level "error".      *)
(***************************************************************************)
KeepsLevel ==
  \A b \in 1..MaxBackends : written[b].id > 0 => written[b].method = written[b].level

=============================================================================
