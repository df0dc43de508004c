----------------------------- MODULE DaemonLock -----------------------------
(***************************************************************************)
(* The daemon commands of daemon.h around one lock file: processes that    *)
(* start a daemon, in the foreground or forked to the background, a        *)
(* process that stops it, daemons that end or crash, and processes of      *)
(* other programs that get the same pids.                                  *)
(*                                                                         *)
(* The file holds the pid of the last daemon that wrote it.  Nothing       *)
(* removes it, and it is opened (truncated) before the pid is written.     *)
(* kill(pid, 0) tells whether some process has the pid, not which.  All    *)
(* processes are of one user; negative pids (groups) are left out.         *)
(***************************************************************************)
EXTENDS Integers

CONSTANTS
  Pids,             (* Process ids.                                         *)
  Absent, Empty,    (* The lock file does not exist, has no pid in it.      *)
  NotRunning,       (* NOT_RUNNING, the pid of no process.                  *)
  OwnGroup,         (* The pid 0, which kill takes for the caller's group.  *)
  Garbage,          (* What `int pid` may hold when nothing can be read     *)
                    (* into it: it is not initialized.                      *)
  Exclusive,        (* One start at a time, until its daemon is up.         *)
  PidReuse          (* The pid of a process that has ended is given again.  *)

ASSUME LockAssumption ==
  /\ {Absent, Empty, NotRunning, OwnGroup} \cap Pids = {}
  /\ Absent # Empty
  /\ NotRunning # OwnGroup
  /\ Garbage \subseteq Pids \cup {NotRunning, OwnGroup}
  /\ Garbage # {}
  /\ Exclusive \in BOOLEAN
  /\ PidReuse \in BOOLEAN

VARIABLES
  file,             (* The lock file: Absent, Empty or a pid.               *)
  proc,             (* What runs under a pid, see States.                   *)
  stopAt,           (* Where the --stop command is: "idle", "kill", "poll". *)
  stopPid,          (* The pid it has read.                                 *)
  polls             (* How often it has asked whether that is alive.        *)

stopVars == <<stopAt, stopPid, polls>>
vars == <<file, proc, stopVars>>

(***************************************************************************)
(* unused    the pid has not been given yet                                *)
(* ended     its process is over                                           *)
(* other     a process of some other program                               *)
(* checking  a start, before exitIfRunning                                 *)
(* starting  a start that has found no daemon                              *)
(* locking   the future daemon, before it opens the lock file              *)
(* writing   the lock file is open, and empty                              *)
(* running   a daemon                                                      *)
(* nameless  a daemon that could not open the lock file                    *)
(* quitting  a daemon that has got SIGTERM                                 *)
(***************************************************************************)
States == {"unused", "ended", "other", "checking", "starting", "locking", "writing",
           "running", "nameless", "quitting"}

Alive(p)    == proc[p] \notin {"unused", "ended"}
Free(p)     == proc[p] = "unused" \/ (PidReuse /\ proc[p] = "ended")
Starting(p) == proc[p] \in {"checking", "starting", "locking", "writing"}
Daemon(p)   == proc[p] \in {"running", "quitting"}

Become(p, state) == proc' = [proc EXCEPT ![p] = state]

(* Mutant: a pid in the file is enough. *)
RespondsAlways(pid) == pid \in Pids

(* kill(pid, 0) for a pid that has been read from the file. *)
Responds(pid) == pid \in Pids /\ Alive(pid)

(***************************************************************************)
(* What getDaemonPid may return.  Reading from an empty file fails before  *)
(* it assigns `pid`.                                                       *)
(***************************************************************************)
DaemonPids ==
  IF file = Absent THEN {NotRunning}
  ELSE IF file = Empty
  THEN {IF Responds(g) \/ g = OwnGroup THEN g ELSE NotRunning : g \in Garbage}
  ELSE IF Responds(file) THEN {file} ELSE {NotRunning}

-----------------------------------------------------------------------------
(* start                                                                   *)

Launch(p) ==
  /\ Free(p)
  /\ Exclusive => \A q \in Pids : ~Starting(q)
  /\ Become(p, "checking")
  /\ UNCHANGED <<file, stopVars>>

(* Mutant: the answer makes no difference. *)
ProceedsAnyway(answer) == TRUE

Proceeds(answer) == answer = NotRunning

(* exitIfRunning *)
CheckRunning(p, answer) ==
  /\ proc[p] = "checking"
  /\ answer \in DaemonPids
  /\ Become(p, IF Proceeds(answer) THEN "starting" ELSE "ended")
  /\ UNCHANGED <<file, stopVars>>

StartForeground(p) ==
  /\ proc[p] = "starting"
  /\ Become(p, "locking")
  /\ UNCHANGED <<file, stopVars>>

(* The parent is gone as soon as it has forked. *)
StartBackground(p, child) ==
  /\ proc[p] = "starting"
  /\ Free(child)
  /\ child # p
  /\ proc' = [proc EXCEPT ![p] = "ended", ![child] = "locking"]
  /\ UNCHANGED <<file, stopVars>>

OpenLock(p) ==
  /\ proc[p] = "locking"
  /\ Become(p, "writing")
  /\ file' = Empty
  /\ UNCHANGED stopVars

(* Without a lock file the daemon runs all the same, and nobody finds it. *)
OpenFails(p) ==
  /\ proc[p] = "locking"
  /\ Become(p, "nameless")
  /\ UNCHANGED <<file, stopVars>>

(* Mutant: the pid never gets to the file. *)
LeftEmpty(p) == file

LockContent(p) == p

WriteLock(p) ==
  /\ proc[p] = "writing"
  /\ Become(p, "running")
  /\ file' = LockContent(p)
  /\ UNCHANGED stopVars

-----------------------------------------------------------------------------
(* The end of a process.                                                   *)

(* The loop has been told to quit, and OnDeinit returns. *)
Quit(p) ==
  /\ proc[p] \in {"quitting", "nameless"}
  /\ Become(p, "ended")
  /\ UNCHANGED <<file, stopVars>>

Crash(p) ==
  /\ Starting(p) \/ Daemon(p)
  /\ Become(p, "ended")
  /\ UNCHANGED <<file, stopVars>>

(* Other programs come and go. *)
OtherBegins(p) ==
  /\ Free(p)
  /\ Become(p, "other")
  /\ UNCHANGED <<file, stopVars>>

OtherEnds(p) ==
  /\ proc[p] = "other"
  /\ Become(p, "ended")
  /\ UNCHANGED <<file, stopVars>>

-----------------------------------------------------------------------------
(* stop                                                                    *)

Polls == 7

(* Mutant: one poll too many. *)
PollsLeftAndOne == polls <= Polls

PollsLeft == polls < Polls

StopFind(answer) ==
  /\ stopAt = "idle"
  /\ answer \in DaemonPids
  /\ answer # NotRunning
  /\ stopAt' = "kill"
  /\ stopPid' = answer
  /\ polls' = 0
  /\ UNCHANGED <<file, proc>>

(***************************************************************************)
(* What SIGTERM makes of a process: a start ends at once, and so does a    *)
(* daemon that has not got to loop.run, where its handler is set up.       *)
(***************************************************************************)
AfterTerm(p) ==
  CASE Starting(p)                       -> {"ended"}
    [] proc[p] = "running"               -> {"quitting", "ended"}
    [] proc[p] \in {"nameless", "other"} -> {proc[p], "ended"}
    [] OTHER                             -> {proc[p]}

(* It goes to whoever has the pid now; with pid 0 the command ends itself. *)
StopKill ==
  /\ stopAt = "kill"
  /\ IF stopPid = OwnGroup
     THEN stopAt' = "idle" /\ UNCHANGED proc
     ELSE stopAt' = "poll" /\ \E state \in AfterTerm(stopPid) : Become(stopPid, state)
  /\ UNCHANGED <<file, stopPid, polls>>

(* The process is still there: ask again after half a second. *)
StopPoll ==
  /\ stopAt = "poll"
  /\ PollsLeft
  /\ Alive(stopPid)
  /\ polls' = polls + 1
  /\ UNCHANGED <<file, proc, stopAt, stopPid>>

StopSucceeds ==
  /\ stopAt = "poll"
  /\ PollsLeft
  /\ ~Alive(stopPid)
  /\ stopAt' = "idle"
  /\ UNCHANGED <<file, proc, stopPid, polls>>

StopFails ==
  /\ stopAt = "poll"
  /\ ~PollsLeft
  /\ stopAt' = "idle"
  /\ UNCHANGED <<file, proc, stopPid, polls>>

-----------------------------------------------------------------------------

Init ==
  /\ file = Absent
  /\ proc = [p \in Pids |-> "unused"]
  /\ stopAt = "idle"
  /\ stopPid = OwnGroup
  /\ polls = 0

Start(p) ==
  \/ Launch(p)
  \/ \E answer \in Pids \cup {NotRunning, OwnGroup} : CheckRunning(p, answer)
  \/ StartForeground(p)
  \/ \E child \in Pids : StartBackground(p, child)
  \/ OpenLock(p)
  \/ OpenFails(p)
  \/ WriteLock(p)

Stop ==
  \/ \E answer \in Pids \cup {OwnGroup} : StopFind(answer)
  \/ StopKill
  \/ StopPoll
  \/ StopSucceeds
  \/ StopFails

Next ==
  \/ \E p \in Pids : Start(p) \/ Quit(p) \/ Crash(p) \/ OtherBegins(p) \/ OtherEnds(p)
  \/ Stop

Spec == Init /\ [][Next]_vars

-----------------------------------------------------------------------------
(* Properties.                                                             *)

TypeOK ==
  /\ file \in Pids \cup {Absent, Empty}
  /\ proc \in [Pids -> States]
  /\ stopAt \in {"idle", "kill", "poll"}
  /\ stopPid \in Pids \cup {OwnGroup}
  /\ stopAt = "poll" => stopPid \in Pids
  /\ polls \in 0..Polls

(***************************************************************************)
(* No two processes are daemons, or past the check on their way to be one: *)
(* exitIfRunning refuses a second.  A daemon that could not open the lock  *)
(* file does not count: no start can know of it.                           *)
(***************************************************************************)
Claims(p) == Daemon(p) \/ proc[p] \in {"starting", "locking", "writing"}

OneDaemon == \A p, q \in Pids : Claims(p) /\ Claims(q) => p = q

(***************************************************************************)
(* The lock file names the daemon as long as it runs, whatever starts,     *)
(* crashes and stops come before and in between: --stop and --running find *)
(* it.                                                                     *)
(***************************************************************************)
LockNamesDaemon == \A p \in Pids : Daemon(p) => file = p

(***************************************************************************)
(* With no daemon up or about to be, a start is not refused and --running  *)
(* says so: a lock file left behind by a daemon that crashed does no harm, *)
(* as long as no other process gets its pid.  An empty one, of a start     *)
(* that crashed between opening and writing it, may: it reads as any pid.  *)
(***************************************************************************)
NoneFoundIfNoneRuns ==
  file # Empty /\ (\A p \in Pids : ~Claims(p)) => DaemonPids = {NotRunning}

(***************************************************************************)
(* --stop never signals another program, nor itself: the help says that it *)
(* shuts down the daemon.                                                  *)
(***************************************************************************)
StopsOnlyDaemons ==
  [][stopAt = "kill" /\ stopAt' # "kill" =>
       stopPid \in Pids /\ proc[stopPid] # "other"]_vars

=============================================================================
