-------------------------- MODULE DaemonLockProofs --------------------------
(***************************************************************************)
(* Proofs about DaemonLock for any set of pids.                            *)
(*                                                                         *)
(* That there is one daemon holds because the lock file names the daemon   *)
(* whenever the next start looks; that the file names it holds because no  *)
(* second start has come past the check to overwrite it.  The two are      *)
(* proved together, with the condition they need: starts do not overlap.   *)
(* What a pid is used for again, and what is read from an empty file,      *)
(* makes no difference to them.                                            *)
(***************************************************************************)
EXTENDS DaemonLock, TLAPS

OneStart == \A p, q \in Pids : Starting(p) /\ Starting(q) => p = q

IInv ==
  /\ TypeOK
  /\ Exclusive => OneStart /\ OneDaemon /\ LockNamesDaemon

-----------------------------------------------------------------------------

LEMMA InitIInv == Init => IInv
BY LockAssumption DEF Init, IInv, TypeOK, States, Polls, OneStart, Starting, OneDaemon,
   Claims, Daemon, LockNamesDaemon

(* No pid is read where SIGTERM makes an unknown state of a process. *)
LEMMA TermStates ==
  ASSUME TypeOK, NEW p \in Pids
  PROVE  AfterTerm(p) \subseteq States
BY DEF AfterTerm, TypeOK, States, Starting

(* Every step keeps the types. *)
LEMMA StepTypes == TypeOK /\ [Next]_vars => TypeOK'
<1> SUFFICES ASSUME TypeOK, [Next]_vars PROVE TypeOK'
  OBVIOUS
<1> USE DEF TypeOK, Become, stopVars
<1>1. ASSUME NEW p \in Pids, Start(p) PROVE TypeOK'
  BY <1>1 DEF Start, Launch, CheckRunning, StartForeground, StartBackground, OpenLock,
     OpenFails, WriteLock, LockContent, States
<1>2. ASSUME NEW p \in Pids, Quit(p) \/ Crash(p) \/ OtherBegins(p) \/ OtherEnds(p)
      PROVE TypeOK'
  BY <1>2 DEF Quit, Crash, OtherBegins, OtherEnds, States
<1>3. CASE \E answer \in Pids \cup {OwnGroup} : StopFind(answer)
  BY <1>3 DEF StopFind, Polls
<1>4. CASE StopKill
  <2>1. CASE stopPid = OwnGroup
    BY <1>4, <2>1 DEF StopKill
  <2>2. CASE stopPid # OwnGroup
    <3>1. PICK state \in AfterTerm(stopPid) : Become(stopPid, state)
      BY <1>4, <2>2 DEF StopKill
    <3>2. state \in States
      BY <2>2, TermStates
    <3> QED
      BY <1>4, <2>2, <3>1, <3>2 DEF StopKill
  <2> QED
    BY <2>1, <2>2
<1>5. CASE StopPoll \/ StopSucceeds \/ StopFails
  BY <1>5 DEF StopPoll, StopSucceeds, StopFails, PollsLeft, Polls
<1>6. CASE UNCHANGED vars
  BY <1>6 DEF vars
<1> QED
  BY <1>1, <1>2, <1>3, <1>4, <1>5, <1>6 DEF Next, Stop

-----------------------------------------------------------------------------
(* Steps by what they do to the processes.                                 *)

(* A step after which p is no start, no daemon, or still what it was.      *)
LEMMA Retreat ==
  ASSUME TypeOK, Exclusive, OneStart, OneDaemon, LockNamesDaemon,
         NEW p \in Pids, NEW state \in States, Become(p, state), UNCHANGED file,
         \/ state \in {"ended", "nameless", "other"}
         \/ state = "quitting" /\ proc[p] = "running"
         \/ state = proc[p]
  PROVE  OneStart' /\ OneDaemon' /\ LockNamesDaemon'
<1>1. \A q \in Pids : /\ Starting(q)' => Starting(q)
                      /\ Claims(q)' => Claims(q)
                      /\ Daemon(q)' => Daemon(q)
  BY DEF TypeOK, Become, Starting, Claims, Daemon
<1> QED
  BY <1>1 DEF OneStart, OneDaemon, LockNamesDaemon

(* With a daemon up, getDaemonPid finds it. *)
LEMMA FindsDaemon ==
  ASSUME LockNamesDaemon, NEW p \in Pids, Daemon(p)
  PROVE  DaemonPids = {p}
<1>1. file = p /\ Alive(p)
  BY DEF LockNamesDaemon, Daemon, Alive
<1> QED
  BY <1>1, LockAssumption DEF DaemonPids, Responds

(* So a start comes past exitIfRunning only where there is no other claim. *)
LEMMA CheckKeepsOne ==
  ASSUME TypeOK, Exclusive, OneStart, OneDaemon, LockNamesDaemon,
         NEW p \in Pids, NEW answer, CheckRunning(p, answer)
  PROVE  OneStart' /\ OneDaemon' /\ LockNamesDaemon'
<1>1. CASE Proceeds(answer)
  <2>1. \A q \in Pids : ~Daemon(q)
    BY <1>1, FindsDaemon, LockAssumption DEF CheckRunning, Proceeds
  <2>2. Starting(p) /\ proc[p] = "checking"
    BY DEF CheckRunning, Starting
  <2>3. \A q \in Pids : ~Claims(q)
    BY <2>1, <2>2 DEF OneStart, Claims, Starting
  <2>4. Become(p, "starting") /\ UNCHANGED file
    BY <1>1 DEF CheckRunning
  <2>5. \A q \in Pids : /\ Starting(q)' => Starting(q)
                        /\ Claims(q)' => q = p
                        /\ ~Daemon(q)'
    BY <2>1, <2>2, <2>3, <2>4 DEF TypeOK, Become, Starting, Claims, Daemon
  <2> QED
    BY <2>5 DEF OneStart, OneDaemon, LockNamesDaemon
<1>2. CASE ~Proceeds(answer)
  <2>1. Become(p, "ended") /\ UNCHANGED file
    BY <1>2 DEF CheckRunning
  <2> QED
    BY <2>1, Retreat DEF States
<1> QED
  BY <1>1, <1>2

(* The steps of a start keep the three together. *)
LEMMA StartKeepsOne ==
  ASSUME TypeOK, Exclusive, OneStart, OneDaemon, LockNamesDaemon, NEW p \in Pids, Start(p)
  PROVE  OneStart' /\ OneDaemon' /\ LockNamesDaemon'
<1> USE DEF TypeOK, Become, Starting, Claims, Daemon
<1>1. CASE Launch(p)
  <2>1. \A q \in Pids : /\ ~Starting(q)
                        /\ Starting(q)' => q = p
                        /\ Claims(q)' => Claims(q)
                        /\ Daemon(q)' => Daemon(q)
    BY <1>1 DEF Launch, Free
  <2> QED
    BY <1>1, <2>1 DEF Launch, OneStart, OneDaemon, LockNamesDaemon
<1>2. CASE \E answer \in Pids \cup {NotRunning, OwnGroup} : CheckRunning(p, answer)
  BY <1>2, CheckKeepsOne
<1>3. CASE StartForeground(p) \/ OpenLock(p) \/ WriteLock(p)
  <2>1. \A q \in Pids : /\ Starting(q)' => Starting(q)
                        /\ Claims(q)' => Claims(q)
                        /\ Claims(q) => q = p
    BY <1>3 DEF StartForeground, OpenLock, WriteLock, OneDaemon
  <2>2. \A q \in Pids : Daemon(q)' => file' = q
    BY <1>3, <2>1 DEF StartForeground, OpenLock, WriteLock, LockContent
  <2> QED
    BY <2>1, <2>2 DEF OneStart, OneDaemon, LockNamesDaemon
<1>4. ASSUME NEW child \in Pids, StartBackground(p, child)
      PROVE  OneStart' /\ OneDaemon' /\ LockNamesDaemon'
  <2>1. \A q \in Pids : /\ Starting(q) => q = p
                        /\ Claims(q) => q = p
    BY <1>4 DEF StartBackground, OneStart, OneDaemon
  <2>2. \A q \in Pids : /\ Starting(q)' => q = child
                        /\ Claims(q)' => q = child
                        /\ ~Daemon(q)'
    BY <1>4, <2>1 DEF StartBackground
  <2> QED
    BY <2>2 DEF OneStart, OneDaemon, LockNamesDaemon
<1>5. CASE OpenFails(p)
  BY <1>5, Retreat DEF OpenFails, States
<1> QED
  BY <1>1, <1>2, <1>3, <1>4, <1>5 DEF Start

(* SIGTERM makes no start and no daemon of anything. *)
LEMMA KillKeepsOne ==
  ASSUME TypeOK, Exclusive, OneStart, OneDaemon, LockNamesDaemon, StopKill
  PROVE  OneStart' /\ OneDaemon' /\ LockNamesDaemon'
<1>1. CASE stopPid = OwnGroup
  BY <1>1 DEF StopKill, OneStart, OneDaemon, LockNamesDaemon, Starting, Claims, Daemon
<1>2. CASE stopPid # OwnGroup
  <2>1. stopPid \in Pids
    BY <1>2 DEF TypeOK
  <2>2. PICK state \in AfterTerm(stopPid) : Become(stopPid, state)
    BY <1>2 DEF StopKill
  <2>3. \/ state \in {"ended", "other", "nameless"}
        \/ state = "quitting" /\ proc[stopPid] = "running"
        \/ state = proc[stopPid]
    BY <2>2 DEF AfterTerm
  <2>4. state \in States
    BY <2>1, TermStates
  <2> QED
    BY <2>1, <2>2, <2>3, <2>4, Retreat DEF StopKill
<1> QED
  BY <1>1, <1>2

(* Every step of the system does. *)
LEMMA StepKeepsOne ==
  ASSUME TypeOK, Exclusive, OneStart, OneDaemon, LockNamesDaemon, [Next]_vars
  PROVE  OneStart' /\ OneDaemon' /\ LockNamesDaemon'
<1>1. ASSUME NEW p \in Pids, Start(p)
      PROVE  OneStart' /\ OneDaemon' /\ LockNamesDaemon'
  BY <1>1, StartKeepsOne
<1>2. ASSUME NEW p \in Pids, Quit(p) \/ Crash(p) \/ OtherBegins(p) \/ OtherEnds(p)
      PROVE  OneStart' /\ OneDaemon' /\ LockNamesDaemon'
  <2>1. \E state \in {"ended", "other"} : Become(p, state) /\ UNCHANGED file
    BY <1>2 DEF Quit, Crash, OtherBegins, OtherEnds
  <2> QED
    BY <2>1, Retreat DEF States
<1>3. CASE StopKill
  BY <1>3, KillKeepsOne
<1>4. CASE UNCHANGED <<file, proc>>
  BY <1>4 DEF OneStart, OneDaemon, LockNamesDaemon, Starting, Claims, Daemon
<1> QED
  BY <1>1, <1>2, <1>3, <1>4
  DEF Next, Stop, StopFind, StopPoll, StopSucceeds, StopFails, vars

(* The inductive invariant holds in every reachable state. *)
LEMMA Invariance == Spec => []IInv
<1>1. IInv /\ [Next]_vars => IInv'
  <2> SUFFICES ASSUME IInv, [Next]_vars PROVE IInv'
    OBVIOUS
  <2>1. TypeOK'
    BY StepTypes DEF IInv
  <2>2. Exclusive => OneStart' /\ OneDaemon' /\ LockNamesDaemon'
    BY StepKeepsOne DEF IInv
  <2> QED
    BY <2>1, <2>2 DEF IInv
<1> QED
  BY InitIInv, <1>1, PTL DEF Spec

-----------------------------------------------------------------------------

(* The states of the processes, of the file and of --stop are of their types. *)
THEOREM TypeCorrect == Spec => []TypeOK
BY Invariance, PTL DEF IInv

(***************************************************************************)
(* Where starts do not overlap there is never a second daemon with the     *)
(* lock file, nor a second start that exitIfRunning let pass.              *)
(***************************************************************************)
THEOREM OneAtATime == Exclusive => (Spec => []OneDaemon)
<1> SUFFICES ASSUME Exclusive PROVE Spec => []OneDaemon
  OBVIOUS
<1>1. IInv => OneDaemon
  BY DEF IInv
<1> QED
  BY <1>1, Invariance, PTL

(***************************************************************************)
(* Under the same condition getDaemonPid names the daemon while there is  *)
(* one, through crashes, stops and pids used again.                        *)
(***************************************************************************)
THEOREM DaemonIsFound == Exclusive => (Spec => []LockNamesDaemon)
<1> SUFFICES ASSUME Exclusive PROVE Spec => []LockNamesDaemon
  OBVIOUS
<1>1. IInv => LockNamesDaemon
  BY DEF IInv
<1> QED
  BY <1>1, Invariance, PTL

-----------------------------------------------------------------------------
(* As long as no pid is used again, the one in the file is that of the     *)
(* daemon that wrote it, or of nobody.                                     *)

Written == {"running", "quitting", "ended"}

FileIsOwn == file \in Pids => proc[file] \in Written

LEMMA FileIsOwnStep ==
  ASSUME TypeOK, ~PidReuse, FileIsOwn, [Next]_vars
  PROVE  FileIsOwn'
<1> USE DEF TypeOK, Become, FileIsOwn, Written, Free, Starting, Daemon
<1>1. ASSUME NEW p \in Pids, Start(p) PROVE FileIsOwn'
  <2>1. CASE OpenLock(p)
    BY <2>1, LockAssumption DEF OpenLock
  <2>2. CASE WriteLock(p)
    BY <2>2 DEF WriteLock, LockContent
  <2>3. CASE ~OpenLock(p) /\ ~WriteLock(p)
    <3>1. file' = file /\ \A q \in Pids : proc[q] \in Written => proc'[q] = proc[q]
      BY <1>1, <2>3 DEF Start, Launch, CheckRunning, StartForeground, StartBackground,
         OpenFails
    <3> QED
      BY <3>1
  <2> QED
    BY <2>1, <2>2, <2>3
<1>2. ASSUME NEW p \in Pids, Quit(p) \/ Crash(p) \/ OtherBegins(p) \/ OtherEnds(p)
      PROVE FileIsOwn'
  BY <1>2 DEF Quit, Crash, OtherBegins, OtherEnds
<1>3. CASE StopKill
  <2>1. CASE stopPid = OwnGroup
    BY <1>3, <2>1 DEF StopKill
  <2>2. CASE stopPid # OwnGroup
    <3>1. PICK state \in AfterTerm(stopPid) : Become(stopPid, state)
      BY <1>3, <2>2 DEF StopKill
    <3>2. stopPid \in Pids /\ file' = file
      BY <1>3, <2>2 DEF StopKill
    <3>3. proc[stopPid] \in Written => state \in Written
      BY <3>1 DEF AfterTerm
    <3> QED
      BY <3>1, <3>2, <3>3
  <2> QED
    BY <2>1, <2>2
<1>4. CASE UNCHANGED <<file, proc>>
  BY <1>4
<1> QED
  BY <1>1, <1>2, <1>3, <1>4
  DEF Next, Stop, StopFind, StopPoll, StopSucceeds, StopFails, vars

(***************************************************************************)
(* A lock file that a crashed or stopped daemon has left behind refuses no *)
(* start, for any number of overlapping starts, stops and other programs,  *)
(* where the system does not give a pid again.                             *)
(***************************************************************************)
THEOREM StaleLockIsHarmless == ~PidReuse => (Spec => []NoneFoundIfNoneRuns)
<1> SUFFICES ASSUME ~PidReuse PROVE Spec => []NoneFoundIfNoneRuns
  OBVIOUS
<1>1. Init => FileIsOwn
  BY LockAssumption DEF Init, FileIsOwn
<1>2. TypeOK /\ FileIsOwn /\ [Next]_vars => FileIsOwn'
  BY FileIsOwnStep
<1>3. TypeOK /\ FileIsOwn => NoneFoundIfNoneRuns
  <2> SUFFICES ASSUME TypeOK, FileIsOwn, file # Empty, \A p \in Pids : ~Claims(p)
               PROVE  DaemonPids = {NotRunning}
    BY DEF NoneFoundIfNoneRuns
  <2>1. CASE file = Absent
    BY <2>1 DEF DaemonPids
  <2>2. CASE file \in Pids
    <3>1. ~Alive(file)
      BY <2>2 DEF FileIsOwn, Written, Claims, Daemon, Alive
    <3> QED
      BY <3>1, <2>2, LockAssumption DEF DaemonPids, Responds
  <2> QED
    BY <2>1, <2>2 DEF TypeOK
<1> QED
  BY <1>1, <1>2, <1>3, TypeCorrect, PTL DEF Spec

=============================================================================
