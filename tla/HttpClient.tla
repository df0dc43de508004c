----------------------------- MODULE HttpClient -----------------------------
(***************************************************************************)
(* f8n::net::HttpClient: one client object, the threads that hold it, and  *)
(* the transfers it runs, each on a thread of its own (Background) or on   *)
(* the caller's (Current).  The object is kept alive by its users and, in  *)
(* Background mode, by its entry in the static set of instances.           *)
(*                                                                         *)
(* `mutex` serialises Run, Wait and Cancel, but a worker takes it never:   *)
(* what a worker does to `thread` races with all three.                    *)
(***************************************************************************)
EXTENDS Naturals, FiniteSets

CONSTANTS
  Users,            (* Threads that call the client.                        *)
  NoThread,         (* The null pointer in `thread`, an unlocked mutex.     *)
  MaxRuns           (* Bounds the calls of Run.                             *)

ASSUME HttpAssumption == MaxRuns \in Nat \ {0} /\ NoThread \notin Users \cup Nat

Runs == 1..MaxRuns

VARIABLES
  user,             (* What each user is doing.                             *)
  transfer,         (* Where each run is.                                   *)
  mutex,            (* Who holds the client's mutex.                        *)
  thread,           (* The run whose std::thread object the client has.     *)
  joinable,         (* That object has not been joined.                     *)
  cancel,           (* The flag libcurl's callbacks look at.                *)
  refs,             (* Users that hold a shared_ptr to the client.          *)
  instances,        (* The client is in the set of instances.               *)
  destroyed,        (* The client's destructor has begun.                   *)
  crashed,          (* Undefined behaviour or std::terminate has struck.    *)
  overtaken         (* A Run has begun while the worker of an earlier one   *)
                    (* had its entry in the set still to erase.             *)

httpVars == <<user, transfer, mutex, thread, joinable, cancel, refs, instances, destroyed,
              crashed, overtaken>>

(* "current": in a Run of mode Current; "assign": between the start of the *)
(* thread and the assignment to `thread`; "wait" and "cancel": about to    *)
(* lock; the others: about to join, and joining, with the mutex held.      *)
Doing == {"idle", "current", "assign", "wait", "cancel", "wait_join", "cancel_join",
          "wait_joining", "cancel_joining"}

Stages == {"none", "perform", "callback", "leave", "erase", "done"}

Started == {r \in Runs : transfer[r] # "none"}
Working == {r \in Runs : transfer[r] \notin {"none", "done"}}
NextRun == Cardinality(Started) + 1

(* The run a user in Current mode carries out itself: the last one. *)
OnCallersThread(r) == r = Cardinality(Started) /\ \E u \in Users : user[u] = "current"

(* Users may call what they hold a reference to. *)
MayCall(u) == ~crashed /\ user[u] = "idle" /\ u \in refs

Goto(u, stage) == user' = [user EXCEPT ![u] = stage]

-----------------------------------------------------------------------------
(* Run; a client that has a thread refuses with an exception.              *)

MayRun(u) == MayCall(u) /\ mutex = NoThread /\ thread = NoThread /\ NextRun \in Runs

BeginRun(u) ==
  /\ mutex' = u
  /\ transfer' = [transfer EXCEPT ![NextRun] = "perform"]
  /\ overtaken' = (overtaken \/ Working # {})

(* Mutant: Run does not enter the client in the set. *)
NotEntered == instances

Entered == TRUE

(* The instances stay locked until AssignThread has left the block. *)
RunBackground(u) ==
  /\ MayRun(u)
  /\ BeginRun(u)
  /\ Goto(u, "assign")
  /\ instances' = Entered
  /\ UNCHANGED <<thread, joinable, cancel, refs, destroyed, crashed>>

AssignThread(u) ==
  /\ user[u] = "assign"
  /\ Goto(u, "idle")
  /\ thread' = Cardinality(Started)
  /\ joinable' = TRUE
  /\ mutex' = NoThread
  /\ UNCHANGED <<transfer, cancel, refs, instances, destroyed, crashed, overtaken>>

RunCurrent(u) ==
  /\ MayRun(u)
  /\ BeginRun(u)
  /\ Goto(u, "current")
  /\ UNCHANGED <<thread, joinable, cancel, refs, instances, destroyed, crashed>>

-----------------------------------------------------------------------------
(* RunOnCurrentThread.                                                     *)

Proceed(r, from, to) ==
  /\ ~crashed
  /\ transfer[r] = from
  /\ transfer' = [transfer EXCEPT ![r] = to]

(* The transfer is over, in whatever way. *)
EndTransfer(r) ==
  /\ Proceed(r, "perform", "callback")
  /\ UNCHANGED <<user, mutex, thread, joinable, cancel, refs, instances, destroyed,
                 crashed, overtaken>>

(* Libcurl asks its callbacks regularly, and stops when one says so. *)
AbortTransfer(r) == cancel /\ EndTransfer(r)

Callback(r) ==
  /\ Proceed(r, "callback", "leave")
  /\ UNCHANGED <<user, mutex, thread, joinable, cancel, refs, instances, destroyed,
                 crashed, overtaken>>

(* The std::thread object is gone, also under a user that is joining. *)
LeaveThread(r) ==
  /\ Proceed(r, "leave", "erase")
  /\ thread' = NoThread
  /\ joinable' = FALSE
  /\ UNCHANGED <<user, mutex, cancel, refs, instances, destroyed, crashed, overtaken>>

InstancesLocked == \E u \in Users : user[u] = "assign"

(***************************************************************************)
(* The end of a run.  To erase what is not in the set is undefined.  With  *)
(* the last reference the client is destroyed here; its destructor joins   *)
(* a thread it still has, which a worker does to itself: an exception in   *)
(* a destructor.                                                           *)
(***************************************************************************)
EraseInstance(r) ==
  LET last == refs = {}
  IN /\ Proceed(r, "erase", "done")
     /\ ~InstancesLocked
     /\ instances' = FALSE
     /\ destroyed' = (destroyed \/ last)
     /\ crashed' \in IF last /\ joinable THEN {TRUE}
                     ELSE IF instances THEN {FALSE} ELSE BOOLEAN
     /\ user' = [u \in Users |-> IF user[u] = "current" /\ OnCallersThread(r)
                                 THEN "idle" ELSE user[u]]
     /\ mutex' = IF OnCallersThread(r) THEN NoThread ELSE mutex
     /\ UNCHANGED <<thread, joinable, cancel, refs, overtaken>>

-----------------------------------------------------------------------------
(* Wait and Cancel.                                                        *)

Call(u, method) ==
  /\ MayCall(u)
  /\ Goto(u, method)
  /\ UNCHANGED <<transfer, mutex, thread, joinable, cancel, refs, instances, destroyed,
                 crashed, overtaken>>

(* Mutant: Cancel sets the flag and leaves it at that. *)
JoinsInWait(u) == user[u] = "wait" /\ joinable

Joins(u) == joinable

Joining(u) == IF user[u] \in {"wait", "wait_join"}
              THEN <<"wait_join", "wait_joining">> ELSE <<"cancel_join", "cancel_joining">>

(* The lock is taken and given back where there is nothing to join. *)
LockAndLook(u) ==
  /\ ~crashed
  /\ user[u] \in {"wait", "cancel"}
  /\ mutex = NoThread
  /\ cancel' = (cancel \/ (user[u] = "cancel" /\ thread # NoThread))
  /\ IF Joins(u)
     THEN mutex' = u /\ Goto(u, Joining(u)[1])
     ELSE Goto(u, "idle") /\ UNCHANGED mutex
  /\ UNCHANGED <<transfer, thread, joinable, refs, instances, destroyed, crashed, overtaken>>

(* What was looked at may be gone: join() of nothing throws, or worse. *)
Join(u) ==
  /\ ~crashed
  /\ user[u] \in {"wait_join", "cancel_join"}
  /\ IF joinable
     THEN Goto(u, Joining(u)[2]) /\ UNCHANGED <<mutex, crashed>>
     ELSE Goto(u, "idle") /\ mutex' = NoThread /\ crashed' \in BOOLEAN
  /\ UNCHANGED <<transfer, thread, joinable, cancel, refs, instances, destroyed, overtaken>>

(* Mutant: the mutex is not given back when the join is over. *)
StillLocked(u) == u

AfterJoin(u) == NoThread

(***************************************************************************)
(* The thread has ended.  Where it has let go of its std::thread, join()   *)
(* ends with a write to freed memory.                                      *)
(***************************************************************************)
Joined(u) ==
  /\ ~crashed
  /\ user[u] \in {"wait_joining", "cancel_joining"}
  /\ transfer[Cardinality(Started)] = "done"
  /\ Goto(u, "idle")
  /\ mutex' = AfterJoin(u)
  /\ joinable' = FALSE
  /\ crashed' \in IF thread = NoThread THEN BOOLEAN ELSE {FALSE}
  /\ UNCHANGED <<transfer, thread, cancel, refs, instances, destroyed, overtaken>>

(* A user lets go; the last one that does may have to join. *)
DropClient(u) ==
  LET last == refs = {u} /\ ~instances
  IN /\ MayCall(u)
     /\ refs' = refs \ {u}
     /\ destroyed' = last
     /\ cancel' = (cancel \/ (last /\ joinable))
     /\ UNCHANGED <<user, transfer, mutex, thread, joinable, instances, crashed, overtaken>>

-----------------------------------------------------------------------------

HttpInit ==
  /\ user = [u \in Users |-> "idle"]
  /\ transfer = [r \in Runs |-> "none"]
  /\ mutex = NoThread
  /\ thread = NoThread
  /\ joinable = FALSE
  /\ cancel = FALSE
  /\ refs = Users
  /\ instances = FALSE
  /\ destroyed = FALSE
  /\ crashed = FALSE
  /\ overtaken = FALSE

(* A client method goes on, as far as the locks let it. *)
UserStep(u) == AssignThread(u) \/ LockAndLook(u) \/ Join(u) \/ Joined(u)

(* A transfer may take for ever, unless it is canceled. *)
WorkerStep(r) == AbortTransfer(r) \/ Callback(r) \/ LeaveThread(r) \/ EraseInstance(r)

HttpNext ==
  \/ \E u \in Users : \/ RunBackground(u) \/ RunCurrent(u) \/ DropClient(u)
                      \/ Call(u, "wait") \/ Call(u, "cancel")
                      \/ UserStep(u)
  \/ \E r \in Runs : EndTransfer(r) \/ WorkerStep(r)

HttpSpec == HttpInit /\ [][HttpNext]_httpVars

HttpFairness ==
  /\ \A u \in Users : SF_httpVars(UserStep(u))
  /\ \A r \in Runs : WF_httpVars(WorkerStep(r))

-----------------------------------------------------------------------------
(* Properties.                                                             *)

HttpTypeOK ==
  /\ user \in [Users -> Doing]
  /\ transfer \in [Runs -> Stages]
  /\ mutex \in Users \cup {NoThread}
  /\ thread \in Runs \cup {NoThread}
  /\ joinable \in BOOLEAN /\ cancel \in BOOLEAN /\ instances \in BOOLEAN
  /\ destroyed \in BOOLEAN /\ crashed \in BOOLEAN /\ overtaken \in BOOLEAN
  /\ refs \subseteq Users

(***************************************************************************)
(* A worker never outlives its client, however early the users let go of   *)
(* it, unless a second Run has slipped in between the two things a worker  *)
(* does last, giving up `thread` and erasing the client from the set: then *)
(* the first worker erases what keeps the client alive for the second.     *)
(***************************************************************************)
AliveWhileWorking == destroyed => Working = {} \/ overtaken \/ crashed

(***************************************************************************)
(* When Cancel returns, the runs that had begun call no callback any more, *)
(* whether it has set the flag in time, found the run over, waited for a   *)
(* run in Current mode, or lost the thread it was about to join.           *)
(***************************************************************************)
NoCallbackAfterCancel ==
  [][\A u \in Users :
       user[u] \in {"cancel", "cancel_join", "cancel_joining"} /\ user'[u] = "idle"
         => \A r \in Started : transfer'[r] \notin {"perform", "callback"}]_httpVars

(***************************************************************************)
(* Cancel returns, unless another thread is in Wait or runs in Current     *)
(* mode: both keep the mutex for as long as the transfer takes.            *)
(***************************************************************************)
CancelReturns ==
  \A u \in Users :
    (user[u] = "cancel")
      ~> \/ user[u] = "idle" \/ crashed
         \/ \E v \in Users : user[v] \in {"wait_join", "wait_joining", "current"}

=============================================================================
