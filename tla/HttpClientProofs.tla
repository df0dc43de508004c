-------------------------- MODULE HttpClientProofs --------------------------
(***************************************************************************)
(* The safety properties of HttpClient, for any number of users and runs.  *)
(* Both rest on the client's mutex: a run on its way has its std::thread   *)
(* in the client, or its user inside Run with the mutex.                   *)
(***************************************************************************)
EXTENDS HttpClient, FiniteSetTheorems, TLAPS

Holding == {"current", "assign", "wait_join", "cancel_join", "wait_joining", "cancel_joining"}

Last == Cardinality(Started)

(* The types, as far as they matter here, and runs that begin in order. *)
HttpTyped ==
  /\ user = [u \in Users |-> user[u]]
  /\ transfer \in [Runs -> Stages]
  /\ \E n \in 0..MaxRuns : Started = 1..n

(* Who is inside a method has the mutex, and the client. *)
Locked ==
  \A u \in Users :
    /\ (user[u] \in Holding => mutex = u)
    /\ (user[u] # "idle" => u \in refs)

(* Before it gives up the client's thread. *)
OnItsWay(r) == transfer[r] \in {"perform", "callback", "leave"}

(* The one run on its way is the last, and can be joined or has the mutex. *)
Reachable ==
  /\ joinable => thread # NoThread
  /\ \A r \in Runs : OnItsWay(r) =>
       /\ r = Last
       /\ joinable \/ \E u \in Users : user[u] \in {"assign", "current"}

(* What keeps the client alive for a run. *)
KeptAlive ==
  /\ destroyed => refs = {} /\ ~instances
  /\ ~overtaken /\ ~crashed =>
       \A r \in Working : r = Last /\ (instances \/ \E u \in Users : user[u] = "current")

HttpIInv == HttpTyped /\ Locked /\ Reachable /\ KeptAlive

LEMMA HttpInitIInv == HttpInit => HttpIInv
<1> SUFFICES ASSUME HttpInit PROVE HttpIInv
  OBVIOUS
<1>1. Started = {} /\ Working = {} /\ transfer \in [Runs -> Stages]
  BY DEF HttpInit, Started, Working, Stages
<1>2. 0 \in 0..MaxRuns /\ 1..0 = {}
  BY HttpAssumption
<1>3. HttpTyped
  BY <1>1, <1>2 DEF HttpInit, HttpTyped
<1>4. Locked
  BY DEF HttpInit, Locked, Holding
<1>5. Reachable /\ KeptAlive
  BY <1>1 DEF HttpInit, Reachable, OnItsWay, KeptAlive
<1> QED
  BY <1>3, <1>4, <1>5 DEF HttpIInv

(* Where nobody is inside a method and there is no thread, no run is on its way. *)
LEMMA NoneOnItsWay ==
  ASSUME HttpIInv, ~joinable, \A u \in Users : user[u] \notin {"assign", "current"}
  PROVE  \A r \in Runs : ~OnItsWay(r)
  BY DEF HttpIInv, Reachable

(* Runs are numbered through. *)
LEMMA RunsInOrder ==
  ASSUME HttpTyped
  PROVE  /\ Last \in Nat /\ Started = 1..Last
         /\ NextRun = Last + 1 /\ NextRun \notin Started
<1>1. PICK n \in 0..MaxRuns : Started = 1..n
  BY DEF HttpTyped
<1>2. Last = n
  BY <1>1, FS_Interval, HttpAssumption DEF Last
<1> QED
  BY <1>1, <1>2 DEF NextRun, Last

-----------------------------------------------------------------------------
(* Run, in either mode.                                                    *)

LEMMA BeginRunStep ==
  ASSUME HttpIInv, NEW u \in Users, MayRun(u), BeginRun(u),
         NEW stage \in {"assign", "current"}, Goto(u, stage),
         stage = "assign" => instances' = TRUE,
         UNCHANGED <<thread, joinable, refs, destroyed, crashed>>
  PROVE  HttpIInv'
<1>1. /\ ~crashed /\ user[u] = "idle" /\ u \in refs /\ mutex = NoThread /\ thread = NoThread
      /\ NextRun \in Runs
      /\ user' = [user EXCEPT ![u] = stage] /\ mutex' = u
      /\ transfer' = [transfer EXCEPT ![NextRun] = "perform"]
      /\ overtaken' = (overtaken \/ Working # {})
  BY DEF MayRun, MayCall, BeginRun, Goto
<1>2. PICK n \in Runs : /\ n = NextRun /\ n = Last + 1 /\ Last \in Nat
                       /\ Started = 1..Last /\ n \notin Started
  BY <1>1, RunsInOrder DEF HttpIInv
<1>3. /\ user'[u] = stage /\ \A v \in Users \ {u} : user'[v] = user[v]
      /\ user' = [v \in Users |-> user'[v]]
  BY <1>1 DEF HttpIInv, HttpTyped
<1>4. /\ transfer'[n] = "perform" /\ \A r \in Runs \ {n} : transfer'[r] = transfer[r]
      /\ transfer' \in [Runs -> Stages]
  BY <1>1, <1>2 DEF HttpIInv, HttpTyped, Stages
<1>5. Started' = Started \cup {n} /\ Working' = Working \cup {n}
  BY <1>2, <1>4 DEF Started, Working
<1>6. Started' = 1..n /\ n \in 0..MaxRuns
  BY <1>2, <1>5, HttpAssumption DEF Runs
<1>7. Last' = n
  BY <1>6, FS_Interval, HttpAssumption DEF Last
<1>8. \A v \in Users : user[v] \notin Holding
  BY <1>1, HttpAssumption DEF HttpIInv, Locked
<1>9. \A r \in Runs : ~OnItsWay(r)
  BY <1>1, <1>8, NoneOnItsWay DEF HttpIInv, Reachable, Holding
<1>10. HttpTyped'
  BY <1>3, <1>4, <1>6 DEF HttpTyped
<1>11. Locked'
  BY <1>1, <1>3, <1>8 DEF HttpIInv, Locked
<1>12. Reachable'
  BY <1>3, <1>4, <1>7, <1>9 DEF HttpIInv, Reachable, OnItsWay
<1>13. KeptAlive'
  <2>1. ~destroyed'
    BY <1>1 DEF HttpIInv, KeptAlive
  <2>2. ~overtaken' => Working' = {n}
    BY <1>1, <1>5
  <2>3. instances' \/ user'[u] = "current"
    BY <1>3
  <2> QED
    BY <1>7, <2>1, <2>2, <2>3 DEF KeptAlive
<1> QED
  BY <1>10, <1>11, <1>12, <1>13 DEF HttpIInv

LEMMA AssignThreadStep ==
  ASSUME HttpIInv, NEW u \in Users, AssignThread(u)
  PROVE  HttpIInv'
<1>1. /\ user[u] = "assign" /\ user' = [user EXCEPT ![u] = "idle"]
      /\ thread' = Cardinality(Started) /\ joinable' = TRUE /\ mutex' = NoThread
      /\ UNCHANGED <<transfer, refs, instances, destroyed, crashed, overtaken>>
  BY DEF AssignThread, Goto
<1>2. Started' = Started /\ Last' = Last /\ Working' = Working
  BY <1>1 DEF Started, Last, Working
<1>3. /\ user'[u] = "idle" /\ \A v \in Users \ {u} : user'[v] = user[v]
      /\ user' = [v \in Users |-> user'[v]]
  BY <1>1 DEF HttpIInv, HttpTyped
<1>4. HttpTyped'
  BY <1>1, <1>2, <1>3 DEF HttpIInv, HttpTyped
<1>5. Locked'
  BY <1>1, <1>3 DEF HttpIInv, Locked, Holding
<1>6. thread' # NoThread
  BY <1>1, RunsInOrder, HttpAssumption DEF HttpIInv, Last
<1>7. Reachable'
  BY <1>1, <1>2, <1>6 DEF HttpIInv, Reachable, OnItsWay
<1>8. KeptAlive'
  BY <1>1, <1>2, <1>3 DEF HttpIInv, KeptAlive
<1> QED
  BY <1>4, <1>5, <1>7, <1>8 DEF HttpIInv

-----------------------------------------------------------------------------
(* The worker.                                                             *)

LEMMA ProceedRuns ==
  ASSUME HttpIInv, NEW r \in Runs, NEW from \in Stages \ {"none", "done"},
         NEW to \in Stages \ {"none"}, Proceed(r, from, to)
  PROVE  /\ transfer' \in [Runs -> Stages] /\ transfer[r] = from /\ transfer'[r] = to
         /\ \A q \in Runs \ {r} : transfer'[q] = transfer[q]
         /\ Started' = Started /\ Last' = Last
         /\ Working' = IF to = "done" THEN Working \ {r} ELSE Working
         /\ r \in Working
<1>1. /\ transfer[r] = from /\ transfer'[r] = to /\ transfer' \in [Runs -> Stages]
      /\ \A q \in Runs \ {r} : transfer'[q] = transfer[q]
  BY DEF Proceed, HttpIInv, HttpTyped
<1>2. Started' = Started
  BY <1>1 DEF Started
<1>3. Working' = (IF to = "done" THEN Working \ {r} ELSE Working) /\ r \in Working
  BY <1>1 DEF Working
<1> QED
  BY <1>1, <1>2, <1>3 DEF Last

LEMMA TransferStep ==
  ASSUME HttpIInv, NEW r \in Runs, EndTransfer(r) \/ Callback(r) \/ LeaveThread(r)
  PROVE  HttpIInv'
<1>1. UNCHANGED <<user, mutex, refs, instances, destroyed, crashed, overtaken>>
  BY DEF EndTransfer, Callback, LeaveThread
<1>2. /\ transfer' \in [Runs -> Stages] /\ transfer[r] \in {"perform", "callback", "leave"}
      /\ \A q \in Runs \ {r} : transfer'[q] = transfer[q]
      /\ Started' = Started /\ Last' = Last /\ Working' = Working
  BY ProceedRuns DEF EndTransfer, Callback, LeaveThread, Stages
<1>3. HttpTyped'
  BY <1>1, <1>2 DEF HttpIInv, HttpTyped
<1>4. Locked'
  BY <1>1 DEF HttpIInv, Locked
<1>5. KeptAlive'
  BY <1>1, <1>2 DEF HttpIInv, KeptAlive
<1>6. Reachable'
  <2>1. CASE EndTransfer(r) \/ Callback(r)
    <3>1. UNCHANGED <<thread, joinable>>
      BY <2>1 DEF EndTransfer, Callback
    <3> QED
      BY <1>1, <1>2, <3>1 DEF HttpIInv, Reachable, OnItsWay
  <2>2. CASE LeaveThread(r)
    <3>1. ~joinable' /\ transfer'[r] = "erase"
      BY <2>2, ProceedRuns DEF LeaveThread, Stages
    <3>2. \A q \in Runs : OnItsWay(q) => q = r
      BY <1>2 DEF HttpIInv, Reachable, OnItsWay
    <3> QED
      BY <1>2, <3>1, <3>2 DEF Reachable, OnItsWay
  <2> QED
    BY <2>1, <2>2
<1> QED
  BY <1>3, <1>4, <1>5, <1>6 DEF HttpIInv

LEMMA EraseInstanceStep ==
  ASSUME HttpIInv, NEW r \in Runs, EraseInstance(r)
  PROVE  HttpIInv'
<1>1. /\ Proceed(r, "erase", "done") /\ ~crashed
      /\ instances' = FALSE /\ destroyed' = (destroyed \/ refs = {})
      /\ user' = [u \in Users |-> IF user[u] = "current" /\ OnCallersThread(r)
                                  THEN "idle" ELSE user[u]]
      /\ mutex' = IF OnCallersThread(r) THEN NoThread ELSE mutex
      /\ UNCHANGED <<thread, joinable, refs, overtaken>>
  BY DEF EraseInstance, Proceed
<1>2. /\ transfer' \in [Runs -> Stages] /\ transfer[r] = "erase" /\ transfer'[r] = "done"
      /\ \A q \in Runs \ {r} : transfer'[q] = transfer[q]
      /\ Started' = Started /\ Last' = Last /\ Working' = Working \ {r} /\ r \in Working
  BY <1>1, ProceedRuns DEF Stages
<1>3. HttpTyped'
  BY <1>1, <1>2 DEF HttpIInv, HttpTyped
<1>4. Locked'
  <2>1. OnCallersThread(r) => \E u \in Users : user[u] = "current" /\ mutex = u
    BY DEF OnCallersThread, HttpIInv, Locked, Holding
  <2>2. \A u \in Users : user'[u] \in Holding => user[u] \in Holding /\ mutex = u
    BY <1>1 DEF HttpIInv, Locked, Holding
  <2>3. \A u \in Users : user'[u] \in Holding => mutex' = u
    BY <1>1, <2>1, <2>2 DEF Holding
  <2>4. \A u \in Users : user'[u] # "idle" => u \in refs'
    BY <1>1 DEF HttpIInv, Locked
  <2> QED
    BY <2>3, <2>4 DEF Locked
<1>5. Reachable'
  <2>1. \A q \in Runs : OnItsWay(q)' => OnItsWay(q) /\ q # r
    BY <1>2 DEF OnItsWay
  <2>2. ASSUME NEW q \in Runs, OnItsWay(q)'
        PROVE  q = Last' /\ (joinable' \/ \E u \in Users : user'[u] \in {"assign", "current"})
    <3>1. q = Last /\ q # r /\ (joinable \/ \E u \in Users : user[u] \in {"assign", "current"})
      BY <2>1, <2>2 DEF HttpIInv, Reachable
    <3>2. ~OnCallersThread(r)
      BY <3>1 DEF OnCallersThread, Last
    <3> QED
      BY <1>1, <1>2, <3>1, <3>2
  <2> QED
    BY <1>1, <2>2 DEF HttpIInv, Reachable
<1>6. KeptAlive'
  <2>1. ~overtaken' => Working' = {}
    BY <1>1, <1>2 DEF HttpIInv, KeptAlive
  <2> QED
    BY <1>1, <2>1 DEF HttpIInv, KeptAlive
<1> QED
  BY <1>3, <1>4, <1>5, <1>6 DEF HttpIInv

-----------------------------------------------------------------------------
(* Wait, Cancel and the end of the client.                                 *)

(* What a user's step does that changes no run. *)
LEMMA UserStepIInv ==
  ASSUME HttpIInv, NEW u \in Users, NEW stage, Goto(u, stage),
         user[u] \notin {"assign", "current"}, stage \notin {"assign", "current"},
         stage # "idle" => u \in refs,
         stage \in Holding => mutex' = u,
         mutex' = mutex \/ mutex = u \/ mutex = NoThread,
         joinable' = joinable \/ (joinable' = FALSE /\ \A r \in Runs : ~OnItsWay(r)),
         ~crashed,
         UNCHANGED <<transfer, thread, refs, instances, destroyed, overtaken>>
  PROVE  HttpIInv'
<1>1. /\ user'[u] = stage /\ \A v \in Users \ {u} : user'[v] = user[v]
      /\ user' = [v \in Users |-> user'[v]]
  BY DEF Goto, HttpIInv, HttpTyped
<1>2. Started' = Started /\ Last' = Last /\ Working' = Working
  BY DEF Started, Last, Working
<1>3. HttpTyped'
  BY <1>1, <1>2 DEF HttpIInv, HttpTyped
<1>4. Locked'
  <2>1. ASSUME NEW v \in Users \ {u}, user'[v] \in Holding PROVE mutex' = v
    BY <1>1, <2>1, HttpAssumption DEF HttpIInv, Locked
  <2>2. \A v \in Users : user'[v] # "idle" => v \in refs'
    BY <1>1 DEF HttpIInv, Locked
  <2> QED
    BY <1>1, <2>1, <2>2 DEF Locked
<1>5. Reachable'
  <2>1. \A v \in Users : user[v] \in {"assign", "current"} => user'[v] = user[v]
    BY <1>1
  <2> QED
    BY <1>2, <2>1 DEF HttpIInv, Reachable, OnItsWay
<1>6. KeptAlive'
  <2>1. \A v \in Users : user[v] = "current" => user'[v] = "current"
    BY <1>1
  <2> QED
    BY <1>2, <2>1 DEF HttpIInv, KeptAlive
<1> QED
  BY <1>3, <1>4, <1>5, <1>6 DEF HttpIInv

LEMMA CallStep ==
  ASSUME HttpIInv, NEW u \in Users, NEW method \in {"wait", "cancel"}, Call(u, method)
  PROVE  HttpIInv'
<1>1. /\ ~crashed /\ user[u] = "idle" /\ u \in refs /\ Goto(u, method) /\ mutex' = mutex
      /\ UNCHANGED <<transfer, thread, joinable, refs, instances, destroyed, overtaken>>
  BY DEF Call, MayCall
<1>2. method \notin Holding /\ method \notin {"assign", "current", "idle"}
  BY DEF Holding
<1> QED
  BY <1>1, <1>2, UserStepIInv

LEMMA LockAndLookStep ==
  ASSUME HttpIInv, NEW u \in Users, LockAndLook(u)
  PROVE  HttpIInv'
<1>1. /\ ~crashed /\ user[u] \in {"wait", "cancel"} /\ mutex = NoThread
      /\ UNCHANGED <<transfer, thread, joinable, refs, instances, destroyed, overtaken>>
  BY DEF LockAndLook
<1>2. u \in refs
  BY <1>1 DEF HttpIInv, Locked
<1>3. CASE joinable
  <2>1. mutex' = u /\ Goto(u, Joining(u)[1])
    BY <1>3 DEF LockAndLook, Joins
  <2>2. PICK stage : stage = Joining(u)[1] /\ stage \in {"wait_join", "cancel_join"}
    BY DEF Joining
  <2>3. stage \notin {"assign", "current"}
    BY <2>2
  <2> QED
    BY <1>1, <1>2, <2>1, <2>2, <2>3, UserStepIInv
<1>4. CASE ~joinable
  <2>1. mutex' = mutex /\ Goto(u, "idle")
    BY <1>4 DEF LockAndLook, Joins
  <2>2. "idle" \notin Holding /\ "idle" \notin {"assign", "current"}
    BY DEF Holding
  <2> QED
    BY <1>1, <1>2, <2>1, <2>2, UserStepIInv
<1> QED
  BY <1>3, <1>4

LEMMA JoinStep ==
  ASSUME HttpIInv, NEW u \in Users, Join(u)
  PROVE  HttpIInv'
<1>1. /\ ~crashed /\ user[u] \in {"wait_join", "cancel_join"}
      /\ UNCHANGED <<transfer, thread, joinable, refs, instances, destroyed, overtaken>>
  BY DEF Join
<1>2. u \in refs /\ mutex = u
  BY <1>1 DEF HttpIInv, Locked, Holding
<1>3. CASE joinable
  <2>1. mutex' = mutex /\ Goto(u, Joining(u)[2])
    BY <1>3 DEF Join
  <2>2. PICK stage : stage = Joining(u)[2] /\ stage \in {"wait_joining", "cancel_joining"}
    BY DEF Joining
  <2>3. stage \notin {"assign", "current"}
    BY <2>2
  <2> QED
    BY <1>1, <1>2, <2>1, <2>2, <2>3, UserStepIInv
<1>4. CASE ~joinable
  <2>1. mutex' = NoThread /\ Goto(u, "idle")
    BY <1>4 DEF Join
  <2>2. "idle" \notin Holding /\ "idle" \notin {"assign", "current"}
    BY DEF Holding
  <2> QED
    BY <1>1, <1>2, <2>1, <2>2, UserStepIInv
<1> QED
  BY <1>3, <1>4

LEMMA JoinedStep ==
  ASSUME HttpIInv, NEW u \in Users, Joined(u)
  PROVE  HttpIInv' /\ \A r \in Runs : ~OnItsWay(r)
<1>1. /\ ~crashed /\ user[u] \in {"wait_joining", "cancel_joining"} /\ Goto(u, "idle")
      /\ transfer[Last] = "done" /\ mutex' = NoThread /\ joinable' = FALSE
      /\ UNCHANGED <<transfer, thread, refs, instances, destroyed, overtaken>>
  BY DEF Joined, Last, AfterJoin
<1>2. u \in refs /\ mutex = u
  BY <1>1 DEF HttpIInv, Locked, Holding
<1>3. \A r \in Runs : ~OnItsWay(r)
  BY <1>1 DEF HttpIInv, Reachable, OnItsWay
<1>4. "idle" \notin Holding /\ "idle" \notin {"assign", "current"}
  BY DEF Holding
<1> QED
  BY <1>1, <1>2, <1>3, <1>4, UserStepIInv

LEMMA DropClientStep ==
  ASSUME HttpIInv, NEW u \in Users, DropClient(u)
  PROVE  HttpIInv'
<1>1. /\ ~crashed /\ user[u] = "idle" /\ u \in refs
      /\ refs' = refs \ {u}
      /\ destroyed' = (refs = {u} /\ ~instances)
      /\ UNCHANGED <<user, transfer, mutex, thread, joinable, instances, crashed, overtaken>>
  BY DEF DropClient, MayCall
<1>2. Started' = Started /\ Last' = Last /\ Working' = Working
  BY <1>1 DEF Started, Last, Working
<1>3. HttpTyped'
  BY <1>1, <1>2 DEF HttpIInv, HttpTyped
<1>4. Locked'
  BY <1>1 DEF HttpIInv, Locked
<1>5. Reachable'
  BY <1>1, <1>2 DEF HttpIInv, Reachable, OnItsWay
<1>6. KeptAlive'
  BY <1>1, <1>2 DEF HttpIInv, KeptAlive
<1> QED
  BY <1>3, <1>4, <1>5, <1>6 DEF HttpIInv

-----------------------------------------------------------------------------

LEMMA HttpStepIInv == HttpIInv /\ [HttpNext]_httpVars => HttpIInv'
<1> SUFFICES ASSUME HttpIInv, [HttpNext]_httpVars PROVE HttpIInv'
  OBVIOUS
<1>1. ASSUME NEW u \in Users, RunBackground(u) PROVE HttpIInv'
  <2>1. /\ MayRun(u) /\ BeginRun(u) /\ Goto(u, "assign") /\ instances' = TRUE
        /\ UNCHANGED <<thread, joinable, refs, destroyed, crashed>>
    BY <1>1 DEF RunBackground, Entered
  <2> QED
    BY <2>1, BeginRunStep
<1>2. ASSUME NEW u \in Users, RunCurrent(u) PROVE HttpIInv'
  <2>1. /\ MayRun(u) /\ BeginRun(u) /\ Goto(u, "current")
        /\ UNCHANGED <<thread, joinable, refs, instances, destroyed, crashed>>
    BY <1>2 DEF RunCurrent
  <2> QED
    BY <2>1, BeginRunStep
<1>3. ASSUME NEW u \in Users, UserStep(u) PROVE HttpIInv'
  BY <1>3, AssignThreadStep, LockAndLookStep, JoinStep, JoinedStep DEF UserStep
<1>4. ASSUME NEW r \in Runs, EndTransfer(r) \/ WorkerStep(r) PROVE HttpIInv'
  BY <1>4, TransferStep, EraseInstanceStep DEF WorkerStep, AbortTransfer
<1>5. ASSUME NEW u \in Users, DropClient(u) \/ Call(u, "wait") \/ Call(u, "cancel") PROVE HttpIInv'
  BY <1>5, DropClientStep, CallStep
<1>6. CASE UNCHANGED httpVars
  BY <1>6 DEF httpVars, HttpIInv, HttpTyped, Started, Locked, Reachable, OnItsWay, Last, KeptAlive,
              Working
<1> QED
  BY <1>1, <1>2, <1>3, <1>4, <1>5, <1>6 DEF HttpNext

LEMMA HttpIInvAlways == HttpSpec => []HttpIInv
  BY HttpInitIInv, HttpStepIInv, PTL DEF HttpSpec

(***************************************************************************)
(* No worker outlives its client, for any number of users and runs, unless *)
(* a Run has begun between the two last steps of an earlier worker.        *)
(***************************************************************************)
THEOREM WorkersKeepTheClient == HttpSpec => []AliveWhileWorking
<1>1. HttpIInv => AliveWhileWorking
  <2> SUFFICES ASSUME HttpIInv, destroyed, ~overtaken, ~crashed, NEW r \in Working PROVE FALSE
    BY DEF AliveWhileWorking
  <2>1. ~instances /\ refs = {}
    BY DEF HttpIInv, KeptAlive
  <2>2. PICK u \in Users : user[u] = "current"
    BY <2>1 DEF HttpIInv, KeptAlive
  <2> QED
    BY <2>1, <2>2 DEF HttpIInv, Locked
<1> QED
  BY <1>1, HttpIInvAlways, PTL

(***************************************************************************)
(* When Cancel returns, no run that had begun calls a callback any more,   *)
(* whatever the worker does meanwhile to the thread Cancel is to join.     *)
(***************************************************************************)
THEOREM CancelIsFinal == HttpSpec => NoCallbackAfterCancel
<1>1. ASSUME HttpIInv, [HttpNext]_httpVars, NEW u \in Users,
             user[u] \in {"cancel", "cancel_join", "cancel_joining"}, user'[u] = "idle",
             NEW r \in Started
      PROVE  transfer'[r] \notin {"perform", "callback"}
  <2>1. ASSUME ~(LockAndLook(u) \/ Join(u) \/ Joined(u)) PROVE FALSE
    <3>1. ASSUME NEW v \in Users, NEW from, user[v] = from, NEW to, Goto(v, to),
                 from \notin {"cancel", "cancel_join", "cancel_joining"} \/ v # u
          PROVE  FALSE
      BY <1>1, <3>1 DEF Goto, HttpIInv, HttpTyped
    <3>2. ASSUME NEW v \in Users,
                 RunBackground(v) \/ RunCurrent(v) \/ Call(v, "wait") \/ Call(v, "cancel")
          PROVE  FALSE
      BY <3>1, <3>2 DEF RunBackground, RunCurrent, Call, MayRun, MayCall
    <3>3. ASSUME NEW v \in Users, UserStep(v) PROVE FALSE
      <4>1. CASE AssignThread(v)
        BY <3>1, <4>1 DEF AssignThread
      <4>2. CASE ~AssignThread(v)
        <5>1. v # u /\ (LockAndLook(v) \/ Join(v) \/ Joined(v))
          BY <2>1, <3>3, <4>2 DEF UserStep
        <5>2. \E to : Goto(v, to)
          BY <5>1 DEF LockAndLook, Join, Joined
        <5> QED
          BY <3>1, <5>1, <5>2
      <4> QED
        BY <4>1, <4>2
    <3>4. ASSUME user' = user PROVE FALSE
      BY <1>1, <3>4
    <3>5. ASSUME NEW q \in Runs, EraseInstance(q) PROVE FALSE
      BY <1>1, <3>5 DEF EraseInstance
    <3> QED
      BY <1>1, <3>2, <3>3, <3>4, <3>5
      DEF HttpNext, httpVars, WorkerStep, AbortTransfer, EndTransfer, Callback, LeaveThread,
          DropClient
  <2>2. transfer' = transfer /\ r \in Runs
    BY <2>1 DEF LockAndLook, Join, Joined, Started
  <2>3. ~OnItsWay(r)
    <3>1. CASE Joined(u)
      BY <1>1, <2>2, <3>1, JoinedStep
    <3>2. CASE LockAndLook(u)
      <4>1. mutex = NoThread /\ ~joinable
        BY <1>1, <3>2 DEF LockAndLook, Joins, Goto, Joining, HttpIInv, HttpTyped
      <4>2. \A v \in Users : user[v] \notin {"assign", "current"}
        BY <1>1, <4>1, HttpAssumption DEF HttpIInv, Locked, Holding
      <4> QED
        BY <1>1, <2>2, <4>1, <4>2, NoneOnItsWay
    <3>3. CASE Join(u)
      <4>1. mutex = u /\ ~joinable
        BY <1>1, <3>3 DEF Join, Goto, Joining, HttpIInv, HttpTyped, Locked, Holding
      <4>2. \A v \in Users : user[v] \notin {"assign", "current"}
        BY <1>1, <4>1 DEF HttpIInv, Locked, Holding
      <4> QED
        BY <1>1, <2>2, <4>1, <4>2, NoneOnItsWay
    <3> QED
      BY <2>1, <3>1, <3>2, <3>3
  <2> QED
    BY <2>2, <2>3 DEF OnItsWay
<1>2. HttpIInv /\ [HttpNext]_httpVars =>
        [\A u \in Users :
           user[u] \in {"cancel", "cancel_join", "cancel_joining"} /\ user'[u] = "idle"
             => \A r \in Started : transfer'[r] \notin {"perform", "callback"}]_httpVars
  BY <1>1
<1> QED
  BY <1>2, HttpIInvAlways, PTL DEF HttpSpec, NoCallbackAfterCancel

-----------------------------------------------------------------------------
(* Types.                                                                  *)

(* The run that is assigned to `thread` has begun. *)
SomeStarted == (\E u \in Users : user[u] = "assign") => Started # {}

FlagsOK ==
  /\ joinable \in BOOLEAN /\ cancel \in BOOLEAN /\ instances \in BOOLEAN
  /\ destroyed \in BOOLEAN /\ crashed \in BOOLEAN /\ overtaken \in BOOLEAN

LEMMA UserKeepsFlags ==
  ASSUME FlagsOK, NEW u \in Users,
         RunBackground(u) \/ RunCurrent(u) \/ DropClient(u) \/ Call(u, "wait") \/ Call(u, "cancel")
           \/ UserStep(u)
  PROVE  FlagsOK'
<1>1. CASE RunBackground(u) \/ RunCurrent(u)
  BY <1>1 DEF RunBackground, RunCurrent, BeginRun, Entered, FlagsOK
<1>2. CASE DropClient(u)
  BY <1>2 DEF DropClient, FlagsOK
<1>3. CASE Call(u, "wait") \/ Call(u, "cancel")
  BY <1>3 DEF Call, FlagsOK
<1>4. CASE AssignThread(u)
  BY <1>4 DEF AssignThread, FlagsOK
<1>5. CASE LockAndLook(u)
  BY <1>5 DEF LockAndLook, FlagsOK
<1>6. CASE Join(u)
  BY <1>6 DEF Join, FlagsOK
<1>7. CASE Joined(u)
  BY <1>7 DEF Joined, FlagsOK
<1> QED
  BY <1>1, <1>2, <1>3, <1>4, <1>5, <1>6, <1>7 DEF UserStep

LEMMA RunKeepsFlags ==
  ASSUME FlagsOK, NEW r \in Runs, EndTransfer(r) \/ WorkerStep(r)
  PROVE  FlagsOK'
<1>1. CASE EndTransfer(r) \/ Callback(r)
  BY <1>1 DEF EndTransfer, Callback, FlagsOK
<1>2. CASE LeaveThread(r)
  BY <1>2 DEF LeaveThread, FlagsOK
<1>3. CASE EraseInstance(r)
  BY <1>3 DEF EraseInstance, FlagsOK
<1> QED
  BY <1>1, <1>2, <1>3 DEF WorkerStep, AbortTransfer

LEMMA UserKeepsTypes ==
  ASSUME HttpIInv, HttpTypeOK, SomeStarted, NEW u \in Users,
         RunBackground(u) \/ RunCurrent(u) \/ DropClient(u) \/ Call(u, "wait") \/ Call(u, "cancel")
           \/ UserStep(u)
  PROVE  HttpTypeOK' /\ SomeStarted'
<1>1. FlagsOK'
  BY UserKeepsFlags DEF HttpTypeOK, FlagsOK
<1>2. ASSUME NEW stage \in {"assign", "current"}, MayRun(u), BeginRun(u), Goto(u, stage),
             UNCHANGED <<thread, refs>>
      PROVE  HttpTypeOK' /\ SomeStarted'
  <2>1. /\ user' \in [Users -> Doing] /\ transfer' \in [Runs -> Stages] /\ mutex' \in Users
        /\ thread' \in Runs \cup {NoThread} /\ refs' \subseteq Users
    BY <1>2 DEF BeginRun, Goto, HttpTypeOK, Doing, Stages
  <2>2. NextRun \in Runs /\ transfer'[NextRun] = "perform"
    BY <1>2 DEF MayRun, BeginRun, HttpTypeOK
  <2>3. NextRun \in Started'
    BY <2>2 DEF Started
  <2> QED
    BY <1>1, <2>1, <2>3 DEF HttpTypeOK, FlagsOK, SomeStarted
<1>3. CASE RunBackground(u) \/ RunCurrent(u)
  BY <1>2, <1>3 DEF RunBackground, RunCurrent
<1>4. ASSUME UNCHANGED transfer, NEW stage \in Doing \ {"assign"}, Goto(u, stage) \/ UNCHANGED user,
             mutex' \in {mutex, u, NoThread}, thread' = thread, refs' \in {refs, refs \ {u}}
      PROVE  HttpTypeOK' /\ SomeStarted'
  <2>1. /\ user' \in [Users -> Doing] /\ transfer' \in [Runs -> Stages]
        /\ mutex' \in Users \cup {NoThread}
        /\ thread' \in Runs \cup {NoThread} /\ refs' \subseteq Users
    BY <1>4 DEF Goto, HttpTypeOK
  <2>2. Started' = Started /\ \A v \in Users : user'[v] = "assign" => user[v] = "assign"
    BY <1>4 DEF Started, Goto, HttpTypeOK
  <2> QED
    BY <1>1, <2>1, <2>2 DEF HttpTypeOK, FlagsOK, SomeStarted
<1>5. CASE AssignThread(u)
  <2>1. Last \in Runs
    <3>1. Last \in Nat /\ Started = 1..Last /\ Started \subseteq Runs
      BY RunsInOrder DEF HttpIInv, Started
    <3>2. Last # 0
      BY <1>5, <3>1 DEF SomeStarted, AssignThread
    <3> QED
      BY <3>1, <3>2
  <2>2. thread' = Last /\ user' = [user EXCEPT ![u] = "idle"] /\ mutex' = NoThread
        /\ UNCHANGED <<transfer, refs>>
    BY <1>5 DEF AssignThread, Goto, Last
  <2>3. Started' = Started /\ \A v \in Users : user'[v] = "assign" => user[v] = "assign"
    BY <2>2 DEF Started, HttpTypeOK
  <2>4. user' \in [Users -> Doing]
    BY <2>2 DEF HttpTypeOK, Doing
  <2> QED
    BY <1>1, <2>1, <2>2, <2>3, <2>4 DEF HttpTypeOK, FlagsOK, SomeStarted
<1>6. CASE DropClient(u)
  BY <1>4, <1>6 DEF DropClient, Doing
<1>7. CASE Call(u, "wait") \/ Call(u, "cancel")
  BY <1>4, <1>7 DEF Call, Doing
<1>8. CASE LockAndLook(u)
  BY <1>4, <1>8 DEF LockAndLook, Joining, Doing
<1>9. CASE Join(u)
  BY <1>4, <1>9 DEF Join, Joining, Doing
<1>10. CASE Joined(u)
  BY <1>4, <1>10 DEF Joined, AfterJoin, Doing
<1> QED
  BY <1>3, <1>5, <1>6, <1>7, <1>8, <1>9, <1>10 DEF UserStep

LEMMA RunKeepsTypes ==
  ASSUME HttpTypeOK, SomeStarted, NEW r \in Runs, EndTransfer(r) \/ WorkerStep(r)
  PROVE  HttpTypeOK' /\ SomeStarted'
<1>1. FlagsOK'
  BY RunKeepsFlags DEF HttpTypeOK, FlagsOK
<1>2. PICK from \in Stages \ {"none"}, to \in Stages \ {"none"} : Proceed(r, from, to)
  BY DEF WorkerStep, AbortTransfer, EndTransfer, Callback, LeaveThread, EraseInstance, Stages
<1>3. transfer' \in [Runs -> Stages] /\ Started' = Started
  BY <1>2 DEF Proceed, HttpTypeOK, Started
<1>4. /\ mutex' \in Users \cup {NoThread} /\ thread' \in Runs \cup {NoThread}
      /\ refs' \subseteq Users
      /\ user' \in [Users -> Doing]
      /\ \A v \in Users : user'[v] = "assign" => user[v] = "assign"
  <2>1. CASE EndTransfer(r) \/ Callback(r) \/ LeaveThread(r)
    BY <2>1 DEF EndTransfer, Callback, LeaveThread, HttpTypeOK
  <2>2. CASE EraseInstance(r)
    BY <2>2 DEF EraseInstance, HttpTypeOK, Doing
  <2> QED
    BY <2>1, <2>2 DEF WorkerStep, AbortTransfer
<1> QED
  BY <1>1, <1>3, <1>4 DEF HttpTypeOK, FlagsOK, SomeStarted

LEMMA HttpTypes == HttpSpec => []HttpTypeOK
<1>1. HttpInit => HttpTypeOK /\ SomeStarted
  BY DEF HttpInit, HttpTypeOK, SomeStarted, Doing, Stages
<1>2. HttpIInv /\ HttpTypeOK /\ SomeStarted /\ [HttpNext]_httpVars => HttpTypeOK' /\ SomeStarted'
  <2>1. ASSUME HttpTypeOK, SomeStarted, UNCHANGED httpVars PROVE HttpTypeOK' /\ SomeStarted'
    BY <2>1 DEF httpVars, HttpTypeOK, SomeStarted, Started
  <2> QED
    BY <2>1, UserKeepsTypes, RunKeepsTypes DEF HttpNext
<1> QED
  BY <1>1, <1>2, HttpIInvAlways, PTL DEF HttpSpec

=============================================================================
