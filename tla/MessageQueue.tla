---------------------------- MODULE MessageQueue ----------------------------
(***************************************************************************)
(* f8n::runtime::MessageQueue: a time-ordered list of messages guarded by  *)
(* queueMutex, filled by any thread and drained by one loop thread.        *)
(*                                                                         *)
(* One critical section of the code is one action: nothing blocks inside   *)
(* a section except the condition variable, which releases the mutex, and  *)
(* every section sets all it changes before it unlocks.  The loop thread   *)
(* works between sections, so its path through WaitAndDispatch and         *)
(* Dispatch is cut at every unlocked access and `pc` says where it stands. *)
(* A public method with two sections (Unregister, Debounce) is two         *)
(* actions, and `pending` holds what is left of it.                        *)
(*                                                                         *)
(* Handlers run on the loop thread and may call the queue: while a handler *)
(* runs, the loop is a client like any other.                              *)
(***************************************************************************)
EXTENDS Integers, Sequences, FiniteSets

CONSTANTS
  Targets,          (* IMessageTarget objects messages are addressed to.    *)
  Receivers,        (* Objects held by shared_ptr that ask for broadcasts.  *)
  Threads,          (* Client threads.                                      *)
  Loop,             (* The thread that dispatches.                          *)
  Nil,              (* nullptr.                                             *)
  Types,            (* Message types.                                       *)
  DebounceTypes,    (* The types clients pass to Debounce; the others are   *)
                    (* posted or broadcast.                                 *)
  Delays,           (* The delayMs clients pass.                            *)
  Timeouts,         (* The timeoutMillis the loop passes.                   *)
  Api,              (* The methods the clients of this instance call.       *)
  MaxTime,          (* Bounds the clock and the due times.                  *)
  MaxPosts          (* Bounds the number of messages accepted.              *)

AnyType == -1       \* the default of `type` in Remove and Contains
Forever == -1       \* a wait without a deadline

ASSUME QueueAssumption ==
  /\ IsFiniteSet(Threads)
  /\ Loop \notin Threads
  /\ Nil \notin Targets \cup Receivers
  /\ Types \subseteq Nat
  /\ DebounceTypes \subseteq Types
  /\ Delays \subseteq Int
  /\ Timeouts \subseteq Int
  /\ MaxTime \in Nat \ {0}
  /\ MaxPosts \in Nat

VARIABLES
  now,              (* system_clock, in milliseconds.                       *)
  queue,            (* The time-ordered list.                               *)
  targets,          (* Registered targets.                                  *)
  receivers,        (* The set of weak_ptrs registered for broadcasts.      *)
  nextMessageTime,  (* The atomic that lets Dispatch return early.          *)
  owned,            (* Receivers their owner still holds a shared_ptr to.   *)
  pc,               (* Where the loop thread is.                            *)
  seen,             (* Dispatch's local `now`.                              *)
  wakeAt,           (* Deadline of the wait on waitForDispatch.             *)
  notified,         (* The waiting loop has been notified.                  *)
  dispatch,         (* The batch swept out of the queue, not handled yet.   *)
  current,          (* The message handled last, or being handled.          *)
  copy,             (* Receivers the current broadcast still has to visit.  *)
  prune,            (* The current broadcast met an expired weak_ptr.       *)
  held,             (* The receiver pinned by `shared` while its handler    *)
                    (* runs, or Nil.                                        *)
  front,            (* The node queue.begin() gave the tail of Dispatch.    *)
  pending,          (* Per caller, the second section of its method.        *)
  posted            (* How many messages Enqueue has inserted.              *)

registryVars == <<targets, receivers, owned>>
listVars     == <<queue, nextMessageTime, posted>>
batchVars    == <<dispatch, current, copy, prune, held>>
loopVars     == <<pc, seen, wakeAt, front, batchVars>>
vars == <<now, registryVars, listVars, notified, pending, loopVars>>

Callers == Threads \cup {Loop}

(* `id` numbers the messages in the order of Enqueue. *)
Messages == [id : 0..MaxPosts, target : Targets \cup {Nil}, type : Types,
             time : 0..MaxTime]

Precedes(m, n) == \/ m.time < n.time
                  \/ m.time = n.time /\ m.id < n.id

(* What is left of a method after its first section. *)
Call(op, t, type, delay) == [op |-> op, target |-> t, type |-> type, delay |-> delay]
NoCall == Call("none", Nil, AnyType, 0)
Calls  == [op : {"none", "Remove"}, target : Targets \cup {Nil}, type : {AnyType},
           delay : {0}]
          \cup
          [op : {"Post"}, target : Targets \cup {Nil}, type : Types, delay : Delays]

(* Callers between the two sections of Debounce. *)
Debouncing == {c \in Callers : pending[c].op = "Post"}

(* A receiver lives while somebody holds a shared_ptr to it. *)
Expired(r) == r \notin owned \cup {held}

(* The list s with the entries whose positions are in K, and no others. *)
Enumerations(K) ==
  {g \in [1..Cardinality(K) -> K] :
     /\ K = {g[i] : i \in 1..Cardinality(K)}
     /\ \A i, j \in 1..Cardinality(K) : i < j => g[i] < g[j]}

Kept(s, K) == {[i \in 1..Cardinality(K) |-> s[g[i]]] : g \in Enumerations(K)}

(* Mutants: the target or the type is not looked at. *)
MatchesType(m, t, type) == type \in {AnyType, m.type}
MatchesWildcard(m, t, type) == m.target = t /\ type = AnyType

Matches(m, t, type) == m.target = t /\ type \in {AnyType, m.type}

-----------------------------------------------------------------------------
(* The critical sections that change the list.                             *)

(* Mutant: a negative delay is taken as it is. *)
DueInThePast(delay) == now + delay

DueTime(delay) == now + (IF delay > 0 THEN delay ELSE 0)

(* Mutant: a message goes before those due at the same time. *)
StaysBehind(q, due) == q.time < due

StaysAhead(q, due) == q.time <= due

(* Mutant: only the first message of an empty list wakes the loop. *)
NotifiesWhenEmpty(p) == queue = <<>>

NotifiesAt(p) == p = 1

(***************************************************************************)
(* The new message goes behind every message that is not due later, and    *)
(* the loop is notified when that is the front.                            *)
(***************************************************************************)
Enqueue(target, type, delay) ==
  LET due == DueTime(delay)
      m   == [id |-> posted + 1, target |-> target, type |-> type, time |-> due]
  IN /\ posted < MaxPosts                              \* bound
     /\ due <= MaxTime                                 \* bound
     /\ posted' = posted + 1
     /\ \E p \in 1..Len(queue) + 1 :
          /\ \A i \in 1..p - 1 : StaysAhead(queue[i], due)
          /\ p <= Len(queue) => ~StaysAhead(queue[p], due)
          /\ queue' = [i \in 1..Len(queue) + 1 |->
                         IF i < p THEN queue[i]
                         ELSE IF i = p THEN m ELSE queue[i - 1]]
          /\ notified' = (notified \/ (NotifiesAt(p) /\ pc = "waiting"))
     /\ nextMessageTime' = queue'[1].time

(* Mutant: Remove forgets the front it leaves. *)
NextTimeReset == -1

NextTimeAfterRemove == IF queue' = <<>> THEN nextMessageTime ELSE queue'[1].time

RemoveSection(t, type) ==
  /\ queue' \in Kept(queue, {i \in DOMAIN queue : ~Matches(queue[i], t, type)})
  /\ nextMessageTime' = NextTimeAfterRemove
  /\ UNCHANGED <<posted, notified>>

(* Mutant: Post does not ask whether the target is registered. *)
PostSectionUnchecked(t, type, delay) == Enqueue(t, type, delay)

PostSection(t, type, delay) ==
  IF t \in targets
  THEN Enqueue(t, type, delay)
  ELSE UNCHANGED <<listVars, notified>>

-----------------------------------------------------------------------------
(* The methods clients call.                                               *)

(***************************************************************************)
(* A call can start when its thread is not inside another one; on the loop *)
(* thread that is in a handler, or between two turns of the loop.          *)
(***************************************************************************)
CanCall(c, method) ==
  /\ method \in Api
  /\ pc # "crashed"
  /\ pending[c].op = "none"
  /\ c = Loop => pc \in {"idle", "handling"}

Register(c, t) ==
  /\ CanCall(c, "Register")
  /\ targets' = targets \cup {t}
  /\ UNCHANGED <<now, receivers, owned, listVars, notified, pending, loopVars>>

(* First section of Unregister; the messages go in a second one. *)
Unregister(c, t) ==
  /\ CanCall(c, "Unregister")
  /\ t \in targets
  /\ targets' = targets \ {t}
  /\ pending' = [pending EXCEPT ![c] = Call("Remove", t, AnyType, 0)]
  /\ UNCHANGED <<now, receivers, owned, listVars, notified, loopVars>>

Remove(c, t, type) ==
  /\ CanCall(c, "Remove")
  /\ RemoveSection(t, type)
  /\ UNCHANGED <<now, registryVars, pending, loopVars>>

Post(c, t, type, delay) ==
  /\ CanCall(c, "Post")
  /\ PostSection(t, type, delay)
  /\ UNCHANGED <<now, registryVars, pending, loopVars>>

(* A message with a target is refused with an exception, and not sent. *)
Broadcast(c, type, delay) ==
  /\ CanCall(c, "Broadcast")
  /\ Enqueue(Nil, type, delay)
  /\ UNCHANGED <<now, registryVars, pending, loopVars>>

(* First section of Debounce: Remove; Post follows in a second one. *)
Debounce(c, t, type, delay) ==
  /\ CanCall(c, "Debounce")
  /\ posted + Cardinality(Debouncing) < MaxPosts      \* bound
  /\ DueTime(delay) <= MaxTime                         \* bound
  /\ RemoveSection(t, type)
  /\ pending' = [pending EXCEPT ![c] = Call("Post", t, type, delay)]
  /\ UNCHANGED <<now, registryVars, loopVars>>

(* The second section of Debounce. *)
DebouncePost(c) ==
  /\ pc # "crashed"
  /\ pending[c].op = "Post"
  /\ PostSection(pending[c].target, pending[c].type, pending[c].delay)
  /\ pending' = [pending EXCEPT ![c] = NoCall]
  /\ UNCHANGED <<now, registryVars, loopVars>>

(* The second section of Unregister. *)
UnregisterRemove(c) ==
  /\ pc # "crashed"
  /\ pending[c].op = "Remove"
  /\ RemoveSection(pending[c].target, pending[c].type)
  /\ pending' = [pending EXCEPT ![c] = NoCall]
  /\ UNCHANGED <<now, registryVars, loopVars>>

RegisterForBroadcasts(c, r) ==
  /\ CanCall(c, "RegisterForBroadcasts")
  /\ ~Expired(r)
  /\ receivers' = receivers \cup {r}
  /\ UNCHANGED <<now, targets, owned, listVars, notified, pending, loopVars>>

(***************************************************************************)
(* The set is ordered by lock().get(), which turns to null when a receiver *)
(* dies: with a dead receiver in the tree the erase by key can miss, or    *)
(* take a range that goes through the dead node.                           *)
(***************************************************************************)
UnregisterForBroadcasts(c, r) ==
  /\ CanCall(c, "UnregisterForBroadcasts")
  /\ r \in receivers
  /\ ~Expired(r)
  /\ \E E \in SUBSET receivers :
       /\ \/ E = {r}
          \/ \E x \in receivers : Expired(x) /\ (E = {} \/ {r, x} \subseteq E)
       /\ receivers' = receivers \ E
  /\ UNCHANGED <<now, targets, owned, listVars, notified, pending, loopVars>>

(* Not a method of the queue: the owner of a receiver lets go of it. *)
Release(c, r) ==
  /\ CanCall(c, "Release")
  /\ r \in owned
  /\ owned' = owned \ {r}
  /\ UNCHANGED <<now, targets, receivers, listVars, notified, pending, loopVars>>

-----------------------------------------------------------------------------
(* The loop thread: WaitAndDispatch, Dispatch, Dispatch(message).          *)

Goto(from, to) == pc = from /\ pc' = to

(***************************************************************************)
(* The wait lasts until the front is due or the timeout is over, whichever *)
(* comes first; a front that is already due is not waited for.             *)
(***************************************************************************)
WaitAndDispatch(timeout) ==
  LET limit    == IF timeout >= 0 THEN now + timeout ELSE Forever
      deadline == IF queue = <<>> THEN limit
                  ELSE IF timeout >= 0 /\ limit < queue[1].time
                  THEN limit ELSE queue[1].time
      ready    == queue # <<>> /\ deadline <= now
  IN /\ pending[Loop].op = "none"
     /\ Goto("idle", IF ready THEN "dispatch" ELSE "waiting")
     /\ wakeAt' = IF ready THEN Forever ELSE deadline
     /\ notified' = FALSE
     /\ UNCHANGED <<now, registryVars, listVars, pending, seen, front, batchVars>>

(* The application calls Dispatch itself. *)
DispatchNow ==
  /\ pending[Loop].op = "none"
  /\ Goto("idle", "dispatch")
  /\ UNCHANGED <<now, registryVars, listVars, notified, pending, seen, wakeAt, front,
                 batchVars>>

(* The code waits without a predicate: any wakeup ends the wait. *)
SpuriousWake ==
  /\ Goto("waiting", "dispatch")
  /\ wakeAt' = Forever
  /\ notified' = FALSE
  /\ UNCHANGED <<now, registryVars, listVars, pending, seen, front, batchVars>>

Wake ==
  /\ notified \/ (wakeAt # Forever /\ wakeAt <= now)
  /\ SpuriousWake

ReadClock ==
  /\ Goto("dispatch", "check")
  /\ seen' = now
  /\ UNCHANGED <<now, registryVars, listVars, notified, pending, wakeAt, front, batchVars>>

(* Return at once when, as far as the atomic tells, nothing is due. *)
CheckNextTime ==
  /\ Goto("check", IF nextMessageTime > seen \/ nextMessageTime < 0
                   THEN "idle" ELSE "sweep")
  /\ UNCHANGED <<now, registryVars, listVars, notified, pending, seen, wakeAt, front,
                 batchVars>>

(* The positions of the list up to the first message that is not due. *)
Due == {i \in DOMAIN queue : \A j \in 1..i : queue[j].time <= seen}

(* Due messages become the batch, or are dropped with their target gone. *)
Sweep ==
  /\ Goto("sweep", "next")
  /\ nextMessageTime' = -1
  /\ dispatch' \in Kept(queue, {i \in Due : queue[i].target \in targets \cup {Nil}})
  /\ queue' \in Kept(queue, DOMAIN queue \ Due)
  /\ UNCHANGED <<now, registryVars, posted, notified, pending, seen, wakeAt, front,
                 current, copy, prune, held>>

(* The head of the batch goes to its target, registered or not. *)
HandleTargeted ==
  /\ Goto("next", "handling")
  /\ dispatch # <<>>
  /\ dispatch[1].target # Nil
  /\ current' = dispatch[1]
  /\ dispatch' = Tail(dispatch)
  /\ UNCHANGED <<now, registryVars, listVars, notified, pending, seen, wakeAt, front,
                 copy, prune, held>>

(***************************************************************************)
(* A broadcast copies the receivers under the lock.  Dead ones compare     *)
(* equal, so the copy keeps at least one of them and perhaps no more.      *)
(***************************************************************************)
BeginBroadcast ==
  /\ Goto("next", "receivers")
  /\ dispatch # <<>>
  /\ dispatch[1].target = Nil
  /\ current' = dispatch[1]
  /\ dispatch' = Tail(dispatch)
  /\ \E D \in SUBSET {r \in receivers : Expired(r)} :
       /\ D = {} => \A r \in receivers : ~Expired(r)
       /\ copy' = {r \in receivers : ~Expired(r)} \cup D
  /\ prune' = FALSE
  /\ UNCHANGED <<now, registryVars, listVars, notified, pending, seen, wakeAt, front,
                 held>>

(* Mutants: a dead receiver ends the loop; `prune` is set anew each time. *)
CopyUntilExpired(r) == IF Expired(r) THEN {} ELSE copy \ {r}
PruneAfterLast(r) == Expired(r)

CopyAfter(r) == copy \ {r}
PruneAfter(r) == prune \/ Expired(r)

(* lock() pins a live receiver for its handler, and tells a dead one. *)
VisitReceiver(r) ==
  /\ Goto("receivers", IF Expired(r) THEN "receivers" ELSE "handling")
  /\ r \in copy
  /\ copy' = CopyAfter(r)
  /\ prune' = PruneAfter(r)
  /\ held' = IF Expired(r) THEN Nil ELSE r
  /\ UNCHANGED <<now, registryVars, listVars, notified, pending, seen, wakeAt, front,
                 dispatch, current>>

(* The handler returns. *)
EndHandle ==
  /\ Goto("handling", IF current.target = Nil THEN "receivers" ELSE "next")
  /\ pending[Loop].op = "none"
  /\ held' = Nil
  /\ UNCHANGED <<now, registryVars, listVars, notified, pending, seen, wakeAt, front,
                 dispatch, current, copy, prune>>

EndBroadcast ==
  /\ Goto("receivers", "next")
  /\ copy = {}
  /\ receivers' = IF prune THEN {r \in receivers : ~Expired(r)} ELSE receivers
  /\ UNCHANGED <<now, targets, owned, listVars, notified, pending, seen, wakeAt, front,
                 batchVars>>

EndBatch ==
  /\ Goto("next", "size")
  /\ dispatch = <<>>
  /\ UNCHANGED <<now, registryVars, listVars, notified, pending, seen, wakeAt, front,
                 batchVars>>

(***************************************************************************)
(* The tail of Dispatch reads the list without the lock: queue.size(), the *)
(* node begin() points at, and that node's time are separate steps.        *)
(***************************************************************************)

(* Mutants: Dispatch has no tail; the tail does not ask for the size. *)
NoTail == "idle"
UncheckedTail == "front"

AfterSize == IF queue = <<>> THEN "idle" ELSE "front"

ReadSize ==
  /\ Goto("size", AfterSize)
  /\ UNCHANGED <<now, registryVars, listVars, notified, pending, seen, wakeAt, front,
                 batchVars>>

(* begin() of a list emptied meanwhile is end(), and not a message. *)
ReadFront ==
  /\ Goto("front", IF queue = <<>> THEN "crashed" ELSE "store")
  /\ front' = IF queue = <<>> THEN front ELSE queue[1]
  /\ UNCHANGED <<now, registryVars, listVars, notified, pending, seen, wakeAt, batchVars>>

(* A node removed meanwhile is freed memory: its time can be anything. *)
StoreNextTime ==
  /\ Goto("store", "idle")
  /\ nextMessageTime' \in IF \E i \in DOMAIN queue : queue[i] = front
                          THEN {front.time} ELSE -1..MaxTime + 1
  /\ UNCHANGED <<now, registryVars, queue, posted, notified, pending, seen, wakeAt,
                 front, batchVars>>

-----------------------------------------------------------------------------

(* Time passes, except where a call already made would leave the bound. *)
Tick ==
  /\ now < MaxTime
  /\ \A c \in Debouncing : DueTime(pending[c].delay) < MaxTime
  /\ now' = now + 1
  /\ UNCHANGED <<registryVars, listVars, notified, pending, loopVars>>

Init ==
  /\ now = 1                   \* the epoch is long over: not before nextMessageTime
  /\ queue = <<>>
  /\ targets = {}
  /\ receivers = {}
  /\ nextMessageTime = 1
  /\ owned = Receivers
  /\ pc = "idle"
  /\ seen = 0
  /\ wakeAt = Forever
  /\ notified = FALSE
  /\ dispatch = <<>>
  /\ current \in [id : {0}, target : {Nil}, type : Types, time : {0}]
  /\ copy = {}
  /\ prune = FALSE
  /\ held = Nil
  /\ front = current
  /\ pending = [c \in Callers |-> NoCall]
  /\ posted = 0

ClientStep(c) ==
  \/ \E t \in Targets : Register(c, t) \/ Unregister(c, t)
  \/ \E t \in Targets, type \in Types \cup {AnyType} : Remove(c, t, type)
  \/ \E t \in Targets, type \in Types \ DebounceTypes, d \in Delays :
       Post(c, t, type, d)
  \/ \E type \in Types \ DebounceTypes, d \in Delays : Broadcast(c, type, d)
  \/ \E t \in Targets \cup {Nil}, type \in DebounceTypes, d \in Delays :
       Debounce(c, t, type, d)
  \/ \E r \in Receivers : \/ RegisterForBroadcasts(c, r)
                          \/ UnregisterForBroadcasts(c, r)
                          \/ Release(c, r)

Resume(c) == DebouncePost(c) \/ UnregisterRemove(c)

(* What the loop thread does by itself, unless it is woken for nothing. *)
LoopStep ==
  \/ \E timeout \in Timeouts : WaitAndDispatch(timeout)
  \/ Wake
  \/ ReadClock
  \/ CheckNextTime
  \/ Sweep
  \/ HandleTargeted
  \/ BeginBroadcast
  \/ \E r \in Receivers : VisitReceiver(r)
  \/ EndHandle
  \/ EndBroadcast
  \/ EndBatch
  \/ ReadSize
  \/ ReadFront
  \/ StoreNextTime

Next ==
  \/ LoopStep
  \/ DispatchNow
  \/ SpuriousWake
  \/ \E c \in Callers : ClientStep(c) \/ Resume(c)
  \/ Tick

Spec == Init /\ [][Next]_vars

(***************************************************************************)
(* An application calls WaitAndDispatch over and over from its main loop,  *)
(* handlers return, a started method is finished, and time passes.         *)
(***************************************************************************)
LiveSpec ==
  /\ Spec
  /\ WF_vars(LoopStep)
  /\ \A c \in Callers : WF_vars(Resume(c))
  /\ WF_vars(Tick)

-----------------------------------------------------------------------------
(* Properties.                                                             *)

TypeOK ==
  /\ now \in 0..MaxTime
  /\ queue \in Seq(Messages)
  /\ targets \subseteq Targets
  /\ receivers \subseteq Receivers
  /\ nextMessageTime \in -1..MaxTime + 1
  /\ owned \subseteq Receivers
  /\ pc \in {"idle", "waiting", "dispatch", "check", "sweep", "next", "receivers",
             "handling", "size", "front", "store", "crashed"}
  /\ seen \in 0..MaxTime
  /\ wakeAt \in Int
  /\ notified \in BOOLEAN
  /\ dispatch \in Seq(Messages)
  /\ current \in Messages
  /\ copy \subseteq Receivers
  /\ prune \in BOOLEAN
  /\ held \in Receivers \cup {Nil}
  /\ front \in Messages
  /\ pending \in [Callers -> Calls]
  /\ posted \in 0..MaxPosts

(***************************************************************************)
(* Every message handed to a handler comes later, in (due time, order of   *)
(* Enqueue), than the one handed over before it, and not before it is due: *)
(* nothing is handled twice, out of order or early, although the batch is  *)
(* handled outside the lock while other threads fill the list             *)
(* (Dispatch and Enqueue).                                                 *)
(***************************************************************************)
HandledInOrder ==
  [][current' # current => /\ Precedes(current, current')
                           /\ current'.time <= now]_vars

(***************************************************************************)
(* A message for a target that is no longer registered stays in the list   *)
(* only as long as some Unregister of that target has its Remove still to  *)
(* do: the two sections of Unregister leave no orphan behind, whatever     *)
(* posts and registrations come in between.                                *)
(***************************************************************************)
UnregisterDrains ==
  \A t \in Targets \ targets :
    (\E i \in DOMAIN queue : queue[i].target = t) =>
      \E c \in Callers : pending[c].op = "Remove" /\ pending[c].target = t

(***************************************************************************)
(* While the loop waits, it is notified or will wake by itself no later    *)
(* than the front of the list is due: Enqueue notifies only when the new   *)
(* message becomes the front, and that is enough.                          *)
(***************************************************************************)
NoLostWakeup ==
  pc = "waiting" /\ queue # <<>> =>
    notified \/ (wakeAt # Forever /\ wakeAt <= queue[1].time)

(***************************************************************************)
(* Debounce replaces what it finds in the list: of messages that are only  *)
(* ever debounced there are never more queued than threads, one for each   *)
(* thread that was between Debounce's Remove and its Post at the time.     *)
(***************************************************************************)
Queued(t, type) ==
  {i \in DOMAIN queue : queue[i].target = t /\ queue[i].type = type}

DebounceCoalesces ==
  \A t \in Targets, type \in DebounceTypes :
    Cardinality(Queued(t, type)) <= Cardinality(Callers)

(***************************************************************************)
(* When Dispatch returns before any iteration, no message in the list is   *)
(* due at the time it read: its comment says it goes on until a message    *)
(* that should be delivered in the future, or the queue is exhausted.      *)
(***************************************************************************)
NeverSkipsDue ==
  [][pc = "check" /\ pc' = "idle" =>
       \A i \in DOMAIN queue : queue[i].time > seen]_vars

(***************************************************************************)
(* The tail of Dispatch dereferences begin() only while the list has a     *)
(* front, which it looked at without the lock.                             *)
(***************************************************************************)
TailIsSafe == pc # "crashed"

(***************************************************************************)
(* A message is handed only to a target that is registered at that time:   *)
(* the sweep's comment says an unregistered target's messages are          *)
(* discarded.                                                              *)
(***************************************************************************)
HandledWhileRegistered ==
  [][current' # current => current'.target \in targets \cup {Nil}]_vars

(***************************************************************************)
(* Every accepted message is handled when nobody removes any: the loop     *)
(* sleeps, wakes and returns early, but strands nothing.                   *)
(***************************************************************************)
Undelivered(id) ==
  \/ \E i \in DOMAIN queue : queue[i].id = id
  \/ \E i \in DOMAIN dispatch : dispatch[i].id = id

EventuallyHandled ==
  \A id \in 1..MaxPosts : Undelivered(id) ~> (current.id = id)

(***************************************************************************)
(* A receiver that is registered and alive when a broadcast is in the      *)
(* batch gets it, unless it is unregistered or released before its turn.   *)
(***************************************************************************)
Broadcasting == \E i \in DOMAIN dispatch : dispatch[i].target = Nil

BroadcastReaches ==
  \A r \in Receivers :
    (Broadcasting /\ r \in receivers /\ r \in owned)
      ~> (held = r \/ r \notin receivers \/ r \notin owned)

(***************************************************************************)
(* A receiver that died without unregistering is pruned by the next        *)
(* broadcast, although dead weak_ptrs collapse in the set's copy.          *)
(***************************************************************************)
DeadArePruned ==
  \A r \in Receivers :
    (Broadcasting /\ r \in receivers /\ Expired(r)) ~> (r \notin receivers)

(* The queue as its clients see it. *)
Elements(s) == {s[i] : i \in DOMAIN s}

Mailbox == INSTANCE Mailbox WITH
  Times    <- 0..MaxTime,
  accepted <- posted,
  pending  <- Elements(dispatch) \cup Elements(queue),
  handled  <- current

(***************************************************************************)
(* The two-phase, multi-threaded dispatch implements the mailbox: every    *)
(* step of the code hands over the earliest pending message, accepts one,  *)
(* withdraws or discards what it may, or is invisible.                     *)
(***************************************************************************)
ImplementsMailbox == Mailbox!Spec

=============================================================================
