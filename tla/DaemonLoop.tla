----------------------------- MODULE DaemonLoop -----------------------------
(***************************************************************************)
(* f8n::daemon: EvMessageQueue, the message queue of a daemon.  It has the *)
(* list and the Dispatch of MessageQueue, but sleeps in a libev loop       *)
(* instead of on the condition variable.  Post wakes that loop: through a  *)
(* pipe when the message is due at once, with a timer of the loop when it  *)
(* is due later.  SIGTERM is turned into an event in the same pipe.        *)
(*                                                                         *)
(* The loop works in turns: it takes the time, finds the callbacks that    *)
(* are ready, runs them one after the other, and sleeps.  The time it took *)
(* is the one timers started in that turn count from.                      *)
(***************************************************************************)
EXTENDS MessageQueue

CONSTANTS
  ThreadApi,        (* What client threads call: starting a libev timer     *)
                    (* (a Post with a delay) is for the loop thread only.   *)
  PipeSize          (* Events the pipe holds.                               *)

ASSUME LoopAssumption ==
  /\ ThreadApi \subseteq Api
  /\ PipeSize \in Nat \ {0}
  /\ Nil \notin {"dispatch", "quit"}

VARIABLES
  ev,               (* "init": in OnInit; "running": in loop.run; "ended".  *)
  pipe,             (* The events in the pipe.                              *)
  writing,          (* Per caller, the event it is about to write, or Nil.  *)
  timers,           (* How many timers fire at each time of the loop's.     *)
  loopTime,         (* The time libev took at the start of the turn.        *)
  ready,            (* The callbacks this turn has left to run.             *)
  expired,          (* The timers among them, as in `timers`.               *)
  term,             (* SIGTERM: "none", "pending" (for the loop to see) or  *)
                    (* "seen".                                              *)
  quitting,         (* break_loop has been called.                          *)
  early             (* Messages whose timer was started late in a turn: it  *)
                    (* counts from the start of the turn, and so may fire   *)
                    (* before the message is due.                           *)

evVars  == <<ev, pipe, writing, timers, loopTime, ready, expired, term, quitting, early>>
allVars == <<vars, evVars>>

Events    == {"dispatch", "quit"}
Callbacks == {"pipe", "term"}

(* The pipe takes one more event. *)
HasRoom == Len(pipe) < PipeSize

(* A caller inside the queue's methods, or with a write to finish, is busy. *)
CanCallLoop(c, method) ==
  /\ ev # "ended"
  /\ writing[c] = Nil
  /\ c \in Threads => method \in ThreadApi
  /\ c = Loop /\ ev = "running" => pc = "handling"

(* Mutant: a message due now neither wakes the loop nor starts a timer. *)
WakesIfOverdue(delay) == delay < 0

WakesNow(delay) == delay <= 0

(* Bounds the number of timers, keeps them within MaxTime, and leaves room *)
(* for the message of a Debounce that has begun.                           *)
Fits(delay) ==
  /\ posted + Cardinality(Debouncing) < MaxPosts
  /\ delay > 0 => /\ loopTime + delay <= MaxTime
                  /\ timers[loopTime + delay] < MaxPosts

(***************************************************************************)
(* What EvMessageQueue::Post does after the queue's own Post, whether that *)
(* has accepted the message or not.                                        *)
(***************************************************************************)
WakeLoop(c, delay) ==
  /\ writing' = IF WakesNow(delay) THEN [writing EXCEPT ![c] = "dispatch"] ELSE writing
  /\ IF delay > 0
     THEN /\ c = Loop
          /\ timers' = [timers EXCEPT ![loopTime + delay] = @ + 1]
          /\ early' = IF posted' # posted /\ loopTime < now
                      THEN early \cup {posted'} ELSE early
     ELSE UNCHANGED <<timers, early>>
  /\ UNCHANGED <<ev, pipe, loopTime, ready, expired, term, quitting>>

EvPost(c, t, type, delay) ==
  /\ CanCallLoop(c, "Post")
  /\ Fits(delay)
  /\ Post(c, t, type, delay)
  /\ WakeLoop(c, delay)

(* The virtual Post in the second section of Debounce. *)
EvDebouncePost(c) ==
  /\ writing[c] = Nil
  /\ DebouncePost(c)
  /\ WakeLoop(c, pending[c].delay)

(* Broadcast is not overridden, and wakes nothing; nor do the others. *)
Quiet(c) ==
  /\ \/ /\ CanCallLoop(c, "Broadcast")
        /\ \E type \in Types \ DebounceTypes, d \in Delays : Fits(d) /\ Broadcast(c, type, d)
     \/ /\ CanCallLoop(c, "Debounce")
        /\ \E t \in Targets, type \in DebounceTypes, d \in Delays :
             Fits(d) /\ Debounce(c, t, type, d)
     \/ /\ CanCallLoop(c, "Remove")
        /\ \E t \in Targets, type \in Types \cup {AnyType} : Remove(c, t, type)
     \/ /\ CanCallLoop(c, "Register")
        /\ \E t \in Targets : Register(c, t)
     \/ /\ CanCallLoop(c, "Unregister")
        /\ \E t \in Targets : Unregister(c, t)
  /\ UNCHANGED evVars

(* Mutant: with the sizeof of a longer type, what is no event follows it. *)
TooMuchWritten(event) == Append(Append(pipe, event), Nil)

PipeAfterWrite(event) == Append(pipe, event)

(* write() blocks while the pipe is full. *)
WriteEvent(c) ==
  /\ writing[c] # Nil
  /\ HasRoom
  /\ pipe' = PipeAfterWrite(writing[c])
  /\ writing' = [writing EXCEPT ![c] = Nil]
  /\ UNCHANGED <<vars, ev, timers, loopTime, ready, expired, term, quitting, early>>

-----------------------------------------------------------------------------
(* The loop thread.                                                        *)

(* OnInit has returned: Run installs the watchers and writes an event.     *)
Run ==
  /\ ev = "init"
  /\ pc = "idle"
  /\ pending[Loop].op = "none"
  /\ writing[Loop] = Nil
  /\ ev' = "running"
  /\ writing' = [writing EXCEPT ![Loop] = "dispatch"]
  /\ UNCHANGED <<vars, pipe, timers, loopTime, ready, expired, term, quitting, early>>

(* The loop thread is between two callbacks. *)
AtRest == ev = "running" /\ pc = "idle" /\ writing[Loop] = Nil

NoTimers   == [t \in 0..MaxTime |-> 0]
TurnIsOver == ready = {} /\ expired = NoTimers

Expiring == {t \in DOMAIN timers : t <= now /\ timers[t] > 0}

ReadyCallbacks ==
  {x \in Callbacks : (x = "pipe" /\ pipe # <<>>) \/ (x = "term" /\ term = "pending")}

(* A turn of the loop begins when one of its watchers is ready. *)
BeginTurn ==
  /\ AtRest
  /\ TurnIsOver
  /\ ~quitting
  /\ ReadyCallbacks # {} \/ Expiring # {}
  /\ loopTime' = now
  /\ ready' = ReadyCallbacks
  /\ expired' = [t \in 0..MaxTime |-> IF t \in Expiring THEN timers[t] ELSE 0]
  /\ timers' = [t \in 0..MaxTime |-> IF t \in Expiring THEN 0 ELSE timers[t]]
  /\ term' = IF term = "pending" THEN "seen" ELSE term
  /\ UNCHANGED <<vars, ev, pipe, writing, quitting, early>>

(* Mutant: reading an event empties the pipe. *)
PipeDrained == <<>>

PipeAfterRead == Tail(pipe)

(* ReadCallback takes one event, however many there are. *)
ReadCallback ==
  /\ AtRest
  /\ "pipe" \in ready
  /\ ready' = ready \ {"pipe"}
  /\ pipe' = PipeAfterRead
  /\ IF Head(pipe) = "dispatch"
     THEN DispatchNow /\ UNCHANGED quitting
     ELSE quitting' = TRUE /\ UNCHANGED vars
  /\ UNCHANGED <<ev, writing, timers, loopTime, expired, term, early>>

DelayedDispatch ==
  /\ AtRest
  /\ \E t \in 0..MaxTime : expired[t] > 0 /\ expired' = [expired EXCEPT ![t] = @ - 1]
  /\ DispatchNow
  /\ UNCHANGED <<ev, pipe, writing, timers, loopTime, ready, term, quitting, early>>

(* Libev calls it on the loop thread, whichever thread got the signal. *)
SignalQuit ==
  /\ AtRest
  /\ "term" \in ready
  /\ ready' = ready \ {"term"}
  /\ writing' = [writing EXCEPT ![Loop] = "quit"]
  /\ UNCHANGED <<vars, ev, pipe, timers, loopTime, expired, term, quitting, early>>

(* The break counts when the callbacks of the turn have run. *)
EndLoop ==
  /\ AtRest
  /\ TurnIsOver
  /\ quitting
  /\ ev' = "ended"
  /\ UNCHANGED <<vars, pipe, writing, timers, loopTime, ready, expired, term, quitting,
                 early>>

(* The steps of Dispatch; WaitAndDispatch is not called here. *)
DispatchStep ==
  /\ writing[Loop] = Nil
  /\ \/ ReadClock \/ CheckNextTime \/ Sweep \/ HandleTargeted \/ BeginBroadcast
     \/ \E r \in Receivers : VisitReceiver(r)
     \/ EndHandle \/ EndBroadcast \/ EndBatch
     \/ ReadSize \/ ReadFront \/ StoreNextTime
  /\ UNCHANGED evVars

-----------------------------------------------------------------------------

(* stopDaemon's SIGTERM, once; before Run it ends the process at once. *)
Terminate ==
  /\ ev = "running"
  /\ term = "none"
  /\ term' = "pending"
  /\ UNCHANGED <<vars, ev, pipe, writing, timers, loopTime, ready, expired, quitting, early>>

PassTime == Tick /\ UNCHANGED evVars

(* Nothing has been handled: of what type it was makes no difference. *)
EvInit ==
  /\ Init
  /\ current.type = CHOOSE type \in Types : TRUE
  /\ ev = "init"
  /\ pipe = <<>>
  /\ writing = [c \in Callers |-> Nil]
  /\ timers = NoTimers
  /\ loopTime = now
  /\ ready = {}
  /\ expired = NoTimers
  /\ term = "none"
  /\ quitting = FALSE
  /\ early = {}

EvClient(c) ==
  \/ \E t \in Targets, type \in Types \ DebounceTypes, d \in Delays : EvPost(c, t, type, d)
  \/ Quiet(c)

(* A call that has begun goes on. *)
EvResume(c) ==
  \/ EvDebouncePost(c)
  \/ UnregisterRemove(c) /\ UNCHANGED evVars
  \/ WriteEvent(c)

EvLoop ==
  \/ Run \/ BeginTurn \/ ReadCallback \/ DelayedDispatch \/ SignalQuit \/ EndLoop
  \/ DispatchStep

EvNext ==
  \/ EvLoop
  \/ \E c \in Callers : EvClient(c) \/ EvResume(c)
  \/ Terminate
  \/ PassTime

EvSpec == EvInit /\ [][EvNext]_allVars

(* Writes and methods are finished, and OnInit and the handlers return,    *)
(* however often the calls they make keep them from it meanwhile.          *)
EvLiveSpec ==
  /\ EvSpec
  /\ SF_allVars(EvLoop)
  /\ \A c \in Callers : WF_allVars(EvResume(c))
  /\ WF_allVars(PassTime)

-----------------------------------------------------------------------------
(* Properties.                                                             *)

EvTypeOK ==
  /\ TypeOK
  /\ ev \in {"init", "running", "ended"}
  /\ pipe \in Seq(Events) /\ Len(pipe) <= PipeSize
  /\ writing \in [Callers -> Events \cup {Nil}]
  /\ timers \in [0..MaxTime -> 0..MaxPosts]
  /\ loopTime \in 0..now
  /\ ready \subseteq Callbacks
  /\ expired \in [0..MaxTime -> 0..MaxPosts]
  /\ term \in {"none", "pending", "seen"}
  /\ quitting \in BOOLEAN
  /\ early \subseteq 1..MaxPosts

(* The loop thread, the only reader, waits for room in the pipe. *)
LoopBlocked == writing[Loop] # Nil /\ ~HasRoom

(* Nothing wakes the loop for a broadcast, and a timer that was started    *)
(* late in a turn may do it too soon.                                      *)
Silent(m) == m.target = Nil \/ m.id \in early

(* The loop is on its way to handling m, or something will send it there:  *)
(* an event, for what is due, or a timer that fires when m is due or later.*)
Heard(m) ==
  \/ /\ m.time <= now
     /\ \/ pc = "dispatch"
        \/ "dispatch" \in Elements(pipe)
        \/ \E c \in Callers : writing[c] = "dispatch"
  \/ m.time <= seen /\ pc \in {"check", "sweep"}
  \/ \E t \in 0..MaxTime : t >= m.time /\ (timers[t] > 0 \/ expired[t] > 0)

(* The loop is asleep, m is due, and the list holds a later silent         *)
(* message: its time may have been stored over that of m, and a broadcast  *)
(* since may have stored another, without waking the loop for it either.   *)
Overslept(m) ==
  /\ pc = "idle" /\ ev # "init" /\ m.time <= now
  /\ \E f \in Elements(queue) : Silent(f) /\ f.time > m.time

(***************************************************************************)
(* The loop neither dies reading the tail of the list nor turns a deaf ear *)
(* to a posted message: though Post wakes it outside the queue's mutex,    *)
(* one event stands for any number of messages, and Dispatch returns early *)
(* on a time that may be stale, something is left to wake it - but where   *)
(* a later message that nothing wakes it for is in the list with it.       *)
(***************************************************************************)
LoopHears ==
  /\ pc # "crashed"
  /\ \A m \in Elements(queue) : Silent(m) \/ Heard(m) \/ Overslept(m)

Posted(id) == \E m \in Elements(queue) \cup Elements(dispatch) :
                 m.id = id /\ m.target # Nil

Undeliverable(id) ==
  \E m \in Elements(queue) : m.id = id /\ (Silent(m) \/ (Overslept(m) /\ ~Heard(m)))

(***************************************************************************)
(* Every posted message leaves the list, handled, or discarded with its    *)
(* target gone.  It takes SIGTERM, one of the cases LoopHears names, or    *)
(* the loop thread writing to its own full pipe, to keep one there.        *)
(***************************************************************************)
PostWakesLoop ==
  \A id \in 1..MaxPosts :
    Posted(id) ~> (~Undelivered(id) \/ quitting \/ Undeliverable(id) \/ LoopBlocked)

(***************************************************************************)
(* SIGTERM ends the loop, behind the events that were in the pipe, unless  *)
(* the loop thread is writing to its own full pipe.                        *)
(***************************************************************************)
TermEndsLoop == (term = "pending") ~> (ev = "ended" \/ LoopBlocked)

=============================================================================
