-------------------------- MODULE DaemonLoopProofs --------------------------
(***************************************************************************)
(* The daemon's queue is a message queue: what pipe, timers and signals    *)
(* add never changes the list, and so all that MessageQueueProofs shows of *)
(* the queue holds of the daemon's, for any number of threads, targets and *)
(* messages and a pipe of any size.  And they do what they are for: with   *)
(* a message in the list something is left that will wake the loop.        *)
(***************************************************************************)
EXTENDS DaemonLoop, MessageQueueProofs

LEMMA ClientIsQueue ==
  ASSUME NEW c \in Callers, EvClient(c) \/ EvResume(c)
  PROVE  [Next]_vars
<1>1. ASSUME NEW t \in Targets, NEW type \in Types \ DebounceTypes, NEW d \in Delays,
             EvPost(c, t, type, d)
      PROVE  Next
  BY <1>1 DEF EvPost, Next, ClientStep
<1>2. CASE Quiet(c)
  BY <1>2 DEF Quiet, Next, ClientStep
<1>3. CASE EvResume(c)
  BY <1>3 DEF EvResume, EvDebouncePost, WriteEvent, Next, Resume
<1> QED
  BY <1>1, <1>2, <1>3 DEF EvClient

LEMMA LoopIsQueue ==
  ASSUME EvLoop
  PROVE  [Next]_vars
<1>1. CASE DispatchStep
  BY <1>1 DEF DispatchStep, Next, LoopStep
<1>2. CASE ReadCallback \/ DelayedDispatch
  BY <1>2 DEF ReadCallback, DelayedDispatch, Next
<1>3. CASE Run \/ BeginTurn \/ SignalQuit \/ EndLoop
  BY <1>3 DEF Run, BeginTurn, SignalQuit, EndLoop
<1> QED
  BY <1>1, <1>2, <1>3 DEF EvLoop

LEMMA LoopStepIsQueueStep ==
  ASSUME [EvNext]_allVars
  PROVE  [Next]_vars
<1>1. CASE EvNext
  <2>1. CASE EvLoop
    BY <2>1, LoopIsQueue
  <2>2. CASE \E c \in Callers : EvClient(c) \/ EvResume(c)
    BY <2>2, ClientIsQueue
  <2>3. CASE Terminate \/ PassTime
    BY <2>3 DEF Terminate, PassTime, Next
  <2> QED
    BY <1>1, <2>1, <2>2, <2>3 DEF EvNext
<1>2. CASE UNCHANGED allVars
  BY <1>2 DEF allVars
<1> QED
  BY <1>1, <1>2

(***************************************************************************)
(* Every behaviour of the daemon's loop is one of the message queue: the   *)
(* loop calls Dispatch when the pipe or a timer says so, where other       *)
(* applications call WaitAndDispatch.                                      *)
(***************************************************************************)
THEOREM LoopUsesQueue == EvSpec => Spec
<1>1. EvInit => Init
  BY DEF EvInit
<1>2. [EvNext]_allVars => [Next]_vars
  BY LoopStepIsQueueStep
<1> QED
  BY <1>1, <1>2, PTL DEF EvSpec, Spec

(***************************************************************************)
(* The daemon's queue is an atomic mailbox for those who use it: messages  *)
(* are handed over once, when due and in order.                            *)
(***************************************************************************)
THEOREM DaemonImplementsMailbox == EvSpec => ImplementsMailbox
  BY LoopUsesQueue, QueueImplementsMailbox, PTL

(***************************************************************************)
(* A target that unregisters leaves no message behind, in a daemon either. *)
(***************************************************************************)
THEOREM DaemonLeavesNoOrphans == EvSpec => []UnregisterDrains
  BY LoopUsesQueue, NoOrphans, PTL

-----------------------------------------------------------------------------
(* The loop's own variables keep to their types.                           *)

(***************************************************************************)
(* Why ReadCallback finds an event, why every timer finds its place, and   *)
(* where the loop thread is when it has half of a call left to do.         *)
(***************************************************************************)
LoopIsWhole ==
  /\ "pipe" \in ready => pipe # <<>>
  /\ ev = "init" => pc = "idle"
  /\ pending[Loop].op # "none" => ev = "init" \/ pc = "handling"
  /\ \A d \in Delays :
       pending[Loop].op = "Post" /\ pending[Loop].delay = d /\ d > 0 =>
         loopTime + d <= MaxTime /\ timers[loopTime + d] < MaxPosts
  /\ \A t \in 0..MaxTime : expired[t] > 0 => t <= now

EvIInv == EvTypeOK /\ InOrder /\ LoopIsWhole

(* A client's step gives no more than one message its number. *)
LEMMA PostsOne ==
  ASSUME TypeOK, NEW c \in Callers, ClientStep(c) \/ Resume(c)
  PROVE  posted' \in {posted, posted + 1} /\ UNCHANGED <<now, pc>>
<1>1. UNCHANGED <<now, pc>>
  BY ClientEffect DEF loopVars
<1>2. ASSUME NEW m \in Messages, NEW p \in 1..Len(queue) + 1, Inserted(m, p)
      PROVE  posted' = posted + 1
  BY <1>2 DEF Inserted
<1>3. ASSUME NEW t, NEW type, RemoveSection(t, type)
      PROVE  posted' = posted
  BY <1>3 DEF RemoveSection
<1> QED
  BY <1>1, <1>2, <1>3, ClientEffect DEF listVars

(* The list's side of a step of the loop. *)
LEMMA QueueSide ==
  ASSUME TypeOK, InOrder, [EvNext]_allVars
  PROVE  TypeOK' /\ InOrder'
BY LoopStepIsQueueStep, TypeStep, InOrderStep

(* Post writes an event, or starts a timer, where there is room for it. *)
LEMMA WakeLoopType ==
  ASSUME EvIInv, NEW c \in Callers, NEW delay \in Delays, WakeLoop(c, delay),
         posted' \in {posted, posted + 1}, posted' \in 0..MaxPosts,
         c = Loop /\ delay > 0 =>
           loopTime + delay <= MaxTime /\ timers[loopTime + delay] < MaxPosts
  PROVE  /\ writing' \in [Callers -> Events \cup {Nil}]
         /\ timers' \in [0..MaxTime -> 0..MaxPosts]
         /\ early' \subseteq 1..MaxPosts
         /\ UNCHANGED <<ev, pipe, loopTime, ready, expired, term, quitting>>
         /\ c # Loop => UNCHANGED timers
<1>1. /\ writing \in [Callers -> Events \cup {Nil}]
      /\ timers \in [0..MaxTime -> 0..MaxPosts]
      /\ early \subseteq 1..MaxPosts
      /\ loopTime \in 0..now /\ now \in 0..MaxTime /\ posted \in 0..MaxPosts
      /\ MaxTime \in Nat /\ MaxPosts \in Nat /\ Delays \subseteq Int
  BY QueueAssumption DEF EvIInv, EvTypeOK, TypeOK
<1>2. writing' \in [Callers -> Events \cup {Nil}]
  BY <1>1 DEF WakeLoop, Events
<1>3. UNCHANGED <<ev, pipe, loopTime, ready, expired, term, quitting>>
  BY DEF WakeLoop
<1>4. CASE delay > 0
  <2>1. /\ c = Loop
        /\ timers' = [timers EXCEPT ![loopTime + delay] = @ + 1]
        /\ early' = IF posted' # posted /\ loopTime < now
                    THEN early \cup {posted'} ELSE early
    BY <1>4 DEF WakeLoop
  <2>2. loopTime + delay \in 0..MaxTime /\ timers[loopTime + delay] + 1 \in 0..MaxPosts
    BY <1>1, <1>4, <2>1
  <2>3. timers' \in [0..MaxTime -> 0..MaxPosts]
    BY <1>1, <2>1, <2>2
  <2>4. early' \subseteq 1..MaxPosts
    <3>1. posted' # posted => posted' \in 1..MaxPosts
      BY <1>1
    <3> QED BY <1>1, <2>1, <3>1
  <2> QED
    BY <1>2, <1>3, <2>1, <2>3, <2>4
<1>5. CASE ~(delay > 0)
  BY <1>1, <1>2, <1>3, <1>5 DEF WakeLoop
<1> QED
  BY <1>4, <1>5

(* The parts of EvTypeOK that are about the loop's own variables. *)
LoopTypes ==
  /\ ev \in {"init", "running", "ended"}
  /\ pipe \in Seq(Events) /\ Len(pipe) <= PipeSize
  /\ writing \in [Callers -> Events \cup {Nil}]
  /\ timers \in [0..MaxTime -> 0..MaxPosts]
  /\ loopTime \in 0..now
  /\ ready \subseteq Callbacks
  /\ expired \in [0..MaxTime -> 0..MaxPosts]
  /\ term \in {"none", "pending", "seen"}
  /\ quitting \in BOOLEAN
  /\ early \subseteq 1..MaxPosts

(* A client's calls start no timer there is no room for. *)
LEMMA ClientKeepsTypes ==
  ASSUME EvIInv, NEW c \in Callers, EvClient(c) \/ EvResume(c),
         TypeOK'
  PROVE  LoopTypes' /\ LoopIsWhole'
<1> USE DEF evVars
<1>1. /\ TypeOK /\ LoopTypes /\ LoopIsWhole
      /\ Loop \in Callers /\ pending \in [Callers -> Calls]
      /\ Delays \subseteq Int
  BY QueueAssumption DEF EvIInv, EvTypeOK, LoopTypes, Callers, TypeOK
<1>2. ASSUME UNCHANGED evVars, UNCHANGED <<now, pc>>, pending'[Loop] = pending[Loop]
      PROVE  LoopTypes' /\ LoopIsWhole'
  <2>1. LoopTypes'
    BY <1>1, <1>2 DEF LoopTypes
  <2>2. LoopIsWhole'
    BY <1>1, <1>2 DEF LoopIsWhole
  <2> QED BY <2>1, <2>2
<1>3. ASSUME NEW d \in Delays, WakeLoop(c, d), ClientStep(c) \/ Resume(c),
             c = Loop /\ d > 0 =>
               loopTime + d <= MaxTime /\ timers[loopTime + d] < MaxPosts,
             c = Loop => pending'[Loop].op = "none",
             c # Loop => pending'[Loop] = pending[Loop]
      PROVE  LoopTypes' /\ LoopIsWhole'
  <2>1. posted' \in {posted, posted + 1} /\ UNCHANGED <<now, pc>>
    BY <1>1, <1>3, PostsOne
  <2>2. posted' \in 0..MaxPosts
    BY DEF TypeOK
  <2>3. /\ writing' \in [Callers -> Events \cup {Nil}]
        /\ timers' \in [0..MaxTime -> 0..MaxPosts]
        /\ early' \subseteq 1..MaxPosts
        /\ UNCHANGED <<ev, pipe, loopTime, ready, expired, term, quitting>>
        /\ c # Loop => UNCHANGED timers
    BY <1>3, <2>1, <2>2, WakeLoopType
  <2>4. LoopTypes'
    BY <1>1, <2>1, <2>3 DEF LoopTypes
  <2>5. LoopIsWhole'
    <3>1. /\ ("pipe" \in ready => pipe # <<>>)'
          /\ (ev = "init" => pc = "idle")'
          /\ (\A t \in 0..MaxTime : expired[t] > 0 => t <= now)'
      BY <1>1, <2>1, <2>3 DEF LoopIsWhole
    <3>2. CASE c = Loop
      BY <1>3, <3>1, <3>2 DEF LoopIsWhole
    <3>3. CASE c # Loop
      BY <1>1, <1>3, <2>1, <2>3, <3>1, <3>3 DEF LoopIsWhole
    <3> QED BY <3>2, <3>3
  <2> QED BY <2>4, <2>5
<1>4. ASSUME NEW t \in Targets, NEW type \in Types \ DebounceTypes, NEW d \in Delays,
             EvPost(c, t, type, d)
      PROVE  LoopTypes' /\ LoopIsWhole'
  <2>1. Post(c, t, type, d) /\ WakeLoop(c, d) /\ Fits(d)
    BY <1>4 DEF EvPost
  <2>2. pending[c].op = "none" /\ UNCHANGED pending
    BY <2>1 DEF Post, CanCall
  <2>3. ClientStep(c)
    BY <2>1 DEF ClientStep
  <2>4. d > 0 => loopTime + d <= MaxTime /\ timers[loopTime + d] < MaxPosts
    BY <2>1 DEF Fits
  <2> QED
    BY <1>3, <2>1, <2>2, <2>3, <2>4
<1>5. CASE EvDebouncePost(c)
  <2>1. DebouncePost(c) /\ WakeLoop(c, pending[c].delay)
    BY <1>5 DEF EvDebouncePost
  <2>2. pending[c].op = "Post" /\ pending' = [pending EXCEPT ![c] = NoCall]
    BY <2>1 DEF DebouncePost
  <2>3. pending[c].delay \in Delays
    BY <1>1, <2>2 DEF Calls
  <2>4. c = Loop => pending'[Loop].op = "none"
    BY <1>1, <2>2 DEF NoCall, Call
  <2>5. c # Loop => pending'[Loop] = pending[Loop]
    BY <1>1, <2>2
  <2>6. c = Loop /\ pending[c].delay > 0 =>
          /\ loopTime + pending[c].delay <= MaxTime
          /\ timers[loopTime + pending[c].delay] < MaxPosts
    BY <1>1, <2>2, <2>3 DEF LoopIsWhole
  <2> QED
    BY <1>3, <2>1, <2>3, <2>4, <2>5, <2>6 DEF Resume
<1>6. CASE Quiet(c)
  <2>1. ClientStep(c) /\ UNCHANGED evVars
    BY <1>6 DEF Quiet, ClientStep
  <2>2. UNCHANGED <<now, pc>>
    BY <1>1, <2>1, PostsOne
  <2>3. CASE pending'[Loop] = pending[Loop]
    BY <1>2, <2>1, <2>2, <2>3
  <2>4. CASE pending'[Loop] # pending[Loop]
    <3>1. /\ c = Loop /\ (ev = "init" \/ pc = "handling")
          /\ \/ \E t \in Targets, type \in DebounceTypes, d \in Delays :
                  /\ Fits(d)
                  /\ pending'[Loop] = Call("Post", t, type, d)
             \/ \E t \in Targets : pending'[Loop] = Call("Remove", t, AnyType, 0)
      <4>1. ASSUME NEW t \in Targets, NEW type \in DebounceTypes, NEW d \in Delays,
                   CanCallLoop(c, "Debounce"), Fits(d), Debounce(c, t, type, d)
            PROVE  /\ c = Loop /\ CanCallLoop(c, "Debounce")
                   /\ Fits(d) /\ pending'[Loop] = Call("Post", t, type, d)
        BY <1>1, <2>4, <4>1 DEF Debounce
      <4>2. ASSUME NEW t \in Targets, CanCallLoop(c, "Unregister"), Unregister(c, t)
            PROVE  /\ c = Loop /\ CanCallLoop(c, "Unregister")
                   /\ pending'[Loop] = Call("Remove", t, AnyType, 0)
        BY <1>1, <2>4, <4>2 DEF Unregister
      <4>3. ASSUME NEW t \in Targets, Register(c, t) PROVE FALSE
        BY <2>4, <4>3 DEF Register
      <4>4. ASSUME NEW type, NEW d, Broadcast(c, type, d) PROVE FALSE
        BY <2>4, <4>4 DEF Broadcast
      <4>5. ASSUME NEW t, NEW type, Remove(c, t, type) PROVE FALSE
        BY <2>4, <4>5 DEF Remove
      <4>6. \/ \E t \in Targets, type \in DebounceTypes, d \in Delays :
                 /\ c = Loop /\ CanCallLoop(c, "Debounce") /\ Fits(d)
                 /\ pending'[Loop] = Call("Post", t, type, d)
            \/ \E t \in Targets : /\ c = Loop /\ CanCallLoop(c, "Unregister")
                                  /\ pending'[Loop] = Call("Remove", t, AnyType, 0)
        BY <1>6, <4>1, <4>2, <4>3, <4>4, <4>5 DEF Quiet
      <4>7. c = Loop /\ (ev = "init" \/ pc = "handling")
        BY <1>1, <4>6 DEF CanCallLoop, LoopTypes
      <4> QED
        BY <4>6, <4>7
    <3>2. LoopTypes'
      BY <1>1, <2>1, <2>2 DEF LoopTypes
    <3>3. \A d \in Delays :
            pending'[Loop].op = "Post" /\ pending'[Loop].delay = d /\ d > 0 =>
              loopTime + d <= MaxTime /\ timers[loopTime + d] < MaxPosts
      <4>1. ASSUME NEW t, NEW type, NEW e \in Delays, Fits(e),
                   pending'[Loop] = Call("Post", t, type, e)
            PROVE  \A d \in Delays :
                     pending'[Loop].op = "Post" /\ pending'[Loop].delay = d /\ d > 0 =>
                       loopTime + d <= MaxTime /\ timers[loopTime + d] < MaxPosts
        BY <4>1 DEF Fits, Call
      <4>2. ASSUME NEW t, pending'[Loop] = Call("Remove", t, AnyType, 0)
            PROVE  pending'[Loop].op # "Post"
        BY <4>2 DEF Call
      <4> QED BY <3>1, <4>1, <4>2
    <3>4. LoopIsWhole'
      BY <1>1, <2>1, <2>2, <3>1, <3>3 DEF LoopIsWhole
    <3> QED
      BY <3>2, <3>4
  <2> QED BY <2>3, <2>4
<1>7. CASE UnregisterRemove(c) /\ UNCHANGED evVars
  <2>1. UNCHANGED <<now, pc>>
    BY <1>1, <1>7, PostsOne DEF Resume
  <2>2. pending' = [pending EXCEPT ![c] = NoCall]
    BY <1>7 DEF UnregisterRemove
  <2>3. CASE c # Loop
    BY <1>1, <1>2, <1>7, <2>1, <2>2, <2>3
  <2>4. CASE c = Loop
    <3>1. pending'[Loop].op = "none"
      BY <1>1, <2>2, <2>4 DEF NoCall, Call
    <3>2. LoopTypes'
      BY <1>1, <1>7, <2>1 DEF LoopTypes
    <3>3. LoopIsWhole'
      BY <1>1, <1>7, <2>1, <3>1 DEF LoopIsWhole
    <3> QED BY <3>2, <3>3
  <2> QED BY <2>3, <2>4
<1>8. CASE WriteEvent(c)
  <2>1. /\ writing[c] \in Events
        /\ pipe' = Append(pipe, writing[c])
        /\ writing' = [writing EXCEPT ![c] = Nil]
        /\ Len(pipe) < PipeSize
        /\ UNCHANGED <<vars, ev, timers, loopTime, ready, expired, term, quitting, early>>
    BY <1>1, <1>8 DEF WriteEvent, PipeAfterWrite, HasRoom, LoopTypes
  <2>2. UNCHANGED <<now, pc, pending>>
    BY <2>1 DEF vars, loopVars
  <2>3. pipe' \in Seq(Events) /\ Len(pipe') = Len(pipe) + 1 /\ Len(pipe) \in Nat
    BY <1>1, <2>1, AppendProperties, LenProperties DEF LoopTypes
  <2>4. Len(pipe') <= PipeSize /\ pipe' # <<>>
    BY <2>1, <2>3, LoopAssumption, EmptySeq
  <2>5. LoopTypes'
    BY <1>1, <2>1, <2>2, <2>3, <2>4 DEF LoopTypes
  <2>6. LoopIsWhole'
    BY <1>1, <2>1, <2>2, <2>4 DEF LoopIsWhole
  <2> QED BY <2>5, <2>6
<1> QED
  BY <1>4, <1>5, <1>6, <1>7, <1>8 DEF EvClient, EvResume

(* The loop reads an event where there is one, and time only goes on. *)
LEMMA LoopKeepsTypes ==
  ASSUME EvIInv, EvLoop \/ Terminate \/ PassTime, TypeOK'
  PROVE  LoopTypes' /\ LoopIsWhole'
<1> USE DEF evVars
<1>1. /\ TypeOK /\ LoopTypes /\ LoopIsWhole
      /\ Loop \in Callers /\ pending \in [Callers -> Calls]
      /\ now \in 0..MaxTime /\ MaxTime \in Nat /\ MaxPosts \in Nat
  BY QueueAssumption DEF EvIInv, EvTypeOK, LoopTypes, Callers, TypeOK
<1>2. CASE Run
  <2>1. /\ UNCHANGED <<vars, pipe, timers, loopTime, ready, expired, term, quitting, early>>
        /\ ev' = "running" /\ writing' = [writing EXCEPT ![Loop] = "dispatch"]
        /\ pending[Loop].op = "none"
    BY <1>2 DEF Run
  <2>2. UNCHANGED <<now, pc, pending>>
    BY <2>1 DEF vars, loopVars
  <2>3. LoopTypes'
    BY <1>1, <2>1, <2>2 DEF LoopTypes, Events
  <2>4. LoopIsWhole'
    BY <1>1, <2>1, <2>2 DEF LoopIsWhole
  <2> QED BY <2>3, <2>4
<1>3. ASSUME AtRest
      PROVE  ev = "running" /\ pc = "idle" /\ writing[Loop] = Nil
             /\ pending[Loop].op = "none"
  BY <1>1, <1>3 DEF AtRest, LoopIsWhole
<1>4. CASE BeginTurn
  <2>1. /\ AtRest
        /\ UNCHANGED <<vars, ev, pipe, writing, quitting, early>>
        /\ loopTime' = now /\ ready' = ReadyCallbacks
        /\ expired' = [t \in 0..MaxTime |-> IF t \in Expiring THEN timers[t] ELSE 0]
        /\ timers' = [t \in 0..MaxTime |-> IF t \in Expiring THEN 0 ELSE timers[t]]
        /\ term' = IF term = "pending" THEN "seen" ELSE term
    BY <1>4 DEF BeginTurn
  <2>2. UNCHANGED <<now, pc, pending>>
    BY <2>1 DEF vars, loopVars
  <2>3. /\ expired' \in [0..MaxTime -> 0..MaxPosts]
        /\ timers' \in [0..MaxTime -> 0..MaxPosts]
    BY <1>1, <2>1 DEF LoopTypes
  <2>4. ready' \subseteq Callbacks /\ ("pipe" \in ready' => pipe # <<>>)
    BY <2>1 DEF ReadyCallbacks
  <2>5. loopTime' \in 0..now
    BY <1>1, <2>1
  <2>6. LoopTypes'
    BY <1>1, <2>1, <2>2, <2>3, <2>4, <2>5 DEF LoopTypes
  <2>7. \A t \in 0..MaxTime : expired'[t] > 0 => t <= now
    BY <2>1 DEF Expiring
  <2>8. LoopIsWhole'
    BY <1>1, <1>3, <2>1, <2>2, <2>4, <2>7 DEF LoopIsWhole
  <2> QED BY <2>6, <2>8
<1>5. CASE ReadCallback
  <2>1. /\ AtRest /\ "pipe" \in ready
        /\ ready' = ready \ {"pipe"} /\ pipe' = Tail(pipe)
        /\ UNCHANGED <<ev, writing, timers, loopTime, expired, term, early>>
    BY <1>5 DEF ReadCallback, PipeAfterRead
  <2>2. UNCHANGED <<now, pending>>
    BY <1>5 DEF ReadCallback, DispatchNow, vars
  <2>3. pipe # <<>> /\ pipe \in Seq(Events)
    BY <1>1, <2>1 DEF LoopIsWhole, LoopTypes
  <2>4. pipe' \in Seq(Events) /\ Len(pipe') = Len(pipe) - 1 /\ Len(pipe) \in Nat
    BY <2>1, <2>3, HeadTailProperties, LenProperties
  <2>5. Len(pipe') <= PipeSize
    BY <1>1, <2>4, LoopAssumption DEF LoopTypes
  <2>6. quitting' = quitting \/ quitting' = TRUE
    BY <1>5 DEF ReadCallback
  <2>7. quitting' \in BOOLEAN
    BY <1>1, <2>6 DEF LoopTypes
  <2>8. LoopTypes'
    BY <1>1, <2>1, <2>2, <2>4, <2>5, <2>7 DEF LoopTypes
  <2>9. LoopIsWhole'
    BY <1>1, <1>3, <2>1, <2>2 DEF LoopIsWhole
  <2> QED BY <2>8, <2>9
<1>6. CASE DelayedDispatch
  <2>1. /\ AtRest
        /\ UNCHANGED <<ev, pipe, writing, timers, loopTime, ready, term, quitting, early>>
    BY <1>6 DEF DelayedDispatch
  <2>2. UNCHANGED <<now, pending>>
    BY <1>6 DEF DelayedDispatch, DispatchNow
  <2>3. PICK t \in 0..MaxTime : expired[t] > 0 /\ expired' = [expired EXCEPT ![t] = @ - 1]
    BY <1>6 DEF DelayedDispatch
  <2>4. expired' \in [0..MaxTime -> 0..MaxPosts]
    BY <1>1, <2>3 DEF LoopTypes
  <2>5. \A u \in 0..MaxTime : expired'[u] > 0 => u <= now
    BY <1>1, <2>3 DEF LoopIsWhole, LoopTypes
  <2>6. LoopTypes'
    BY <1>1, <2>1, <2>2, <2>4 DEF LoopTypes
  <2>7. LoopIsWhole'
    BY <1>1, <1>3, <2>1, <2>2, <2>5 DEF LoopIsWhole
  <2> QED BY <2>6, <2>7
<1>7. CASE SignalQuit \/ EndLoop \/ Terminate
  <2>1. /\ UNCHANGED <<vars, pipe, timers, loopTime, expired, quitting, early>>
        /\ ready' \subseteq ready
        /\ ev' = ev \/ (AtRest /\ ev' = "ended")
        /\ writing' = writing \/ writing' = [writing EXCEPT ![Loop] = "quit"]
        /\ term' = term \/ term' = "pending"
    BY <1>7 DEF SignalQuit, EndLoop, Terminate
  <2>2. UNCHANGED <<now, pc, pending>>
    BY <2>1 DEF vars, loopVars
  <2>3. LoopTypes'
    BY <1>1, <2>1, <2>2 DEF LoopTypes, Events
  <2>4. LoopIsWhole'
    BY <1>1, <1>3, <2>1, <2>2 DEF LoopIsWhole
  <2> QED BY <2>3, <2>4
<1>8. CASE DispatchStep
  <2>1. UNCHANGED evVars /\ UNCHANGED <<now, pending>>
    BY <1>8 DEF DispatchStep, ReadClock, CheckNextTime, Sweep, HandleTargeted,
       BeginBroadcast, VisitReceiver, EndHandle, EndBroadcast, EndBatch, ReadSize,
       ReadFront, StoreNextTime
  <2>2. /\ pc # "idle"
        /\ pc = "handling" => pending[Loop].op = "none"
    BY <1>8 DEF DispatchStep, ReadClock, CheckNextTime, Sweep, HandleTargeted,
       BeginBroadcast, VisitReceiver, EndHandle, EndBroadcast, EndBatch, ReadSize,
       ReadFront, StoreNextTime, Goto
  <2>3. LoopTypes'
    BY <1>1, <2>1 DEF LoopTypes
  <2>4. LoopIsWhole'
    BY <1>1, <2>1, <2>2 DEF LoopIsWhole
  <2> QED BY <2>3, <2>4
<1>9. CASE PassTime
  <2>1. UNCHANGED evVars /\ UNCHANGED <<pending, pc>> /\ now' = now + 1
    BY <1>9 DEF PassTime, Tick, loopVars
  <2>2. loopTime' \in 0..now' /\ now < now' /\ now' \in Nat
    BY <1>1, <2>1 DEF LoopTypes
  <2>3. LoopTypes'
    BY <1>1, <2>1, <2>2 DEF LoopTypes
  <2>4. LoopIsWhole'
    <3>1. \A t \in 0..MaxTime : expired[t] > 0 => t <= now'
      BY <1>1, <2>2 DEF LoopIsWhole
    <3> QED
      BY <1>1, <2>1, <3>1 DEF LoopIsWhole
  <2> QED BY <2>3, <2>4
<1> QED
  BY <1>2, <1>4, <1>5, <1>6, <1>7, <1>8, <1>9 DEF EvLoop

(* Every step keeps the types of the loop and what it is made of. *)
LEMMA EvIInvStep ==
  ASSUME EvIInv, [EvNext]_allVars
  PROVE  EvIInv'
<1>1. TypeOK' /\ InOrder'
  BY QueueSide DEF EvIInv, EvTypeOK
<1>2. LoopTypes' /\ LoopIsWhole'
  <2>1. CASE UNCHANGED allVars
    BY <2>1 DEF EvIInv, EvTypeOK, LoopTypes, LoopIsWhole, allVars, vars, evVars, loopVars
  <2>2. CASE EvNext
    BY <1>1, <2>2, ClientKeepsTypes, LoopKeepsTypes DEF EvNext
  <2> QED BY <2>1, <2>2
<1> QED
  BY <1>1, <1>2 DEF EvIInv, EvTypeOK, LoopTypes

LEMMA EvIInvInit == EvInit => EvIInv
<1> SUFFICES ASSUME EvInit PROVE EvIInv
  OBVIOUS
<1>1. TypeOK /\ InOrder
  BY TypeInit, InOrderInit DEF EvInit
<1>2. LoopTypes
  <2>1. /\ ev = "init" /\ pipe = <<>> /\ writing = [c \in Callers |-> Nil]
        /\ timers = NoTimers /\ loopTime = now /\ ready = {} /\ expired = NoTimers
        /\ term = "none" /\ quitting = FALSE /\ early = {} /\ now = 1
    BY DEF EvInit, Init
  <2>2. pipe \in Seq(Events) /\ Len(pipe) <= PipeSize
    BY <2>1, EmptySeq, LoopAssumption
  <2>3. NoTimers \in [0..MaxTime -> 0..MaxPosts]
    BY QueueAssumption DEF NoTimers
  <2>4. writing \in [Callers -> Events \cup {Nil}]
    BY <2>1
  <2>5. loopTime \in 0..now
    BY <2>1
  <2>6. quitting \in BOOLEAN
    BY <2>1
  <2>7. ready \subseteq Callbacks /\ early \subseteq 1..MaxPosts
    BY <2>1
  <2> QED
    BY <2>1, <2>2, <2>3, <2>4, <2>5, <2>6, <2>7 DEF LoopTypes
<1>3. LoopIsWhole
  <2>1. pending[Loop].op = "none"
    BY DEF EvInit, Init, Callers, NoCall, Call
  <2> QED
    BY <2>1 DEF EvInit, Init, LoopIsWhole, NoTimers
<1> QED
  BY <1>1, <1>2, <1>3 DEF EvIInv, EvTypeOK, LoopTypes

(***************************************************************************)
(* The daemon's loop keeps to its types, for any pipe and any threads: the *)
(* callback reads the pipe only when an event is in it, and the timers a   *)
(* turn has to run are due.                                                *)
(***************************************************************************)
THEOREM DaemonTypeCorrect == EvSpec => []EvTypeOK
<1>1. EvIInv /\ [EvNext]_allVars => EvIInv'
  BY EvIInvStep
<1>2. EvIInv => EvTypeOK
  BY DEF EvIInv
<1> QED
  BY EvIInvInit, <1>1, <1>2, PTL DEF EvSpec

-----------------------------------------------------------------------------
(* No posted message is left for a loop that nothing wakes.                *)

(* Other threads post and broadcast: what removes messages from the list   *)
(* (the tail of Dispatch reads it unlocked) is called on the loop thread.  *)
RemovesOnLoop == ThreadApi \cap {"Unregister", "Debounce", "Remove"} = {}

(***************************************************************************)
(* The time the atomic holds when Dispatch is going to look at it is that  *)
(* of some message of the list, if there is one, though not of the front:  *)
(* the tail reads and stores it in steps, between which others only add.   *)
(***************************************************************************)
StoredTime ==
  /\ pc \in {"idle", "dispatch", "check"} /\ queue # <<>> =>
       \E f \in Elements(queue) : f.time = nextMessageTime
  /\ pc = "front" => queue # <<>>
  /\ pc = "store" => front \in Elements(queue)
  /\ pc \notin {"crashed", "waiting"}
  /\ \A c \in Threads : pending[c].op = "none"

Heeded(m) == Silent(m) \/ Heard(m) \/ Overslept(m)

HearIInv == EvIInv /\ StoredTime /\ \A m \in Elements(queue) : Heeded(m)

(* A list has its head among its elements, and the empty one has none. *)
LEMMA HeadIsElement ==
  ASSUME NEW S, NEW s \in Seq(S)
  PROVE  /\ s # <<>> => s[1] \in Elements(s)
         /\ s = <<>> => Elements(s) = {}
<1>1. s # <<>> => 1 \in DOMAIN s
  BY EmptySeq, LenProperties
<1>2. s = <<>> => Elements(s) = {}
  BY DEF Elements
<1> QED BY <1>1, <1>2 DEF Elements

(* A sequence's elements, one more appended, and with the head taken off. *)
LEMMA AppendElements ==
  ASSUME NEW S, NEW s \in Seq(S), NEW x \in S
  PROVE  Elements(Append(s, x)) = Elements(s) \cup {x}
<1>1. /\ DOMAIN s = 1..Len(s) /\ Len(s) \in Nat
      /\ DOMAIN Append(s, x) = 1..Len(s) + 1
      /\ \A i \in 1..Len(s) : Append(s, x)[i] = s[i]
      /\ Append(s, x)[Len(s) + 1] = x
  BY AppendProperties, LenProperties
<1>2. Elements(Append(s, x)) \subseteq Elements(s) \cup {x}
  <2> SUFFICES ASSUME NEW i \in 1..Len(s) + 1
               PROVE  Append(s, x)[i] \in Elements(s) \cup {x}
    BY <1>1 DEF Elements
  <2>1. i \in 1..Len(s) \/ i = Len(s) + 1
    BY <1>1
  <2> QED BY <1>1, <2>1 DEF Elements
<1>3. Elements(s) \cup {x} \subseteq Elements(Append(s, x))
  <2>1. \A i \in 1..Len(s) : i \in 1..Len(s) + 1
    BY <1>1
  <2>2. Len(s) + 1 \in 1..Len(s) + 1
    BY <1>1
  <2>3. \A i \in 1..Len(s) : s[i] \in Elements(Append(s, x))
    BY <1>1, <2>1 DEF Elements
  <2>4. x \in Elements(Append(s, x))
    BY <1>1, <2>2 DEF Elements
  <2> QED BY <1>1, <2>3, <2>4 DEF Elements
<1> QED BY <1>2, <1>3

LEMMA TailElements ==
  ASSUME NEW S, NEW s \in Seq(S), s # <<>>
  PROVE  Elements(s) \subseteq Elements(Tail(s)) \cup {s[1]}
<1>1. /\ DOMAIN s = 1..Len(s) /\ Len(s) \in Nat \ {0}
      /\ DOMAIN Tail(s) = 1..Len(s) - 1
      /\ \A i \in 1..Len(s) - 1 : Tail(s)[i] = s[i + 1]
  BY PopType
<1> SUFFICES ASSUME NEW i \in 1..Len(s), i # 1
             PROVE  s[i] \in Elements(Tail(s))
  BY <1>1 DEF Elements
<1>2. i - 1 \in 1..Len(s) - 1 /\ (i - 1) + 1 = i
  BY <1>1
<1>3. Tail(s)[i - 1] = s[i]
  BY <1>1, <1>2
<1> QED
  BY <1>1, <1>2, <1>3 DEF Elements

(* The list's elements are messages, due at a natural time. *)
LEMMA ElementFacts ==
  ASSUME TypeOK
  PROVE  /\ \A m \in Elements(queue) : m \in Messages
         /\ \A m \in Messages : m.time \in 0..MaxTime /\ m.time \in Nat
         /\ queue # <<>> => queue[1] \in Elements(queue)
         /\ queue = <<>> => Elements(queue) = {}
         /\ now \in Nat /\ seen \in Nat /\ nextMessageTime \in Int
<1>1. /\ queue \in Seq(Messages) /\ MaxTime \in Nat
      /\ now \in 0..MaxTime /\ seen \in 0..MaxTime /\ nextMessageTime \in -1..MaxTime + 1
  BY QueueAssumption DEF TypeOK
<1>2. DOMAIN queue = 1..Len(queue) /\ Len(queue) \in Nat
      /\ \A i \in 1..Len(queue) : queue[i] \in Messages
  BY <1>1, LenProperties, ElementOfSeq
<1>3. /\ queue # <<>> => queue[1] \in Elements(queue)
      /\ queue = <<>> => Elements(queue) = {}
  BY <1>1, HeadIsElement
<1>4. \A m \in Messages : m.time \in 0..MaxTime /\ m.time \in Nat
  BY <1>1 DEF Messages
<1> QED
  BY <1>1, <1>2, <1>3, <1>4 DEF Elements

(* What every step but those of Dispatch and its callbacks leaves to wake  *)
(* the loop.                                                               *)
Signals ==
  /\ UNCHANGED <<pc, seen>>
  /\ now' >= now
  /\ ev' = "init" => ev = "init"
  /\ "dispatch" \in Elements(pipe) => "dispatch" \in Elements(pipe')
  /\ \A c \in Callers : writing[c] = "dispatch" =>
       writing'[c] = "dispatch" \/ "dispatch" \in Elements(pipe')
  /\ \A t \in 0..MaxTime : timers[t] > 0 \/ expired[t] > 0 =>
       timers'[t] > 0 \/ expired'[t] > 0
  /\ early \subseteq early'
  /\ Elements(queue) \subseteq Elements(queue') \/ pc # "idle" \/ ev = "init"

(* A message that is seen to stays so while all signals are kept. *)
LEMMA StaysHeeded ==
  ASSUME EvIInv, EvIInv', Signals, NEW m \in Messages, Heeded(m)
  PROVE  Heeded(m)'
<1>1. now \in Nat /\ now' \in Nat /\ m.time \in Nat /\ now' >= now
  <2>1. TypeOK /\ TypeOK' /\ now' >= now
    BY DEF EvIInv, EvTypeOK, Signals
  <2>2. now \in 0..MaxTime /\ now' \in 0..MaxTime /\ MaxTime \in Nat
    BY <2>1, QueueAssumption DEF TypeOK
  <2> QED BY <2>1, <2>2, ElementFacts
<1>2. CASE Silent(m)
  BY <1>2 DEF Silent, Signals, Heeded
<1>3. CASE m.time <= now /\ pc = "dispatch"
  BY <1>1, <1>3 DEF Signals, Heeded, Heard
<1>4. CASE m.time <= now /\ "dispatch" \in Elements(pipe)
  BY <1>1, <1>4 DEF Signals, Heeded, Heard
<1>5. CASE m.time <= now /\ \E c \in Callers : writing[c] = "dispatch"
  BY <1>1, <1>5 DEF Signals, Heeded, Heard
<1>6. CASE m.time <= seen /\ pc \in {"check", "sweep"}
  BY <1>6 DEF Signals, Heeded, Heard
<1>7. CASE \E t \in 0..MaxTime : t >= m.time /\ (timers[t] > 0 \/ expired[t] > 0)
  BY <1>7 DEF Signals, Heeded, Heard
<1>8. CASE Overslept(m)
  <2>1. pc' = "idle" /\ ev' # "init" /\ m.time <= now'
    BY <1>1, <1>8 DEF Overslept, Signals
  <2>2. \E f \in Elements(queue') : Silent(f)' /\ f.time > m.time
    BY <1>8 DEF Overslept, Signals, Silent
  <2> QED
    BY <2>1, <2>2 DEF Heeded, Overslept
<1> QED
  BY <1>2, <1>3, <1>4, <1>5, <1>6, <1>7, <1>8 DEF Heeded, Heard

(* Post leaves every signal there is, and one of its own. *)
LEMMA WakeLoopSignals ==
  ASSUME EvIInv, NEW c \in Callers, NEW d \in Delays, WakeLoop(c, d), writing[c] = Nil,
         c = Loop /\ d > 0 => loopTime + d <= MaxTime
  PROVE  /\ UNCHANGED <<ev, pipe, loopTime, ready, expired, term, quitting>>
         /\ \A x \in Callers : writing[x] = "dispatch" => writing'[x] = "dispatch"
         /\ \A t \in 0..MaxTime : timers[t] > 0 => timers'[t] > 0
         /\ early \subseteq early'
         /\ d <= 0 => writing'[c] = "dispatch"
         /\ d > 0 => /\ loopTime + d \in 0..MaxTime /\ timers'[loopTime + d] > 0
                     /\ posted' # posted /\ loopTime < now => posted' \in early'
<1>1. /\ writing \in [Callers -> Events \cup {Nil}]
      /\ timers \in [0..MaxTime -> 0..MaxPosts]
      /\ loopTime \in 0..now /\ now \in 0..MaxTime
      /\ MaxTime \in Nat /\ MaxPosts \in Nat /\ Delays \subseteq Int
  BY QueueAssumption DEF EvIInv, EvTypeOK, TypeOK
<1>2. UNCHANGED <<ev, pipe, loopTime, ready, expired, term, quitting>>
  BY DEF WakeLoop
<1>3. CASE d > 0
  <2>1. /\ UNCHANGED writing /\ c = Loop
        /\ timers' = [timers EXCEPT ![loopTime + d] = @ + 1]
        /\ early' = IF posted' # posted /\ loopTime < now
                    THEN early \cup {posted'} ELSE early
    BY <1>1, <1>3 DEF WakeLoop, WakesNow
  <2>2. loopTime + d \in 0..MaxTime
    BY <1>1, <1>3, <2>1
  <2>3. /\ timers'[loopTime + d] > 0
        /\ \A t \in 0..MaxTime : timers[t] > 0 => timers'[t] > 0
    BY <1>1, <2>1, <2>2
  <2> QED
    BY <1>1, <1>2, <1>3, <2>1, <2>2, <2>3
<1>4. CASE d <= 0
  <2>1. writing' = [writing EXCEPT ![c] = "dispatch"] /\ UNCHANGED <<timers, early>>
    BY <1>1, <1>4 DEF WakeLoop, WakesNow
  <2> QED
    BY <1>1, <1>2, <1>4, <2>1
<1> QED
  BY <1>1, <1>3, <1>4

(* A new message of Post is announced: by an event, or by a timer that is  *)
(* not too early for it.                                                   *)
LEMMA PostIsHeeded ==
  ASSUME EvIInv, NEW c \in Callers, NEW d \in Delays, WakeLoop(c, d), writing[c] = Nil,
         c = Loop /\ d > 0 => loopTime + d <= MaxTime,
         NEW m \in Messages, NEW p, m.time = DueTime(d), Inserted(m, p), UNCHANGED now
  PROVE  Heeded(m)'
<1>1. /\ d <= 0 => writing'[c] = "dispatch"
      /\ d > 0 => /\ loopTime + d \in 0..MaxTime /\ timers'[loopTime + d] > 0
                  /\ posted' # posted /\ loopTime < now => posted' \in early'
  BY WakeLoopSignals
<1>2. m.id = posted' /\ posted' = posted + 1 /\ posted \in Nat
  BY QueueAssumption DEF Inserted, EvIInv, EvTypeOK, TypeOK
<1>3. loopTime \in Int /\ now \in Int /\ loopTime <= now /\ d \in Int
  BY QueueAssumption DEF EvIInv, EvTypeOK, TypeOK
<1>4. CASE d <= 0
  <2>1. m.time <= now'
    BY <1>3, <1>4 DEF DueTime
  <2> QED
    BY <1>1, <1>4, <2>1 DEF Heeded, Heard
<1>5. CASE d > 0 /\ loopTime < now
  BY <1>1, <1>2, <1>5 DEF Heeded, Silent
<1>6. CASE d > 0 /\ loopTime = now
  <2>1. m.time = now + d
    BY <1>3, <1>6 DEF DueTime
  <2>2. /\ loopTime + d \in 0..MaxTime /\ timers'[loopTime + d] > 0
        /\ loopTime + d >= m.time
    BY <1>1, <1>3, <1>6, <2>1
  <2> QED
    BY <2>2 DEF Heeded, Heard
<1> QED
  BY <1>3, <1>4, <1>5, <1>6

(* What a client's step does to the list, and when it may shorten it. *)
Shortens == /\ \E t, type : RemoveSection(t, type)
            /\ ev = "init" \/ pc = "handling"

ListChange ==
  \/ UNCHANGED <<queue, nextMessageTime>>
  \/ \E m \in Messages, p \in 1..Len(queue) + 1 : Inserted(m, p) /\ Heeded(m)'
  \/ Shortens

(* StoredTime and the messages of the list outlast a client's step. *)
LEMMA ListChangeHears ==
  ASSUME HearIInv, EvIInv', ListChange, UNCHANGED <<pc, seen, front>>, now' >= now,
         ev' = "init" => ev = "init",
         "dispatch" \in Elements(pipe) => "dispatch" \in Elements(pipe'),
         \A c \in Callers : writing[c] = "dispatch" =>
           writing'[c] = "dispatch" \/ "dispatch" \in Elements(pipe'),
         \A t \in 0..MaxTime : timers[t] > 0 \/ expired[t] > 0 =>
           timers'[t] > 0 \/ expired'[t] > 0,
         early \subseteq early',
         \A c \in Threads : pending'[c].op = "none"
  PROVE  HearIInv'
<1>1. TypeOK /\ TypeOK' /\ LoopIsWhole /\ EvIInv /\ StoredTime
  BY DEF HearIInv, EvIInv, EvTypeOK
<1>2. \/ UNCHANGED <<queue, nextMessageTime>>
      \/ /\ queue' # <<>> => nextMessageTime' = queue'[1].time
         /\ Elements(queue) \subseteq Elements(queue') \/ ev = "init" \/ pc = "handling"
  <2>1. ASSUME NEW m \in Messages, NEW p \in 1..Len(queue) + 1, Inserted(m, p)
        PROVE  nextMessageTime' = queue'[1].time /\ Elements(queue) \subseteq Elements(queue')
    BY <1>1, <2>1, InsertElements DEF Inserted
  <2>2. ASSUME NEW t, NEW type, RemoveSection(t, type)
        PROVE  queue' # <<>> => nextMessageTime' = queue'[1].time
    BY <1>1, <2>2, RemoveFacts
  <2> QED
    BY <2>1, <2>2 DEF ListChange, Shortens
<1>3. Signals
  BY <1>2 DEF Signals
<1>4. \A m \in Elements(queue') : m \in Elements(queue) \/ Heeded(m)'
  <2>1. ASSUME NEW m \in Messages, NEW p \in 1..Len(queue) + 1, Inserted(m, p)
        PROVE  Elements(queue') = Elements(queue) \cup {m}
    BY <1>1, <2>1, InsertElements
  <2>2. ASSUME NEW t, NEW type, RemoveSection(t, type)
        PROVE  Elements(queue') \subseteq Elements(queue)
    BY <1>1, <2>2, RemoveFacts, CutElements
  <2> QED
    BY <2>1, <2>2 DEF ListChange, Shortens
<1>5. \A m \in Elements(queue') : Heeded(m)'
  <2>1. \A m \in Elements(queue) : m \in Messages /\ Heeded(m)
    BY <1>1, ElementFacts DEF HearIInv
  <2>2. \A m \in Elements(queue) : Heeded(m)'
    BY <1>1, <1>3, <2>1, StaysHeeded
  <2> QED
    BY <1>4, <2>2
<1>6. StoredTime'
  <2>1. ASSUME pc' \in {"idle", "dispatch", "check"}, queue' # <<>>
        PROVE  \E f \in Elements(queue') : f.time = nextMessageTime'
    <3>1. queue' # <<>> => queue'[1] \in Elements(queue')
      BY <1>1, HeadIsElement DEF TypeOK
    <3> QED
      BY <1>1, <1>2, <2>1, <3>1 DEF StoredTime
  <2>2. pc' = "front" => queue' # <<>>
    <3>1. queue # <<>> => queue[1] \in Elements(queue)
      BY <1>1, ElementFacts
    <3>2. queue' = <<>> => Elements(queue') = {}
      BY <1>1, HeadIsElement DEF TypeOK
    <3> QED
      BY <1>1, <1>2, <3>1, <3>2 DEF StoredTime, LoopIsWhole
  <2>3. pc' = "store" => front' \in Elements(queue')
    BY <1>1, <1>2 DEF StoredTime, LoopIsWhole
  <2> QED
    BY <1>1, <2>1, <2>2, <2>3 DEF StoredTime
<1> QED
  BY <1>5, <1>6 DEF HearIInv

(* Whatever a client calls, no message in the list is unheeded after it. *)
LEMMA ClientHears ==
  ASSUME RemovesOnLoop, HearIInv, EvIInv', NEW c \in Callers, EvClient(c) \/ EvResume(c)
  PROVE  HearIInv'
<1> USE DEF evVars
<1>1. /\ EvIInv /\ TypeOK /\ LoopIsWhole /\ StoredTime
      /\ pending \in [Callers -> Calls]
      /\ writing \in [Callers -> Events \cup {Nil}]
      /\ ev \in {"init", "running", "ended"}
      /\ Loop \in Callers /\ Loop \notin Threads /\ Threads \subseteq Callers
      /\ Delays \subseteq Int /\ DebounceTypes \subseteq Types
      /\ now \in 0..MaxTime /\ MaxTime \in Nat
  BY QueueAssumption DEF HearIInv, EvIInv, EvTypeOK, TypeOK, Callers
<1>2. \A x \in Threads : pending[x].op = "none"
  BY <1>1 DEF StoredTime
<1>3. ASSUME ClientStep(c) \/ Resume(c)
      PROVE  UNCHANGED <<now, pc, seen, front>>
  BY <1>1, <1>3, ClientEffect DEF loopVars
<1>4. ASSUME NEW t \in Targets \cup {Nil}, NEW type \in Types, NEW d \in Delays,
             PostSection(t, type, d), WakeLoop(c, d), writing[c] = Nil,
             c = Loop /\ d > 0 => loopTime + d <= MaxTime,
             UNCHANGED <<now, pc, seen, front>>,
             \A x \in Threads : pending'[x].op = "none"
      PROVE  HearIInv'
  <2>1. /\ UNCHANGED <<ev, pipe, loopTime, ready, expired, term, quitting>>
        /\ \A x \in Callers : writing[x] = "dispatch" => writing'[x] = "dispatch"
        /\ \A u \in 0..MaxTime : timers[u] > 0 => timers'[u] > 0
        /\ early \subseteq early'
    BY <1>1, <1>4, WakeLoopSignals
  <2>2. ListChange
    <3>1. CASE UNCHANGED <<listVars, notified>>
      BY <3>1 DEF ListChange, listVars
    <3>2. CASE Enqueue(t, type, d)
      <4>1. TypeOK /\ d \in Int
        BY <1>1
      <4>2. PICK m \in Messages, p \in 1..Len(queue) + 1 :
              /\ m.target = t /\ m.type = type /\ m.time = DueTime(d)
              /\ Inserted(m, p)
        BY <3>2, <4>1, EnqueueFacts
      <4>3. Heeded(m)'
        BY <1>1, <1>4, <4>2, PostIsHeeded
      <4> QED
        BY <4>2, <4>3 DEF ListChange
    <3> QED
      BY <1>4, <3>1, <3>2 DEF PostSection
  <2> QED
    BY <1>1, <1>4, <2>1, <2>2, ListChangeHears
<1>5. ASSUME UNCHANGED evVars, ListChange, UNCHANGED <<now, pc, seen, front>>,
             \A x \in Threads : pending'[x].op = "none"
      PROVE  HearIInv'
  BY <1>1, <1>5, ListChangeHears
<1>6. ASSUME NEW t \in Targets, NEW type \in Types \ DebounceTypes, NEW d \in Delays,
             EvPost(c, t, type, d)
      PROVE  HearIInv'
  <2>1. /\ Post(c, t, type, d) /\ WakeLoop(c, d) /\ Fits(d) /\ writing[c] = Nil
        /\ ClientStep(c)
    BY <1>6 DEF EvPost, CanCallLoop, ClientStep
  <2>2. PostSection(t, type, d) /\ UNCHANGED pending
    BY <2>1 DEF Post
  <2>3. d > 0 => loopTime + d <= MaxTime
    BY <2>1 DEF Fits
  <2> QED
    BY <1>2, <1>3, <1>4, <2>1, <2>2, <2>3
<1>7. CASE EvDebouncePost(c)
  <2> DEFINE call == pending[c]
  <2>1. /\ DebouncePost(c) /\ WakeLoop(c, call.delay) /\ writing[c] = Nil /\ Resume(c)
    BY <1>7 DEF EvDebouncePost, Resume
  <2>2. /\ call \in Calls /\ call.op = "Post"
        /\ PostSection(call.target, call.type, call.delay)
        /\ pending' = [pending EXCEPT ![c] = NoCall]
    BY <1>1, <2>1 DEF DebouncePost
  <2>3. call.target \in Targets \cup {Nil} /\ call.type \in Types /\ call.delay \in Delays
    BY <2>2 DEF Calls
  <2>4. c = Loop /\ call.delay > 0 => loopTime + call.delay <= MaxTime
    BY <1>1, <2>2, <2>3 DEF LoopIsWhole
  <2>5. \A x \in Threads : pending'[x].op = "none"
    BY <1>1, <1>2, <2>2 DEF NoCall, Call
  <2>6. UNCHANGED <<now, pc, seen, front>>
    BY <1>3, <2>1
  <2> HIDE DEF call
  <2> QED
    BY <1>4, <2>1, <2>2, <2>3, <2>4, <2>5, <2>6
<1>8. CASE Quiet(c)
  <2>1. ClientStep(c) /\ UNCHANGED evVars
    BY <1>8 DEF Quiet, ClientStep
  <2>2. ASSUME NEW type \in Types \ DebounceTypes, NEW d \in Delays, Broadcast(c, type, d)
        PROVE  HearIInv'
    <3>1. PICK m \in Messages, p \in 1..Len(queue) + 1 : m.target = Nil /\ Inserted(m, p)
      BY <1>1, <2>2, EnqueueFacts DEF Broadcast
    <3>2. Heeded(m)'
      BY <3>1 DEF Heeded, Silent
    <3>3. ListChange /\ UNCHANGED pending
      BY <2>2, <3>1, <3>2 DEF ListChange, Broadcast
    <3> QED
      BY <1>2, <1>3, <1>5, <2>1, <3>3
  <2>3. ASSUME NEW method \in {"Debounce", "Unregister", "Remove"}, CanCallLoop(c, method)
        PROVE  c = Loop /\ (ev = "init" \/ pc = "handling")
    BY <1>1, <2>3 DEF CanCallLoop, RemovesOnLoop, Callers
  <2>4. ASSUME NEW t \in Targets, NEW type \in DebounceTypes, NEW d \in Delays,
               CanCallLoop(c, "Debounce"), Debounce(c, t, type, d)
        PROVE  HearIInv'
    <3>1. c = Loop /\ (ev = "init" \/ pc = "handling")
      BY <2>3, <2>4
    <3>2. RemoveSection(t, type) /\ pending' = [pending EXCEPT ![c] = Call("Post", t, type, d)]
      BY <2>4 DEF Debounce
    <3>3. ListChange
      BY <3>1, <3>2 DEF ListChange, Shortens
    <3>4. \A x \in Threads : pending'[x].op = "none"
      BY <1>1, <1>2, <3>1, <3>2
    <3> QED
      BY <1>3, <1>5, <2>1, <3>3, <3>4
  <2>5. ASSUME NEW t \in Targets, CanCallLoop(c, "Unregister"), Unregister(c, t)
        PROVE  HearIInv'
    <3>1. c = Loop
      BY <2>3, <2>5
    <3>2. /\ UNCHANGED listVars
          /\ pending' = [pending EXCEPT ![c] = Call("Remove", t, AnyType, 0)]
      BY <2>5 DEF Unregister
    <3>3. \A x \in Threads : pending'[x].op = "none"
      BY <1>1, <1>2, <3>1, <3>2
    <3>4. ListChange
      BY <3>2 DEF ListChange, listVars
    <3> QED
      BY <1>3, <1>5, <2>1, <3>3, <3>4
  <2>6. ASSUME NEW t \in Targets, Register(c, t)
        PROVE  HearIInv'
    <3>1. ListChange /\ UNCHANGED pending
      BY <2>6 DEF Register, ListChange, listVars
    <3> QED
      BY <1>2, <1>3, <1>5, <2>1, <3>1
  <2>7. ASSUME NEW t \in Targets, NEW type \in Types \cup {AnyType},
               CanCallLoop(c, "Remove"), Remove(c, t, type)
        PROVE  HearIInv'
    <3>1. c = Loop /\ (ev = "init" \/ pc = "handling")
      BY <2>3, <2>7
    <3>2. RemoveSection(t, type) /\ UNCHANGED pending
      BY <2>7 DEF Remove
    <3>3. ListChange
      BY <3>1, <3>2 DEF ListChange, Shortens
    <3> QED
      BY <1>2, <1>3, <1>5, <2>1, <3>2, <3>3
  <2> QED
    BY <1>8, <2>2, <2>4, <2>5, <2>6, <2>7 DEF Quiet
<1>9. CASE UnregisterRemove(c) /\ UNCHANGED evVars
  <2>1. /\ pending[c].op = "Remove"
        /\ \E t, type : RemoveSection(t, type)
        /\ pending' = [pending EXCEPT ![c] = NoCall]
        /\ Resume(c)
    BY <1>9 DEF UnregisterRemove, Resume
  <2>2. c = Loop /\ (ev = "init" \/ pc = "handling")
    BY <1>1, <1>2, <2>1 DEF LoopIsWhole, Callers
  <2>3. ListChange
    BY <2>1, <2>2 DEF ListChange, Shortens
  <2>4. \A x \in Threads : pending'[x].op = "none"
    BY <1>1, <1>2, <2>1, <2>2
  <2> QED
    BY <1>3, <1>5, <1>9, <2>1, <2>3, <2>4
<1>10. CASE WriteEvent(c)
  <2>1. /\ writing[c] \in Events
        /\ pipe' = Append(pipe, writing[c])
        /\ writing' = [writing EXCEPT ![c] = Nil]
        /\ UNCHANGED <<vars, ev, timers, expired, early>>
    BY <1>1, <1>10 DEF WriteEvent, PipeAfterWrite
  <2>2. /\ UNCHANGED <<now, pc, seen, front, pending>>
        /\ ListChange
    BY <2>1 DEF vars, loopVars, listVars, ListChange
  <2>3. Elements(pipe') = Elements(pipe) \cup {writing[c]}
    <3>1. pipe \in Seq(Events)
      BY <1>1 DEF EvIInv, EvTypeOK
    <3> QED
      BY <2>1, <3>1, AppendElements
  <2>4. \A x \in Callers : writing[x] = "dispatch" =>
          writing'[x] = "dispatch" \/ "dispatch" \in Elements(pipe')
    BY <1>1, <2>1, <2>3
  <2> QED
    BY <1>1, <1>2, <2>1, <2>2, <2>3, <2>4, ListChangeHears
<1> QED
  BY <1>6, <1>7, <1>8, <1>9, <1>10 DEF EvClient, EvResume

(* What wakes the loop for m wherever its thread is. *)
Lasting(m) ==
  \/ Silent(m)
  \/ /\ m.time <= now
     /\ \/ "dispatch" \in Elements(pipe)
        \/ \E c \in Callers : writing[c] = "dispatch"
  \/ \E t \in 0..MaxTime : t >= m.time /\ (timers[t] > 0 \/ expired[t] > 0)

(* The steps of Dispatch use up no signal; those that end it early, or     *)
(* sweep the list, leave nobody behind.                                    *)
LEMMA DispatchStepHears ==
  ASSUME HearIInv, EvIInv', DispatchStep
  PROVE  HearIInv'
<1> USE DEF registryVars, listVars, batchVars, loopVars, Goto
<1>1. /\ EvIInv /\ TypeOK /\ InOrder /\ LoopIsWhole /\ StoredTime
      /\ UNCHANGED evVars
  BY DEF HearIInv, EvIInv, EvTypeOK, DispatchStep
<1>2. /\ \A m \in Elements(queue) : m \in Messages /\ Heeded(m)
      /\ \A m \in Messages : m.time \in Nat
      /\ now \in Nat /\ seen \in Nat /\ nextMessageTime \in Int /\ seen <= now
      /\ queue # <<>> => queue[1] \in Elements(queue)
      /\ queue = <<>> => Elements(queue) = {}
  BY <1>1, ElementFacts DEF HearIInv, InOrder
<1>3. UNCHANGED <<now, pending>>
  BY DEF DispatchStep, ReadClock, CheckNextTime, Sweep, HandleTargeted, BeginBroadcast,
     VisitReceiver, EndHandle, EndBroadcast, EndBatch, ReadSize, ReadFront, StoreNextTime
<1>4. ASSUME NEW m, Lasting(m) PROVE Heeded(m)'
  BY <1>1, <1>3, <1>4 DEF Lasting, Heeded, Heard, Silent, evVars
<1>5. ASSUME NEW m, Heeded(m), pc \notin {"idle", "dispatch", "check", "sweep"}
      PROVE  Heeded(m)'
  BY <1>4, <1>5 DEF Lasting, Heeded, Heard, Overslept
<1>6. CASE ReadClock
  <2>1. /\ pc' = "check" /\ seen' = now /\ pc = "dispatch"
        /\ UNCHANGED <<queue, nextMessageTime>>
    BY <1>6 DEF ReadClock
  <2>2. ASSUME NEW m \in Elements(queue) PROVE Heeded(m)'
    <3>1. Heeded(m) /\ m.time \in Nat
      BY <1>2
    <3>2. CASE m.time <= now
      BY <2>1, <3>2 DEF Heeded, Heard
    <3>3. CASE m.time > now
      <4>1. Lasting(m)
        BY <1>2, <2>1, <3>1, <3>3 DEF Heeded, Heard, Overslept, Lasting
      <4> QED BY <1>4, <4>1
    <3> QED BY <1>2, <3>1, <3>2, <3>3
  <2>3. StoredTime'
    BY <1>1, <1>3, <2>1 DEF StoredTime
  <2> QED
    BY <2>1, <2>2, <2>3 DEF HearIInv
<1>7. CASE CheckNextTime
  <2>1. /\ pc = "check" /\ ev # "init"
        /\ UNCHANGED <<queue, nextMessageTime, seen>>
        /\ \/ pc' = "sweep"
           \/ pc' = "idle" /\ (nextMessageTime > seen \/ nextMessageTime < 0)
    BY <1>1, <1>7 DEF CheckNextTime, LoopIsWhole
  <2>2. ASSUME NEW m \in Elements(queue) PROVE Heeded(m)'
    <3>1. Heeded(m) /\ m.time \in Nat
      BY <1>2
    <3>2. CASE Lasting(m)
      BY <1>4, <3>2
    <3>3. CASE ~Lasting(m)
      <4>1. m.time <= seen
        BY <2>1, <3>1, <3>3 DEF Heeded, Heard, Overslept, Lasting
      <4>2. CASE pc' = "sweep"
        BY <2>1, <4>1, <4>2 DEF Heeded, Heard
      <4>3. CASE pc' = "idle"
        <5>1. PICK f \in Elements(queue) : f.time = nextMessageTime
          BY <1>1, <1>2, <2>1 DEF StoredTime
        <5>2. f.time > seen /\ f.time \in Nat /\ Heeded(f)
          BY <1>2, <2>1, <4>3, <5>1
        <5>3. f.time > m.time /\ m.time <= now
          BY <1>2, <3>1, <4>1, <5>2
        <5>4. ~(f.time <= seen)
          BY <1>2, <5>2
        <5>5. Silent(f)
          <6>1. CASE \E t \in 0..MaxTime : /\ t >= f.time
                                           /\ timers[t] > 0 \/ expired[t] > 0
            <7>1. PICK t \in 0..MaxTime : t >= f.time /\ (timers[t] > 0 \/ expired[t] > 0)
              BY <6>1
            <7>2. t >= m.time
              BY <3>1, <5>2, <5>3, <7>1
            <7> QED BY <3>3, <7>1, <7>2 DEF Lasting
          <6>2. CASE \/ "dispatch" \in Elements(pipe)
                     \/ \E c \in Callers : writing[c] = "dispatch"
            BY <3>3, <5>3, <6>2 DEF Lasting
          <6> QED
            BY <2>1, <5>2, <5>4, <6>1, <6>2 DEF Heeded, Heard, Overslept
        <5>6. Silent(f)'
          BY <1>1, <5>5 DEF Silent, evVars
        <5>7. Overslept(m)'
          BY <1>1, <1>3, <2>1, <4>3, <5>1, <5>3, <5>6 DEF Overslept, evVars
        <5> QED BY <5>7 DEF Heeded
      <4> QED BY <2>1, <4>2, <4>3
    <3> QED BY <3>2, <3>3
  <2>3. StoredTime'
    BY <1>1, <1>3, <2>1 DEF StoredTime
  <2> QED
    BY <2>1, <2>2, <2>3 DEF HearIInv
<1>8. CASE Sweep
  <2>1. pc = "sweep" /\ pc' = "next"
    BY <1>8 DEF Sweep
  <2>2. \A i \in DOMAIN queue' : \E k \in DOMAIN queue \ Due : queue'[i] = queue[k]
    BY <1>1, <1>8, SweepFacts
  <2>3. DOMAIN queue = 1..Len(queue) /\ Len(queue) \in Nat
        /\ \A i \in 1..Len(queue) : queue[i].time \in Nat
    <3>1. DOMAIN queue = 1..Len(queue) /\ Len(queue) \in Nat
      BY <1>1, LenProperties DEF TypeOK
    <3> QED BY <1>2, <3>1 DEF Elements
  <2>4. ASSUME NEW k \in DOMAIN queue \ Due PROVE queue[k].time > seen
    <3>1. PICK j \in 1..k : ~(queue[j].time <= seen)
      BY <2>4 DEF Due
    <3>2. j = k \/ Precedes(queue[j], queue[k])
      BY <1>1, <2>3, <3>1 DEF InOrder, Sorted
    <3>3. j \in 1..Len(queue)
      BY <2>3, <3>1
    <3>4. queue[j].time \in Nat /\ queue[k].time \in Nat /\ queue[j].time <= queue[k].time
      BY <2>3, <3>2, <3>3 DEF Precedes
    <3> QED
      BY <1>2, <3>1, <3>4
  <2>5. ASSUME NEW m \in Elements(queue') PROVE Heeded(m)'
    <3>1. m \in Elements(queue) /\ m.time > seen
      BY <2>2, <2>4 DEF Elements
    <3>2. Heeded(m) /\ ~(m.time <= seen)
      BY <1>2, <3>1
    <3>3. Lasting(m)
      BY <2>1, <3>2 DEF Heeded, Heard, Overslept, Lasting
    <3> QED BY <1>4, <3>3
  <2>6. StoredTime'
    BY <1>1, <1>3, <2>1 DEF StoredTime
  <2> QED
    BY <2>5, <2>6 DEF HearIInv
<1>9. ASSUME UNCHANGED queue, pc \notin {"idle", "dispatch", "check", "sweep"},
             StoredTime'
      PROVE  HearIInv'
  BY <1>2, <1>5, <1>9 DEF HearIInv
<1>10. CASE \/ HandleTargeted \/ BeginBroadcast \/ EndHandle \/ EndBroadcast \/ EndBatch
            \/ \E r \in Receivers : VisitReceiver(r)
  <2>1. /\ UNCHANGED queue
        /\ pc \in {"next", "receivers", "handling"}
        /\ pc' \in {"next", "receivers", "handling", "size"}
    BY <1>10 DEF HandleTargeted, BeginBroadcast, EndHandle, EndBroadcast, EndBatch,
       VisitReceiver
  <2>2. StoredTime'
    BY <1>1, <1>3, <2>1 DEF StoredTime
  <2> QED BY <1>9, <2>1, <2>2
<1>11. CASE ReadSize
  <2>1. /\ UNCHANGED queue /\ pc = "size"
        /\ pc' = IF queue = <<>> THEN "idle" ELSE "front"
    BY <1>11 DEF ReadSize, AfterSize
  <2>2. StoredTime'
    BY <1>1, <1>3, <2>1 DEF StoredTime
  <2> QED BY <1>9, <2>1, <2>2
<1>12. CASE ReadFront
  <2>1. UNCHANGED queue /\ pc = "front" /\ queue # <<>> /\ pc' = "store" /\ front' = queue[1]
    BY <1>1, <1>12 DEF ReadFront, StoredTime
  <2>2. StoredTime'
    BY <1>1, <1>2, <1>3, <2>1 DEF StoredTime
  <2> QED BY <1>9, <2>1, <2>2
<1>13. CASE StoreNextTime
  <2>1. UNCHANGED queue /\ pc = "store" /\ pc' = "idle" /\ front \in Elements(queue)
    BY <1>1, <1>13 DEF StoreNextTime, StoredTime
  <2>2. \E i \in DOMAIN queue : queue[i] = front
    BY <2>1 DEF Elements
  <2>3. nextMessageTime' = front.time
    BY <1>13, <2>2 DEF StoreNextTime
  <2>4. StoredTime'
    BY <1>1, <1>3, <2>1, <2>3 DEF StoredTime
  <2> QED BY <1>9, <2>1, <2>4
<1> QED
  BY <1>6, <1>7, <1>8, <1>10, <1>11, <1>12, <1>13 DEF DispatchStep

(* The callbacks of a turn use a signal up only by calling Dispatch. *)
LEMMA CallbackHears ==
  ASSUME HearIInv, EvIInv', ReadCallback \/ DelayedDispatch
  PROVE  HearIInv'
<1>1. /\ EvIInv /\ TypeOK /\ LoopIsWhole /\ StoredTime
      /\ pipe \in Seq(Events)
      /\ timers \in [0..MaxTime -> 0..MaxPosts] /\ expired \in [0..MaxTime -> 0..MaxPosts]
      /\ seen <= now
  BY DEF HearIInv, EvIInv, EvTypeOK, InOrder
<1>2. /\ \A m \in Elements(queue) : m \in Messages /\ Heeded(m)
      /\ \A m \in Messages : m.time \in Nat
      /\ now \in Nat /\ seen \in Nat /\ MaxTime \in Nat
  BY <1>1, QueueAssumption, ElementFacts DEF HearIInv
<1>3. CASE DispatchNow
  <2>1. /\ pc = "idle" /\ pc' = "dispatch"
        /\ UNCHANGED <<queue, nextMessageTime, now, seen, pending>>
        /\ UNCHANGED <<timers, early>>
    BY <1>3 DEF DispatchNow, Goto, listVars, ReadCallback, DelayedDispatch
  <2>2. ASSUME NEW m \in Elements(queue) PROVE Heeded(m)'
    <3>1. Heeded(m) /\ m.time \in Nat
      BY <1>2
    <3>2. CASE m.time <= now
      BY <2>1, <3>2 DEF Heeded, Heard
    <3>3. CASE m.time > now
      <4>1. ~(m.time <= now) /\ ~(m.time <= seen)
        BY <1>1, <1>2, <3>1, <3>3
      <4>2. CASE Silent(m)
        BY <2>1, <4>2 DEF Silent, Heeded
      <4>3. CASE \E t \in 0..MaxTime : t >= m.time /\ (timers[t] > 0 \/ expired[t] > 0)
        <5>1. PICK t \in 0..MaxTime : t >= m.time /\ (timers[t] > 0 \/ expired[t] > 0)
          BY <4>3
        <5>2. ~(t <= now)
          BY <1>2, <3>1, <3>3, <5>1
        <5>3. timers[t] > 0
          BY <1>1, <5>1, <5>2 DEF LoopIsWhole
        <5>4. timers'[t] > 0
          BY <2>1, <5>3
        <5> QED BY <5>1, <5>4 DEF Heeded, Heard
      <4> QED
        BY <3>1, <4>1, <4>2, <4>3 DEF Heeded, Heard, Overslept
    <3> QED BY <1>2, <3>1, <3>2, <3>3
  <2>3. StoredTime'
    BY <1>1, <2>1 DEF StoredTime
  <2> QED
    BY <2>1, <2>2, <2>3 DEF HearIInv
<1>4. CASE ReadCallback /\ ~DispatchNow
  <2>1. /\ "pipe" \in ready /\ pipe' = Tail(pipe) /\ Head(pipe) # "dispatch"
        /\ UNCHANGED vars
        /\ UNCHANGED <<ev, writing, timers, expired, early>>
    BY <1>4 DEF ReadCallback, PipeAfterRead
  <2>2. UNCHANGED <<now, pc, seen, front, pending>> /\ ListChange
    BY <2>1 DEF vars, loopVars, listVars, ListChange
  <2>3. pipe # <<>>
    BY <1>1, <2>1 DEF LoopIsWhole
  <2>4. Elements(pipe) \subseteq Elements(pipe') \cup {pipe[1]} /\ pipe[1] # "dispatch"
    BY <1>1, <2>1, <2>3, TailElements
  <2>5. "dispatch" \in Elements(pipe) => "dispatch" \in Elements(pipe')
    BY <2>4
  <2>6. \A c \in Threads : pending'[c].op = "none"
    BY <1>1, <2>2 DEF StoredTime
  <2> QED
    BY <1>2, <2>1, <2>2, <2>5, <2>6, ListChangeHears
<1> QED
  BY <1>3, <1>4 DEF DelayedDispatch

(* The rest of what the loop does, and the clock, leaves every signal.     *)
LEMMA LoopKeepsSignals ==
  ASSUME HearIInv, EvIInv',
         Run \/ BeginTurn \/ SignalQuit \/ EndLoop \/ Terminate \/ PassTime
  PROVE  HearIInv'
<1> USE DEF evVars
<1>1. /\ EvIInv /\ TypeOK /\ StoredTime
      /\ now \in 0..MaxTime /\ MaxTime \in Nat
      /\ timers \in [0..MaxTime -> 0..MaxPosts] /\ expired \in [0..MaxTime -> 0..MaxPosts]
      /\ writing \in [Callers -> Events \cup {Nil}]
      /\ Nil # "dispatch" /\ Loop \in Callers
  BY QueueAssumption, LoopAssumption
     DEF HearIInv, EvIInv, EvTypeOK, TypeOK, Callers
<1>2. UNCHANGED <<pc, seen, front, pending, queue, nextMessageTime>> /\ now' >= now
  BY <1>1 DEF Run, BeginTurn, SignalQuit, EndLoop, Terminate, PassTime, Tick,
     vars, listVars, loopVars
<1>3. ListChange /\ \A c \in Threads : pending'[c].op = "none"
  BY <1>1, <1>2 DEF ListChange, StoredTime
<1>4. /\ ev' = "init" => ev = "init"
      /\ UNCHANGED <<pipe, early>>
  BY DEF Run, BeginTurn, SignalQuit, EndLoop, Terminate, PassTime
<1>5. \A c \in Callers : writing[c] = "dispatch" => writing'[c] = "dispatch"
  BY <1>1 DEF Run, BeginTurn, SignalQuit, EndLoop, Terminate, PassTime, AtRest
<1>6. \A t \in 0..MaxTime : timers[t] > 0 \/ expired[t] > 0 =>
        timers'[t] > 0 \/ expired'[t] > 0
  <2>1. CASE BeginTurn
    <3>1. /\ expired = NoTimers
          /\ expired' = [t \in 0..MaxTime |-> IF t \in Expiring THEN timers[t] ELSE 0]
          /\ timers' = [t \in 0..MaxTime |-> IF t \in Expiring THEN 0 ELSE timers[t]]
      BY <2>1 DEF BeginTurn, TurnIsOver
    <3> SUFFICES ASSUME NEW t \in 0..MaxTime, timers[t] > 0 \/ expired[t] > 0
                 PROVE  timers'[t] > 0 \/ expired'[t] > 0
      OBVIOUS
    <3>2. timers[t] > 0
      BY <3>1 DEF NoTimers
    <3> QED BY <3>1, <3>2
  <2>2. CASE Run \/ SignalQuit \/ EndLoop \/ Terminate \/ PassTime
    BY <2>2 DEF Run, SignalQuit, EndLoop, Terminate, PassTime
  <2> QED BY <2>1, <2>2
<1> QED
  BY <1>2, <1>3, <1>4, <1>5, <1>6, ListChangeHears

(* Every step keeps the loop alive and its messages heeded. *)
LEMMA HearStep ==
  ASSUME RemovesOnLoop, HearIInv, [EvNext]_allVars
  PROVE  HearIInv'
<1>1. EvIInv'
  BY EvIInvStep DEF HearIInv
<1>2. CASE UNCHANGED allVars
  <2>1. UNCHANGED <<now, pc, seen, front, queue, nextMessageTime, pending, ev, pipe,
                    writing, timers, expired, early>>
    BY <1>2 DEF allVars, vars, evVars, loopVars, listVars
  <2>2. \A m : Heeded(m) => Heeded(m)'
    BY <2>1 DEF Heeded, Silent, Heard, Overslept
  <2>3. StoredTime => StoredTime'
    BY <2>1 DEF StoredTime
  <2> QED
    BY <1>1, <2>1, <2>2, <2>3 DEF HearIInv
<1>3. CASE EvNext
  BY <1>1, <1>3, ClientHears, DispatchStepHears, CallbackHears, LoopKeepsSignals
     DEF EvNext, EvLoop
<1> QED
  BY <1>2, <1>3

(***************************************************************************)
(* Where messages are removed from the list on the loop thread only, the   *)
(* daemon's loop neither dies in the tail of Dispatch nor leaves a posted  *)
(* message in the list with nothing to wake it, however many threads post  *)
(* and however large the pipe is - but for the messages LoopHears names.   *)
(***************************************************************************)
THEOREM DaemonHearsPosts == RemovesOnLoop => (EvSpec => []LoopHears)
<1> SUFFICES ASSUME RemovesOnLoop PROVE EvSpec => []LoopHears
  OBVIOUS
<1>1. EvInit => HearIInv
  <2> SUFFICES ASSUME EvInit PROVE HearIInv
    OBVIOUS
  <2>1. queue = <<>> /\ pc = "idle" /\ pending = [c \in Callers |-> NoCall]
    BY DEF EvInit, Init
  <2>2. Elements(queue) = {}
    BY <2>1 DEF Elements
  <2>3. StoredTime
    BY <2>1 DEF StoredTime, Callers, NoCall, Call
  <2> QED
    BY EvIInvInit, <2>2, <2>3 DEF HearIInv
<1>2. HearIInv /\ [EvNext]_allVars => HearIInv'
  BY HearStep
<1>3. HearIInv => LoopHears
  BY DEF HearIInv, StoredTime, Heeded, LoopHears
<1> QED
  BY <1>1, <1>2, <1>3, PTL DEF EvSpec

=============================================================================
