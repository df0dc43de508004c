--------------------------- MODULE LogQueueProofs ---------------------------
(***************************************************************************)
(* Proofs about LogQueue for every number of backends and entries.         *)
(*                                                                         *)
(* None of the safety properties is inductive by itself.  What ties them   *)
(* together is where the log thread stands relative to the queue: while    *)
(* the queue is active, the entries popped so far are exactly those the    *)
(* backends have been given, except the one on its way.                    *)
(***************************************************************************)
EXTENDS LogQueue, TLAPS

(* The log thread has an entry in its hands. *)
Busy == logger \in {"visiting", "writing", "calling"}

(* Which flags go with which stretch of Start and Stop. *)
Phases ==
  /\ active <=> (session /\ mutex # "joining")
  /\ mutex # "free" => session
  /\ mutex = "starting" => accepted = 0
  /\ session /\ mutex # "starting" => accepted >= 1
  /\ logger # "exited" => session
  /\ logger \in {"writing", "calling"} => visit <= backends
  /\ Busy => visit <= backends + 1
  /\ logger = "calling" => accepted < MaxEntries

(* How many entries have left the queue. *)
Popped == accepted - Len(entries)

IsFirst(e) == e.id = 1 <=> e.tag = "LOG_SESSION"

(* The queue holds the last entries accepted, numbered through. *)
Numbered ==
  /\ Len(entries) <= accepted
  /\ active => \A i \in 1..Len(entries) : entries[i].id = Popped + i
  /\ \A i \in 1..Len(entries) : IsFirst(entries[i])

(* What the backends have been given. *)
Progress ==
  /\ active /\ Busy => entry.id = Popped
  /\ Busy => IsFirst(entry)
  /\ active /\ ~Busy => \A b \in 1..backends : written[b].id = Popped
  /\ Busy => \A b \in 1..backends :
       written[b].id = IF b < visit \/ (b = visit /\ logger # "visiting")
                       THEN entry.id ELSE entry.id - 1
  /\ SessionComesFirst

IInv == TypeOK /\ Phases /\ Numbered /\ Progress

-----------------------------------------------------------------------------

(* What a call of enqueue does to the queue. *)
LEMMA EnqueueFacts ==
  ASSUME TypeOK, Phases, NEW tag \in Tags, NEW level \in Levels,
         accepted < MaxEntries, Enqueue(tag, level)
  PROVE  /\ accepted' \in 0..MaxEntries
         /\ entries' \in Seq(Entries)
         /\ notified' \in BOOLEAN
         /\ active' = active
         /\ active => /\ accepted' = accepted + 1
                      /\ Len(entries') = Len(entries) + 1
                      /\ \A i \in 1..Len(entries) : entries'[i] = entries[i]
                      /\ entries'[Len(entries) + 1] =
                           [id |-> accepted + 1, tag |-> tag, level |-> level]
         /\ ~active => UNCHANGED queueVars
<1> DEFINE e == [id |-> accepted + 1, tag |-> tag, level |-> level]
<1>1. CASE session /\ active
  <2>1. e \in Entries
    BY LogAssumption DEF TypeOK, Entries
  <2>2. /\ accepted' = accepted + 1
        /\ entries' = Append(entries, e)
        /\ notified' \in BOOLEAN
        /\ active' = active
    BY <1>1 DEF TypeOK, Enqueue, Push, Pushed, NotifiesOnPush
  <2> QED
    BY <1>1, <2>1, <2>2, LogAssumption DEF TypeOK
<1>2. CASE ~(session /\ active)
  <2>1. UNCHANGED queueVars
    BY <1>2 DEF Enqueue, Push
  <2>2. ~active
    BY <1>2 DEF Phases
  <2> QED
    BY <2>1, <2>2 DEF TypeOK, queueVars
<1> QED
  BY <1>1, <1>2

(* The entries a backend has and the log thread holds before there are any. *)
LEMMA Placeholders ==
  /\ NoCall \in Calls
  /\ [id |-> 1, tag |-> "client", level |-> "info"] \in Entries
BY LogAssumption DEF Calls, NoCall, Methods, Tags, Entries

(* The type invariant and the phases hold at the start. *)
LEMMA PhasesInit == Init => TypeOK /\ Phases
<1> SUFFICES ASSUME Init PROVE TypeOK /\ Phases
  OBVIOUS
<1>1. /\ session \in BOOLEAN /\ cancel \in BOOLEAN
      /\ active \in BOOLEAN /\ notified \in BOOLEAN
  BY DEF Init
<1>2. TypeOK
  BY <1>1, Placeholders, LogAssumption DEF Init, TypeOK
<1>3. Phases
  BY DEF Init, Phases, Busy
<1> QED
  BY <1>2, <1>3

(***************************************************************************)
(* No step leaves the types or the phases.  Only what Progress says about  *)
(* a busy log thread excludes that a backend logs before Start does.       *)
(***************************************************************************)
LEMMA PhasesStep ==
  ASSUME TypeOK, Phases, Numbered, Progress, [Next]_vars
  PROVE  TypeOK' /\ Phases'
<1> USE DEF TypeOK, Phases
<1>1. ASSUME NEW level \in Levels, Log(level)
      PROVE  TypeOK' /\ Phases'
  <2>1. /\ "client" \in Tags
        /\ accepted < MaxEntries
        /\ Enqueue("client", level)
    BY <1>1 DEF Log, Tags
  <2>2. logger = "calling" => accepted + 1 < MaxEntries
    BY <1>1 DEF Log
  <2>3. mutex = "free" /\ UNCHANGED <<mutex, sessionVars, loggerVars>>
    BY <1>1 DEF Log
  <2>4. /\ accepted' \in 0..MaxEntries
        /\ entries' \in Seq(Entries)
        /\ notified' \in BOOLEAN
        /\ active' = active
        /\ accepted' = IF active THEN accepted + 1 ELSE accepted
    BY <2>1, EnqueueFacts DEF queueVars
  <2> QED
    BY <2>2, <2>3, <2>4 DEF sessionVars, loggerVars, Busy
<1>2. ASSUME NEW n \in 0..MaxBackends, Start(n)
      PROVE  TypeOK' /\ Phases'
  <2>1. /\ session' \in BOOLEAN /\ cancel' \in BOOLEAN
        /\ active' \in BOOLEAN /\ notified' \in BOOLEAN
    BY <1>2 DEF Start
  <2>2. TypeOK'
    <3>1. written' \in [1..MaxBackends -> Calls]
      BY <1>2, Placeholders DEF Start
    <3>2. entries' \in Seq(Entries)
      BY <1>2 DEF Start
    <3>3. entry' \in Entries
      BY <1>2 DEF Start
    <3>4. /\ mutex' = "starting" /\ logger' = "loop"
          /\ accepted' = 0 /\ visit' = 1 /\ backends' \in 0..MaxBackends
      BY <1>2 DEF Start, AfterSpawn
    <3> QED
      BY <2>1, <3>1, <3>2, <3>3, <3>4, LogAssumption
  <2>3. Phases'
    BY <1>2 DEF Start, AfterSpawn, Busy
  <2> QED
    BY <2>2, <2>3
<1>3. CASE StopIdle
  BY <1>3, LogAssumption DEF StopIdle, queueVars, loggerVars, Busy
<1>4. CASE Stop
  BY <1>4 DEF Stop, queueVars, loggerVars, Busy
<1>5. CASE Announce
  <2>1. /\ "LOG_SESSION" \in Tags
        /\ "info" \in Levels
        /\ accepted < MaxEntries
        /\ Enqueue("LOG_SESSION", "info")
    <3>1. accepted = 0 /\ Enqueue("LOG_SESSION", "info")
      BY <1>5 DEF Announce
    <3>2. accepted < MaxEntries
      BY <3>1, LogAssumption
    <3> QED
      BY <3>1, <3>2, LogAssumption DEF Tags
  <2>2. /\ accepted' \in 0..MaxEntries
        /\ entries' \in Seq(Entries)
        /\ notified' \in BOOLEAN
        /\ active' = active
        /\ accepted' = IF active THEN accepted + 1 ELSE accepted
    BY <2>1, EnqueueFacts DEF queueVars
  <2>3. /\ mutex = "starting"
        /\ mutex' = "free"
        /\ UNCHANGED <<sessionVars, loggerVars>>
    BY <1>5 DEF Announce
  <2>4. logger # "calling"
    BY <2>3 DEF Numbered, Progress, Busy, Popped, Entries
  <2> QED
    BY <2>2, <2>3, <2>4 DEF sessionVars, loggerVars, Busy
<1>6. CASE StopQueue
  <2>1. active' \in BOOLEAN /\ notified' \in BOOLEAN
    BY <1>6 DEF StopQueue, WakesOnStop
  <2>2. TypeOK'
    BY <1>6, <2>1 DEF StopQueue, sessionVars, loggerVars
  <2>3. Phases'
    BY <1>6 DEF StopQueue, sessionVars, loggerVars, Busy
  <2> QED
    BY <2>2, <2>3
<1>7. CASE FinishStop
  <2>1. session' \in BOOLEAN
    BY <1>7 DEF FinishStop
  <2>2. TypeOK'
    BY <1>7, <2>1, LogAssumption DEF FinishStop, queueVars, loggerVars
  <2>3. Phases'
    BY <1>7 DEF FinishStop, Joined, queueVars, loggerVars, Busy
  <2> QED
    BY <2>2, <2>3
<1>8. CASE CheckCancel
  BY <1>8 DEF CheckCancel, Goto, queueVars, sessionVars, Busy
<1>9. CASE PopWait
  BY <1>9 DEF PopWait, Goto, sessionVars, Busy
<1>10. CASE PopNothing
  BY <1>10 DEF PopNothing, Goto, queueVars, sessionVars, Busy
<1>11. CASE PopTop
  <2>1. entries # <<>>
    BY <1>11 DEF PopTop, MustWait
  <2>2. Head(entries) \in Entries /\ Tail(entries) \in Seq(Entries)
    BY <2>1
  <2> QED
    BY <1>11, <2>2, LogAssumption DEF PopTop, Goto, sessionVars, Busy
<1>12. CASE SpuriousWake
  BY <1>12 DEF SpuriousWake, Goto, sessionVars, Busy
<1>13. CASE Write
  <2>1. [id |-> entry.id, tag |-> entry.tag, level |-> entry.level,
         method |-> Method(entry.level)] \in Calls
    <3>1. Method(entry.level) \in Methods
      BY LogAssumption DEF Entries, Methods, Method
    <3>2. /\ entry.id \in 0..MaxEntries
          /\ entry.tag \in Tags
          /\ entry.level \in Levels
      BY DEF Entries
    <3> QED
      BY <3>1, <3>2 DEF Calls
  <2>2. /\ written' \in [1..MaxBackends -> Calls]
        /\ visit <= backends
        /\ Goto("visiting", "writing")
        /\ UNCHANGED <<mutex, queueVars, sessionVars, entry, visit>>
    BY <1>13, <2>1 DEF Write, BackendsLeft
  <2> QED
    BY <2>2 DEF Goto, queueVars, sessionVars, Busy
<1>14. CASE BackendLogs
  BY <1>14 DEF BackendLogs, Goto, queueVars, sessionVars, Busy
<1>15. ASSUME NEW level \in Levels, BackendLogged(level)
       PROVE  TypeOK' /\ Phases'
  <2>1. /\ "client" \in Tags
        /\ accepted < MaxEntries
        /\ Enqueue("client", level)
    BY <1>15 DEF BackendLogged, Goto, Tags
  <2>2. /\ accepted' \in 0..MaxEntries
        /\ entries' \in Seq(Entries)
        /\ notified' \in BOOLEAN
        /\ active' = active
        /\ accepted' = IF active THEN accepted + 1 ELSE accepted
    BY <2>1, EnqueueFacts DEF queueVars
  <2>3. /\ mutex = "free"
        /\ Goto("calling", "writing")
        /\ UNCHANGED <<mutex, sessionVars, entry, visit, written>>
    BY <1>15 DEF BackendLogged
  <2> QED
    BY <2>2, <2>3 DEF Goto, sessionVars, Busy
<1>16. CASE BackendReturns
  BY <1>16, LogAssumption DEF BackendReturns, Goto, queueVars, sessionVars, Busy
<1>17. CASE Written
  BY <1>17 DEF Written, Goto, queueVars, sessionVars, Busy
<1>18. CASE UNCHANGED vars
  BY <1>18 DEF vars, queueVars, sessionVars, loggerVars, Busy
<1> QED
  BY <1>1, <1>2, <1>3, <1>4, <1>5, <1>6, <1>7, <1>8, <1>9, <1>10, <1>11, <1>12,
     <1>13, <1>14, <1>15, <1>16, <1>17, <1>18
  DEF Next, ClientStep, OwnerStep, LoggerStep, Wake

(* The numbering of the queue holds at the start and survives every step. *)
LEMMA NumberedInit == Init => Numbered
BY DEF Init, Numbered, Popped

(* Pushing the next entry keeps the numbering, and takes nothing out. *)
LEMMA PushKeepsNumbered ==
  ASSUME TypeOK, Phases, Numbered, NEW tag \in Tags, NEW level \in Levels,
         accepted < MaxEntries, Enqueue(tag, level),
         tag = "LOG_SESSION" <=> accepted = 0
  PROVE  Numbered' /\ (active => Popped' = Popped)
<1>1. CASE active
  <2>1. /\ accepted' = accepted + 1
        /\ Len(entries') = Len(entries) + 1
        /\ \A i \in 1..Len(entries) : entries'[i] = entries[i]
        /\ entries'[Len(entries) + 1] =
             [id |-> accepted + 1, tag |-> tag, level |-> level]
        /\ active'
    BY <1>1, EnqueueFacts
  <2>2. Len(entries) \in Nat /\ accepted \in Nat
    BY DEF TypeOK
  <2>3. Popped' = Popped
    BY <2>1, <2>2 DEF Popped
  <2>4. \A i \in 1..Len(entries') :
          entries'[i].id = Popped + i /\ IsFirst(entries'[i])
    <3> TAKE i \in 1..Len(entries')
    <3>1. CASE i <= Len(entries)
      BY <1>1, <2>1, <2>2, <3>1 DEF Numbered
    <3>2. CASE i = Len(entries) + 1
      BY <2>1, <2>2, <3>2 DEF Popped, IsFirst
    <3> QED
      BY <2>1, <2>2, <3>1, <3>2
  <2>5. Len(entries') <= accepted'
    BY <2>1, <2>2 DEF Numbered
  <2> QED
    BY <2>3, <2>4, <2>5 DEF Numbered
<1>2. CASE ~active
  <2>1. UNCHANGED <<active, entries, accepted>>
    BY <1>2, EnqueueFacts DEF queueVars
  <2> QED
    BY <1>2, <2>1 DEF Numbered, Popped, IsFirst
<1> QED
  BY <1>1, <1>2

(* Who pushes, and what it does to the rest of the state. *)
LEMMA PushSteps ==
  ASSUME TypeOK, Phases, Numbered, Progress,
         \/ \E level \in Levels : Log(level) \/ BackendLogged(level)
         \/ Announce
  PROVE  /\ \E tag \in Tags, level \in Levels :
              /\ accepted < MaxEntries
              /\ Enqueue(tag, level)
              /\ active => (tag = "LOG_SESSION" <=> accepted = 0)
         /\ UNCHANGED <<entry, visit, written, sessionVars>>
         /\ \/ logger' = logger
            \/ logger = "calling" /\ logger' = "writing"
<1>1. ASSUME NEW level \in Levels, Log(level)
      PROVE  /\ accepted < MaxEntries
             /\ Enqueue("client", level)
             /\ active => accepted # 0
             /\ UNCHANGED <<entry, visit, written, sessionVars, logger>>
  <2>1. accepted < MaxEntries
    BY <1>1, LogAssumption DEF Log, TypeOK
  <2>2. active => accepted # 0
    BY <1>1 DEF Log, Phases, TypeOK
  <2> QED
    BY <1>1, <2>1, <2>2 DEF Log, loggerVars
<1>2. ASSUME NEW level \in Levels, BackendLogged(level)
      PROVE  /\ accepted < MaxEntries
             /\ Enqueue("client", level)
             /\ active => accepted # 0
             /\ UNCHANGED <<entry, visit, written, sessionVars>>
             /\ logger = "calling" /\ logger' = "writing"
  <2>1. accepted < MaxEntries
    BY <1>2 DEF BackendLogged, Goto, Phases
  <2>2. active => accepted # 0
    BY <1>2 DEF BackendLogged, Phases, TypeOK
  <2> QED
    BY <1>2, <2>1, <2>2 DEF BackendLogged, Goto
<1>3. ASSUME Announce
      PROVE  /\ accepted < MaxEntries
             /\ Enqueue("LOG_SESSION", "info")
             /\ accepted = 0
             /\ UNCHANGED <<entry, visit, written, sessionVars, logger>>
  <2>1. accepted = 0
    BY <1>3 DEF Announce, Phases
  <2>2. accepted < MaxEntries
    BY <2>1, LogAssumption
  <2> QED
    BY <1>3, <2>1, <2>2 DEF Announce, loggerVars
<1>4. "client" \in Tags /\ "LOG_SESSION" \in Tags /\ "client" # "LOG_SESSION"
  BY DEF Tags
<1>5. "info" \in Levels
  BY LogAssumption
<1> QED
  BY <1>1, <1>2, <1>3, <1>4, <1>5

(* The numbering survives every step. *)
LEMMA NumberedStep ==
  ASSUME TypeOK, Phases, Numbered, Progress, [Next]_vars
  PROVE  Numbered'
<1>1. CASE \/ \E level \in Levels : Log(level) \/ BackendLogged(level)
           \/ Announce
  <2>1. PICK tag \in Tags, level \in Levels :
              /\ accepted < MaxEntries
              /\ Enqueue(tag, level)
              /\ active => (tag = "LOG_SESSION" <=> accepted = 0)
    BY <1>1, PushSteps
  <2>2. CASE active
    BY <2>1, <2>2, PushKeepsNumbered
  <2>3. CASE ~active
    <3>1. UNCHANGED <<active, entries, accepted>>
      BY <2>1, <2>3, EnqueueFacts DEF queueVars
    <3> QED
      BY <2>3, <3>1 DEF Numbered, Popped, IsFirst
  <2> QED
    BY <2>2, <2>3
<1>2. CASE \/ \E n \in 0..MaxBackends : Start(n)
           \/ StopQueue
  <2>1. entries' = <<>> /\ accepted' \in Nat
    BY <1>2 DEF Start, StopQueue, TypeOK
  <2> QED
    BY <2>1 DEF Numbered
<1>3. CASE PopTop
  <2>1. entries # <<>> /\ active
    BY <1>3 DEF PopTop, MustWait
  <2>2. entries' = Tail(entries) /\ UNCHANGED <<active, accepted>>
    BY <1>3 DEF PopTop
  <2>3. /\ Len(entries') = Len(entries) - 1
        /\ \A i \in 1..Len(entries') : entries'[i] = entries[i + 1]
        /\ Len(entries) \in Nat /\ accepted \in Nat
    BY <2>1, <2>2 DEF TypeOK
  <2>4. Popped' = Popped + 1 /\ Popped \in Int
    <3>1. Popped \in Int
      BY <2>3 DEF Popped
    <3>2. Popped' = accepted - Len(entries')
      BY <2>2 DEF Popped
    <3> QED
      BY <2>3, <3>1, <3>2 DEF Popped
  <2>5. ASSUME NEW i \in 1..Len(entries')
        PROVE  entries'[i].id = Popped' + i /\ IsFirst(entries'[i])
    <3>1. i + 1 \in 1..Len(entries) /\ entries'[i] = entries[i + 1]
      BY <2>3
    <3>2. entries[i + 1].id = Popped + (i + 1) /\ IsFirst(entries[i + 1])
      BY <2>1, <3>1 DEF Numbered
    <3> QED
      BY <2>4, <3>1, <3>2 DEF IsFirst
  <2> QED
    BY <2>2, <2>3, <2>5 DEF Numbered
<1>4. CASE \/ StopIdle \/ Stop \/ FinishStop \/ CheckCancel \/ PopWait \/ PopNothing
           \/ SpuriousWake \/ Write \/ BackendLogs \/ BackendReturns \/ Written
           \/ UNCHANGED vars
  <2>1. UNCHANGED <<active, entries, accepted>>
    BY <1>4 DEF StopIdle, Stop, FinishStop, CheckCancel, PopWait, PopNothing,
                SpuriousWake, Write, BackendLogs, BackendReturns, Written, vars,
                queueVars
  <2> QED
    BY <2>1 DEF Numbered, Popped, IsFirst
<1> QED
  BY <1>1, <1>2, <1>3, <1>4 DEF Next, ClientStep, OwnerStep, LoggerStep, Wake

-----------------------------------------------------------------------------

(* Nothing has been written at the start. *)
LEMMA ProgressInit == Init => Progress
BY DEF Init, Progress, Busy, Popped, SessionComesFirst, NoCall

(***************************************************************************)
(* The backends keep up with the queue.  An entry leaves the queue in      *)
(* PopTop and reaches the backends one by one in Write; a new one is of no *)
(* concern to them, and once Stop has begun nothing leaves the queue.      *)
(***************************************************************************)
LEMMA ProgressStep ==
  ASSUME TypeOK, Phases, Numbered, Progress, [Next]_vars
  PROVE  Progress'
<1>1. CASE \/ \E level \in Levels : Log(level) \/ BackendLogged(level)
           \/ Announce
  <2>1. PICK tag \in Tags, level \in Levels :
              /\ accepted < MaxEntries
              /\ Enqueue(tag, level)
              /\ active => (tag = "LOG_SESSION" <=> accepted = 0)
    BY <1>1, PushSteps
  <2>2. /\ UNCHANGED <<entry, visit, written, backends>>
        /\ \/ logger' = logger
           \/ logger = "calling" /\ logger' = "writing"
    BY <1>1, PushSteps DEF sessionVars
  <2>3. active' = active
    BY <2>1, EnqueueFacts
  <2>4. active => Popped' = Popped
    BY <2>1, PushKeepsNumbered
  <2> QED
    BY <2>2, <2>3, <2>4 DEF Progress, Busy, IsFirst, SessionComesFirst
<1>2. ASSUME NEW n \in 0..MaxBackends, Start(n)
      PROVE  Progress'
  <2>1. /\ logger' = "loop" /\ entries' = <<>> /\ accepted' = 0
        /\ backends' = n
        /\ written' = [b \in 1..MaxBackends |-> NoCall]
    BY <1>2 DEF Start
  <2>2. ~Busy' /\ Popped' = 0
    <3>1. ~Busy'
      BY <2>1 DEF Busy
    <3>2. Len(entries') = 0
      BY <2>1
    <3>3. Popped' = accepted' - Len(entries')
      BY DEF Popped
    <3>4. Popped' = 0
      BY <2>1, <3>2, <3>3
    <3> QED
      BY <3>1, <3>4
  <2>3. \A b \in 1..MaxBackends : written'[b].id = 0
    BY <2>1 DEF NoCall
  <2> QED
    BY <2>1, <2>2, <2>3, LogAssumption DEF Progress, SessionComesFirst
<1>3. CASE \/ StopIdle \/ FinishStop
  <2>1. logger = "exited" /\ logger' = logger /\ backends' = 0
    BY <1>3 DEF StopIdle, FinishStop, Joined, Phases, loggerVars
  <2>2. UNCHANGED written
    BY <1>3 DEF StopIdle, FinishStop, loggerVars
  <2> QED
    BY <2>1, <2>2 DEF Progress, Busy, SessionComesFirst
<1>4. CASE StopQueue
  <2>1. ~active' /\ UNCHANGED <<logger, entry, visit, written, backends>>
    BY <1>4 DEF StopQueue, loggerVars, sessionVars
  <2> QED
    BY <2>1 DEF Progress, Busy, IsFirst, SessionComesFirst
<1>5. CASE PopTop
  <2>1. entries # <<>> /\ active /\ ~Busy
    BY <1>5 DEF PopTop, MustWait, Goto, Busy
  <2>2. /\ logger' = "visiting"
        /\ entry' = entries[1]
        /\ entries' = Tail(entries)
        /\ visit' = 1
        /\ UNCHANGED <<active, accepted, backends, written>>
    BY <1>5, <2>1 DEF PopTop, Goto, sessionVars, TypeOK
  <2>3. /\ 1 \in 1..Len(entries)
        /\ Len(entries') = Len(entries) - 1
        /\ Len(entries) \in Nat /\ accepted \in Nat
    BY <2>1, <2>2 DEF TypeOK
  <2>4. Popped \in Int /\ Popped' = Popped + 1
    <3>1. Popped' = accepted - Len(entries') /\ Popped = accepted - Len(entries)
      BY <2>2 DEF Popped
    <3> QED
      BY <2>3, <3>1
  <2>5. entry'.id = Popped + 1 /\ IsFirst(entry')
    BY <2>1, <2>2, <2>3 DEF Numbered
  <2>6. \A b \in 1..backends : written[b].id = Popped
    BY <2>1 DEF Progress
  <2>7. \A b \in 1..backends' : written'[b].id = entry'.id - 1 /\ b >= visit'
    BY <2>2, <2>4, <2>5, <2>6 DEF TypeOK
  <2>8. Busy' /\ logger' = "visiting"
    BY <2>2 DEF Busy
  <2> QED
    BY <2>2, <2>4, <2>5, <2>7, <2>8 DEF Progress, IsFirst, SessionComesFirst, TypeOK
<1>6. CASE Write
  <2>1. /\ visit \in 1..backends /\ logger = "visiting" /\ logger' = "writing"
        /\ UNCHANGED <<active, entries, accepted, backends, entry, visit>>
        /\ backends \in 0..MaxBackends
    BY <1>6, LogAssumption DEF Write, BackendsLeft, Goto, queueVars, sessionVars, TypeOK
  <2>2. /\ written'[visit].id = entry.id
        /\ written'[visit].tag = entry.tag
        /\ \A b \in 1..MaxBackends : b # visit => written'[b] = written[b]
    BY <1>6, <2>1, LogAssumption DEF Write, TypeOK
  <2>3. IsFirst(entry)
    BY <2>1 DEF Progress, Busy
  <2>4. SessionComesFirst'
    BY <2>2, <2>3 DEF Progress, SessionComesFirst, IsFirst
  <2>5. \A b \in 1..backends :
          written'[b].id = IF b <= visit THEN entry.id ELSE entry.id - 1
    BY <2>1, <2>2, LogAssumption DEF Progress, Busy, TypeOK
  <2> QED
    BY <2>1, <2>3, <2>4, <2>5 DEF Progress, Busy, Popped, IsFirst, TypeOK
<1>7. CASE BackendReturns
  <2>1. /\ logger = "writing" /\ logger' = "visiting" /\ visit' = visit + 1
        /\ UNCHANGED <<active, entries, accepted, backends, entry, written>>
    BY <1>7 DEF BackendReturns, Goto, queueVars, sessionVars
  <2> QED
    BY <2>1 DEF Progress, Busy, Popped, IsFirst, SessionComesFirst, TypeOK
<1>8. CASE Written
  <2>1. /\ visit > backends /\ logger = "visiting" /\ logger' = "loop"
        /\ UNCHANGED <<active, entries, accepted, backends, entry, visit, written>>
    BY <1>8 DEF Written, BackendsLeft, Goto, queueVars, sessionVars, TypeOK
  <2> QED
    BY <2>1 DEF Progress, Busy, Popped, SessionComesFirst, TypeOK
<1>9. CASE \/ CheckCancel \/ PopWait \/ PopNothing \/ SpuriousWake \/ BackendLogs
           \/ Stop \/ UNCHANGED vars
  <2>1. /\ UNCHANGED <<active, entries, accepted, backends, entry, visit, written>>
        /\ \/ logger' = logger
           \/ ~Busy /\ ~Busy'
           \/ logger = "writing" /\ logger' = "calling"
    BY <1>9 DEF CheckCancel, PopWait, PopNothing, SpuriousWake, BackendLogs, Stop,
                vars, Goto, Busy, queueVars, sessionVars, loggerVars
  <2> QED
    BY <2>1 DEF Progress, Busy, Popped, IsFirst, SessionComesFirst
<1> QED
  BY <1>1, <1>2, <1>3, <1>4, <1>5, <1>6, <1>7, <1>8, <1>9
  DEF Next, ClientStep, OwnerStep, LoggerStep, Wake

-----------------------------------------------------------------------------

(* The inductive invariant holds in every state. *)
LEMMA Invariance == Spec => []IInv
<1>1. Init => IInv
  BY PhasesInit, NumberedInit, ProgressInit DEF IInv
<1>2. IInv /\ [Next]_vars => IInv'
  BY PhasesStep, NumberedStep, ProgressStep DEF IInv
<1> QED
  BY <1>1, <1>2, PTL DEF Spec

(***************************************************************************)
(* The state of the log is of its types: a session accepts no more than it *)
(* may and the log thread stays within the backends (debug.cpp).           *)
(***************************************************************************)
THEOREM TypeCorrect == Spec => []TypeOK
BY Invariance, PTL DEF IInv

(***************************************************************************)
(* thread_proc uses the queue and the backends without a lock, and neither *)
(* is ever destroyed under it: Stop joins first.                           *)
(***************************************************************************)
THEOREM NothingFreed == Spec => []NothingFreedInUse
<1>1. IInv => NothingFreedInUse
  BY DEF IInv, Phases, TypeOK, NothingFreedInUse
<1> QED
  BY <1>1, Invariance, PTL

(* The first entry of a session is the one Start logs, for every backend. *)
THEOREM SessionFirst == Spec => []SessionComesFirst
<1>1. IInv => SessionComesFirst
  BY DEF IInv, Progress
<1> QED
  BY <1>1, Invariance, PTL

(***************************************************************************)
(* A backend is given the entries of its session one after the other, none *)
(* twice and none left out (push, pop_top and thread_proc).                *)
(***************************************************************************)
THEOREM InOrder == Spec => WritesInOrder
<1> DEFINE Follows == \A b \in 1..MaxBackends :
             written'[b] # written[b] => written'[b].id \in {0, written[b].id + 1}
<1>1. IInv /\ [Next]_vars => [Follows]_vars
  <2> SUFFICES ASSUME IInv, [Next]_vars PROVE Follows
    OBVIOUS
  <2>1. ASSUME NEW n \in 0..MaxBackends, Start(n) PROVE Follows
    BY <2>1 DEF Start, NoCall
  <2>2. CASE Write
    <3>1. /\ visit \in 1..backends /\ logger = "visiting"
          /\ written' = [written EXCEPT ![visit] =
               [id |-> entry.id, tag |-> entry.tag, level |-> entry.level,
                method |-> Method(entry.level)]]
      BY <2>2 DEF Write, BackendsLeft, Goto, IInv, TypeOK
    <3>2. written[visit].id = entry.id - 1
      BY <3>1 DEF IInv, Progress, Busy
    <3>3. entry.id \in Nat
      BY LogAssumption DEF IInv, TypeOK, Entries
    <3>4. \A b \in 1..MaxBackends :
            written'[b] # written[b] => b = visit /\ written'[b].id = entry.id
      BY <3>1 DEF IInv, TypeOK
    <3> QED
      BY <3>2, <3>3, <3>4
  <2>3. CASE UNCHANGED written
    BY <2>3
  <2>4. (\E n \in 0..MaxBackends : Start(n)) \/ Write \/ UNCHANGED written
    BY DEF Next, ClientStep, OwnerStep, LoggerStep, vars, loggerVars, Log, StopIdle,
           Stop, Announce, StopQueue, FinishStop, CheckCancel, PopWait, PopNothing,
           PopTop, Wake, SpuriousWake, BackendLogs, BackendLogged, BackendReturns,
           Written
  <2> QED
    BY <2>1, <2>2, <2>3, <2>4
<1> QED
  BY <1>1, Invariance, PTL DEF Spec, WritesInOrder

=============================================================================
