------------------------- MODULE MessageQueueProofs -------------------------
(***************************************************************************)
(* Theorems about MessageQueue for every set of targets, receivers,        *)
(* threads and types, every set of delays and timeouts, and every bound.   *)
(***************************************************************************)
EXTENDS MessageQueue, SequenceTheorems, FiniteSetTheorems, TLAPS

-----------------------------------------------------------------------------
(* What the operators on the list return.                                  *)

(* What a list has in common with one it was cut from. *)
CutFrom(r, s) ==
  /\ \A i \in DOMAIN r : \E k \in DOMAIN s : r[i] = s[k]
  /\ \A i, j \in DOMAIN r :
       i < j => \E k, l \in DOMAIN s : k < l /\ r[i] = s[k] /\ r[j] = s[l]

(***************************************************************************)
(* The list without some of its entries has the kept entries as elements,  *)
(* in the order they had (the erase loops of Remove and Dispatch).         *)
(***************************************************************************)
LEMMA KeptFacts ==
  ASSUME NEW S, NEW s \in Seq(S), NEW K \in SUBSET DOMAIN s, NEW r \in Kept(s, K)
  PROVE  /\ r \in Seq(S)
         /\ CutFrom(r, s)
         /\ \A i \in DOMAIN r : \E k \in K : r[i] = s[k]
         /\ \A k \in K : \E i \in DOMAIN r : r[i] = s[k]
<1> DEFINE n == Cardinality(K)
<1>1. DOMAIN s = 1..Len(s) /\ Len(s) \in Nat /\ \A i \in 1..Len(s) : s[i] \in S
  BY LenProperties, ElementOfSeq
<1>2. n \in Nat
  <2>1. IsFiniteSet(1..Len(s))
    BY <1>1, FS_Interval
  <2> QED BY <1>1, <2>1, FS_Subset, FS_CardinalityType
<1>3. PICK g \in Enumerations(K) : r = [i \in 1..n |-> s[g[i]]]
  BY DEF Kept
<1>4. /\ g \in [1..n -> K]
      /\ K = {g[i] : i \in 1..n}
      /\ \A i, j \in 1..n : i < j => g[i] < g[j]
  BY DEF Enumerations
<1> HIDE DEF n
<1>5. r \in [1..n -> S]
  BY <1>1, <1>3, <1>4
<1>6. r \in Seq(S)
  BY <1>2, <1>5, SeqDef
<1>7. DOMAIN r = 1..n
  BY <1>3
<1>8. \A i \in 1..n : r[i] = s[g[i]] /\ g[i] \in K
  BY <1>3, <1>4
<1>9. \A k \in K : \E i \in 1..n : r[i] = s[k]
  BY <1>4, <1>8
<1>10. ASSUME NEW i \in 1..n, NEW j \in 1..n, i < j
       PROVE  \E k, l \in K : k < l /\ r[i] = s[k] /\ r[j] = s[l]
  <2>1. g[i] < g[j]
    BY <1>4, <1>10
  <2> QED
    BY <1>8, <2>1
<1>11. CutFrom(r, s)
  BY <1>7, <1>8, <1>10 DEF CutFrom
<1> QED
  BY <1>6, <1>7, <1>8, <1>9, <1>11

(***************************************************************************)
(* Enqueue inserts one message, due at the earliest now, with the next id, *)
(* at the place its due time gives it.                                     *)
(***************************************************************************)
Inserted(m, p) ==
  /\ m.id = posted + 1
  /\ m.time >= now
  /\ posted' = posted + 1
  /\ queue' \in Seq(Messages)
  /\ DOMAIN queue' = 1..Len(queue) + 1
  /\ \A i \in 1..p - 1 : queue'[i] = queue[i] /\ queue[i].time <= m.time
  /\ queue'[p] = m
  /\ \A i \in p + 1..Len(queue) + 1 : queue'[i] = queue[i - 1]
  /\ p <= Len(queue) => queue[p].time > m.time
  /\ notified' = (notified \/ (p = 1 /\ pc = "waiting"))
  /\ nextMessageTime' = queue'[1].time

(* Enqueue puts one well-typed message at one position of the list. *)
LEMMA EnqueueFacts ==
  ASSUME TypeOK, NEW t \in Targets \cup {Nil}, NEW type \in Types,
         NEW d \in Int, Enqueue(t, type, d)
  PROVE  \E m \in Messages, p \in 1..Len(queue) + 1 :
           /\ m.target = t /\ m.type = type /\ m.time = DueTime(d)
           /\ Inserted(m, p)
<1> DEFINE due == DueTime(d)
<1> DEFINE m == [id |-> posted + 1, target |-> t, type |-> type, time |-> due]
<1>1. /\ now \in 0..MaxTime /\ posted \in 0..MaxPosts /\ queue \in Seq(Messages)
      /\ MaxTime \in Nat /\ MaxPosts \in Nat
  BY QueueAssumption DEF TypeOK
<1>2. due \in Int /\ due >= now /\ due <= MaxTime /\ posted < MaxPosts
  BY <1>1 DEF DueTime, Enqueue
<1>3. m \in Messages
  BY <1>1, <1>2 DEF Messages
<1>4. m.id = posted + 1 /\ m.target = t /\ m.type = type /\ m.time = due
  OBVIOUS
<1>5. DOMAIN queue = 1..Len(queue) /\ Len(queue) \in Nat
      /\ \A i \in 1..Len(queue) : queue[i] \in Messages
  BY <1>1, LenProperties, ElementOfSeq
<1> HIDE DEF m
<1>6. PICK p \in 1..Len(queue) + 1 :
        /\ \A i \in 1..p - 1 : StaysAhead(queue[i], due)
        /\ p <= Len(queue) => ~StaysAhead(queue[p], due)
        /\ queue' = [i \in 1..Len(queue) + 1 |->
                       IF i < p THEN queue[i]
                       ELSE IF i = p THEN m ELSE queue[i - 1]]
        /\ notified' = (notified \/ (NotifiesAt(p) /\ pc = "waiting"))
  BY DEF Enqueue, m
<1>7. posted' = posted + 1 /\ nextMessageTime' = queue'[1].time
  BY DEF Enqueue
<1>8. queue' \in [1..Len(queue) + 1 -> Messages]
  BY <1>3, <1>5, <1>6
<1>9. queue' \in Seq(Messages) /\ DOMAIN queue' = 1..Len(queue) + 1
  BY <1>5, <1>8, SeqDef
<1>10. \A i \in 1..p - 1 : queue'[i] = queue[i]
  BY <1>5, <1>6
<1>11. queue'[p] = m
  BY <1>5, <1>6
<1>12. \A i \in p + 1..Len(queue) + 1 : queue'[i] = queue[i - 1]
  BY <1>5, <1>6
<1>13. \A i \in 1..p - 1 : queue[i].time <= m.time
  BY <1>4, <1>6 DEF StaysAhead
<1>14. p <= Len(queue) => queue[p].time > m.time
  <2>1. ASSUME p <= Len(queue) PROVE queue[p].time \in Nat
    BY <1>1, <1>5, <2>1 DEF Messages
  <2> QED BY <1>2, <1>4, <1>6, <2>1 DEF StaysAhead
<1>15. notified' = (notified \/ (p = 1 /\ pc = "waiting"))
  BY <1>6 DEF NotifiesAt
<1>16. Inserted(m, p)
  BY <1>2, <1>4, <1>7, <1>9, <1>10, <1>11, <1>12, <1>13, <1>14, <1>15 DEF Inserted
<1> QED
  BY <1>3, <1>4, <1>16

(* The inserted message joins the list's elements, and none leaves them. *)
LEMMA InsertElements ==
  ASSUME TypeOK, NEW m \in Messages, NEW p \in 1..Len(queue) + 1, Inserted(m, p)
  PROVE  Elements(queue)' = Elements(queue) \cup {m}
<1>1. DOMAIN queue = 1..Len(queue) /\ Len(queue) \in Nat
  BY LenProperties DEF TypeOK
<1>2. \A i \in DOMAIN queue' : queue'[i] = m \/ \E k \in DOMAIN queue : queue'[i] = queue[k]
  <2> SUFFICES ASSUME NEW i \in 1..Len(queue) + 1
               PROVE  queue'[i] = m \/ \E k \in DOMAIN queue : queue'[i] = queue[k]
    BY DEF Inserted
  <2>1. CASE i < p
    BY <1>1, <2>1 DEF Inserted
  <2>2. CASE i = p
    BY <2>2 DEF Inserted
  <2>3. CASE i > p
    BY <1>1, <2>3 DEF Inserted
  <2> QED BY <1>1, <2>1, <2>2, <2>3
<1>3. \E i \in DOMAIN queue' : queue'[i] = m
  BY <1>1 DEF Inserted
<1>4. ASSUME NEW k \in DOMAIN queue PROVE \E i \in DOMAIN queue' : queue'[i] = queue[k]
  <2>1. CASE k < p
    BY <1>1, <2>1 DEF Inserted
  <2>2. CASE k >= p
    <3>1. k + 1 \in DOMAIN queue' /\ queue'[k + 1] = queue[(k + 1) - 1]
      BY <1>1, <2>2 DEF Inserted
    <3>2. (k + 1) - 1 = k
      BY <1>1
    <3> QED BY <3>1, <3>2
  <2> QED BY <1>1, <2>1, <2>2
<1> QED
  BY <1>2, <1>3, <1>4 DEF Elements

(***************************************************************************)
(* RemoveSection keeps, in their order, the messages that do not match.    *)
(***************************************************************************)
LEMMA RemoveFacts ==
  ASSUME TypeOK, NEW t, NEW type, RemoveSection(t, type)
  PROVE  /\ queue' \in Seq(Messages)
         /\ CutFrom(queue', queue)
         /\ \A i \in DOMAIN queue' : ~Matches(queue'[i], t, type)
         /\ \A k \in DOMAIN queue :
              \/ Matches(queue[k], t, type)
              \/ \E i \in DOMAIN queue' : queue'[i] = queue[k]
         /\ UNCHANGED <<posted, notified>>
         /\ nextMessageTime' = IF queue' = <<>> THEN nextMessageTime ELSE queue'[1].time
<1> DEFINE K == {i \in DOMAIN queue : ~Matches(queue[i], t, type)}
<1>1. queue \in Seq(Messages) /\ K \in SUBSET DOMAIN queue /\ queue' \in Kept(queue, K)
  BY DEF TypeOK, RemoveSection
<1>2. /\ \A k \in K : ~Matches(queue[k], t, type)
      /\ \A k \in DOMAIN queue : Matches(queue[k], t, type) \/ k \in K
  OBVIOUS
<1>3. /\ UNCHANGED <<posted, notified>>
      /\ nextMessageTime' = IF queue' = <<>> THEN nextMessageTime ELSE queue'[1].time
  BY DEF RemoveSection, NextTimeAfterRemove
<1> HIDE DEF K
<1>4. /\ queue' \in Seq(Messages)
      /\ CutFrom(queue', queue)
      /\ \A i \in DOMAIN queue' : \E k \in K : queue'[i] = queue[k]
      /\ \A k \in K : \E i \in DOMAIN queue' : queue'[i] = queue[k]
  BY <1>1, KeptFacts
<1>5. \A i \in DOMAIN queue' : ~Matches(queue'[i], t, type)
  BY <1>2, <1>4
<1>6. \A k \in DOMAIN queue :
        \/ Matches(queue[k], t, type)
        \/ \E i \in DOMAIN queue' : queue'[i] = queue[k]
  BY <1>2, <1>4
<1> QED
  BY <1>3, <1>4, <1>5, <1>6

(***************************************************************************)
(* Post enqueues, or leaves the list alone: so it keeps the list's type.   *)
(***************************************************************************)
LEMMA PostSectionType ==
  ASSUME TypeOK, NEW t \in Targets \cup {Nil}, NEW type \in Types, NEW d \in Int,
         PostSection(t, type, d) \/ Enqueue(t, type, d)
  PROVE  /\ queue' \in Seq(Messages)
         /\ nextMessageTime' \in -1..MaxTime + 1
         /\ posted' \in 0..MaxPosts
         /\ notified' \in BOOLEAN
<1>1. CASE UNCHANGED <<listVars, notified>>
  BY <1>1 DEF TypeOK, listVars
<1>2. CASE Enqueue(t, type, d)
  <2>1. PICK m \in Messages, p \in 1..Len(queue) + 1 : Inserted(m, p)
    BY <1>2, EnqueueFacts
  <2>2. posted' \in 0..MaxPosts
    BY <2>1, QueueAssumption DEF Inserted, Messages
  <2>3. notified' \in BOOLEAN
    BY <2>1 DEF Inserted, TypeOK
  <2>4. Len(queue) \in Nat
    BY LenProperties DEF TypeOK
  <2>5. queue'[1] \in Messages /\ nextMessageTime' = queue'[1].time
    BY <2>1, <2>4, ElementOfSeq, LenProperties DEF Inserted
  <2>6. nextMessageTime' \in -1..MaxTime + 1
    BY <2>5, QueueAssumption DEF Messages
  <2> QED
    BY <2>1, <2>2, <2>3, <2>6 DEF Inserted
<1> QED
  BY <1>1, <1>2 DEF PostSection

(* Remove leaves the list and the atomic within their types. *)
LEMMA RemoveSectionType ==
  ASSUME TypeOK, NEW t, NEW type, RemoveSection(t, type)
  PROVE  /\ queue' \in Seq(Messages)
         /\ nextMessageTime' \in -1..MaxTime + 1
         /\ UNCHANGED <<posted, notified>>
<1>1. /\ queue' \in Seq(Messages)
      /\ UNCHANGED <<posted, notified>>
      /\ nextMessageTime' = IF queue' = <<>> THEN nextMessageTime ELSE queue'[1].time
  BY RemoveFacts
<1>2. CASE queue' = <<>>
  BY <1>1, <1>2 DEF TypeOK
<1>3. CASE queue' # <<>>
  <2>1. queue'[1] \in Messages
    BY <1>1, <1>3, EmptySeq, ElementOfSeq
  <2> QED
    BY <1>1, <1>3, <2>1, QueueAssumption DEF Messages
<1> QED
  BY <1>2, <1>3

(***************************************************************************)
(* The head of the batch is a message, and so is every other entry.        *)
(***************************************************************************)
LEMMA PopType ==
  ASSUME NEW S, NEW s \in Seq(S), s # <<>>
  PROVE  /\ s[1] \in S
         /\ Tail(s) \in Seq(S)
         /\ DOMAIN s = 1..Len(s) /\ Len(s) \in Nat \ {0}
         /\ DOMAIN Tail(s) = 1..Len(s) - 1
         /\ \A i \in 1..Len(s) - 1 : Tail(s)[i] = s[i + 1]
<1>1. Len(s) \in Nat \ {0} /\ DOMAIN s = 1..Len(s)
  BY EmptySeq, LenProperties
<1>2. s[1] \in S
  BY <1>1, ElementOfSeq
<1>3. Tail(s) \in Seq(S) /\ Len(Tail(s)) = Len(s) - 1
      /\ \A i \in 1..Len(Tail(s)) : Tail(s)[i] = s[i + 1]
  BY HeadTailProperties
<1>4. DOMAIN Tail(s) = 1..Len(s) - 1
  BY <1>3, LenProperties
<1> QED
  BY <1>1, <1>2, <1>3, <1>4

(***************************************************************************)
(* Sweep cuts the list in two, and drops due messages nobody can get.      *)
(***************************************************************************)
LEMMA SweepFacts ==
  ASSUME TypeOK, Sweep
  PROVE  /\ dispatch' \in Seq(Messages) /\ queue' \in Seq(Messages)
         /\ CutFrom(dispatch', queue) /\ CutFrom(queue', queue)
         /\ \A i \in DOMAIN dispatch' : \E k \in Due :
              dispatch'[i] = queue[k] /\ queue[k].target \in targets \cup {Nil}
         /\ \A i \in DOMAIN queue' : \E k \in DOMAIN queue \ Due : queue'[i] = queue[k]
         /\ \A k \in DOMAIN queue :
              \/ \E i \in DOMAIN queue' : queue'[i] = queue[k]
              \/ \E i \in DOMAIN dispatch' : dispatch'[i] = queue[k]
              \/ k \in Due /\ queue[k].target \notin targets \cup {Nil}
<1> DEFINE D == {i \in Due : queue[i].target \in targets \cup {Nil}}
<1> DEFINE R == DOMAIN queue \ Due
<1>1. D \in SUBSET DOMAIN queue /\ R \in SUBSET DOMAIN queue /\ queue \in Seq(Messages)
  BY DEF Due, TypeOK
<1>2. dispatch' \in Kept(queue, D) /\ queue' \in Kept(queue, R)
  BY DEF Sweep
<1>3. /\ \A k \in D : k \in Due /\ queue[k].target \in targets \cup {Nil}
      /\ \A k \in R : k \in DOMAIN queue \ Due
      /\ \A k \in DOMAIN queue :
           k \in D \/ k \in R \/ (k \in Due /\ queue[k].target \notin targets \cup {Nil})
  OBVIOUS
<1> HIDE DEF D, R
<1>4. /\ dispatch' \in Seq(Messages) /\ CutFrom(dispatch', queue)
      /\ \A i \in DOMAIN dispatch' : \E k \in D : dispatch'[i] = queue[k]
      /\ \A k \in D : \E i \in DOMAIN dispatch' : dispatch'[i] = queue[k]
  BY <1>1, <1>2, KeptFacts
<1>5. /\ queue' \in Seq(Messages) /\ CutFrom(queue', queue)
      /\ \A i \in DOMAIN queue' : \E k \in R : queue'[i] = queue[k]
      /\ \A k \in R : \E i \in DOMAIN queue' : queue'[i] = queue[k]
  BY <1>1, <1>2, KeptFacts
<1>6. \A k \in DOMAIN queue :
        \/ \E i \in DOMAIN queue' : queue'[i] = queue[k]
        \/ \E i \in DOMAIN dispatch' : dispatch'[i] = queue[k]
        \/ k \in Due /\ queue[k].target \notin targets \cup {Nil}
  BY <1>3, <1>4, <1>5
<1> QED
  BY <1>3, <1>4, <1>5, <1>6

(***************************************************************************)
(* Every step of the queue keeps the types of its variables.               *)
(***************************************************************************)
LEMMA TypeStep ==
  ASSUME TypeOK, [Next]_vars
  PROVE  TypeOK'
<1> USE QueueAssumption DEF registryVars, listVars, batchVars, loopVars
<1>0. Forever \in Int
  BY DEF Forever
<1>1. CASE UNCHANGED vars
  BY <1>1 DEF TypeOK, vars
<1>2. ASSUME NEW c \in Callers, ClientStep(c)
      PROVE  TypeOK'
  <2>1. ASSUME NEW t \in Targets, Register(c, t)
        PROVE  TypeOK'
    BY <2>1 DEF Register, TypeOK
  <2>2. ASSUME NEW t \in Targets, Unregister(c, t)
        PROVE  TypeOK'
    <3>1. Call("Remove", t, AnyType, 0) \in Calls
      BY DEF Call, Calls
    <3> QED
      BY <2>2, <3>1 DEF Unregister, TypeOK
  <2>3. ASSUME NEW t \in Targets, NEW type \in Types \cup {AnyType}, Remove(c, t, type)
        PROVE  TypeOK'
    <3>1. RemoveSection(t, type) /\ UNCHANGED <<now, registryVars, pending, loopVars>>
      BY <2>3 DEF Remove
    <3> QED
      BY <3>1, RemoveSectionType DEF TypeOK
  <2>4. ASSUME NEW t \in Targets, NEW type \in Types \ DebounceTypes, NEW d \in Delays,
               Post(c, t, type, d)
        PROVE  TypeOK'
    <3>1. PostSection(t, type, d) /\ UNCHANGED <<now, registryVars, pending, loopVars>>
      BY <2>4 DEF Post
    <3>2. d \in Int
      OBVIOUS
    <3> QED
      BY <3>1, <3>2, PostSectionType DEF TypeOK
  <2>5. ASSUME NEW type \in Types \ DebounceTypes, NEW d \in Delays, Broadcast(c, type, d)
        PROVE  TypeOK'
    <3>1. Enqueue(Nil, type, d) /\ UNCHANGED <<now, registryVars, pending, loopVars>>
      BY <2>5 DEF Broadcast
    <3>2. d \in Int /\ Nil \in Targets \cup {Nil}
      OBVIOUS
    <3> QED
      BY <3>1, <3>2, PostSectionType DEF TypeOK
  <2>6. ASSUME NEW t \in Targets \cup {Nil}, NEW type \in DebounceTypes, NEW d \in Delays,
               Debounce(c, t, type, d)
        PROVE  TypeOK'
    <3>1. RemoveSection(t, type) /\ UNCHANGED <<now, registryVars, loopVars>>
      BY <2>6 DEF Debounce
    <3>2. Call("Post", t, type, d) \in Calls
      BY DEF Call, Calls
    <3>3. pending' \in [Callers -> Calls]
      BY <2>6, <3>2 DEF Debounce, TypeOK
    <3> QED
      BY <3>1, <3>3, RemoveSectionType DEF TypeOK
  <2>7. ASSUME NEW r \in Receivers,
               \/ RegisterForBroadcasts(c, r)
               \/ UnregisterForBroadcasts(c, r)
               \/ Release(c, r)
        PROVE  TypeOK'
    BY <2>7 DEF RegisterForBroadcasts, UnregisterForBroadcasts, Release, TypeOK
  <2> QED
    BY <1>2, <2>1, <2>2, <2>3, <2>4, <2>5, <2>6, <2>7 DEF ClientStep
<1>3. ASSUME NEW c \in Callers, Resume(c)
      PROVE  TypeOK'
  <2>1. NoCall \in Calls
    BY DEF NoCall, Call, Calls
  <2>2. pending' = [pending EXCEPT ![c] = NoCall] /\ UNCHANGED <<now, registryVars, loopVars>>
    BY <1>3 DEF Resume, DebouncePost, UnregisterRemove
  <2>3. pending' \in [Callers -> Calls]
    BY <2>1, <2>2 DEF TypeOK
  <2>4. CASE DebouncePost(c)
    <3> DEFINE call == pending[c]
    <3>1. call \in Calls
      BY DEF TypeOK
    <3>2. PostSection(call.target, call.type, call.delay)
      BY <2>4 DEF DebouncePost
    <3>3. call.op = "Post"
      BY <2>4 DEF DebouncePost
    <3>4. call.target \in Targets \cup {Nil} /\ call.type \in Types /\ call.delay \in Int
      BY <3>1, <3>3 DEF Calls
    <3> HIDE DEF call
    <3> QED
      BY <2>2, <2>3, <3>2, <3>4, PostSectionType DEF TypeOK
  <2>5. CASE UnregisterRemove(c)
    <3>1. RemoveSection(pending[c].target, pending[c].type)
      BY <2>5 DEF UnregisterRemove
    <3> QED
      BY <2>2, <2>3, <3>1, RemoveSectionType DEF TypeOK
  <2> QED
    BY <1>3, <2>4, <2>5 DEF Resume
<1>4. CASE LoopStep
  <2>1. ASSUME NEW timeout \in Timeouts, WaitAndDispatch(timeout)
        PROVE  TypeOK'
    <3>1. wakeAt' \in Int
      <4>1. queue # <<>> => queue[1].time \in Int
        <5>1. queue # <<>> => queue[1] \in Messages
          BY EmptySeq, ElementOfSeq DEF TypeOK
        <5> QED BY <5>1 DEF Messages
      <4>2. timeout \in Int /\ now \in Int /\ Forever \in Int
        BY DEF TypeOK, Forever
      <4> QED BY <2>1, <4>1, <4>2 DEF WaitAndDispatch
    <3>2. /\ pc' \in {"dispatch", "waiting"} /\ notified' = FALSE
          /\ UNCHANGED <<now, registryVars, listVars, pending, seen, front, batchVars>>
      BY <2>1 DEF WaitAndDispatch, Goto
    <3> QED BY <3>1, <3>2 DEF TypeOK
  <2>2. CASE Wake
    BY <1>0, <2>2 DEF Wake, SpuriousWake, Goto, TypeOK
  <2>3. CASE ReadClock \/ CheckNextTime \/ EndBatch \/ ReadSize
    BY <2>3 DEF ReadClock, CheckNextTime, EndBatch, ReadSize, AfterSize, Goto, TypeOK
  <2>4. CASE Sweep
    <3>1. dispatch' \in Seq(Messages) /\ queue' \in Seq(Messages)
      BY <2>4, SweepFacts
    <3> QED BY <2>4, <3>1 DEF Sweep, Goto, TypeOK
  <2>5. CASE HandleTargeted \/ BeginBroadcast
    <3>1. dispatch \in Seq(Messages) /\ dispatch # <<>>
      BY <2>5 DEF TypeOK, HandleTargeted, BeginBroadcast
    <3>2. dispatch[1] \in Messages /\ Tail(dispatch) \in Seq(Messages)
      BY <3>1, PopType
    <3> QED
      BY <2>5, <3>2 DEF HandleTargeted, BeginBroadcast, Goto, TypeOK
  <2>6. ASSUME NEW r \in Receivers, VisitReceiver(r)
        PROVE  TypeOK'
    BY <2>6 DEF VisitReceiver, CopyAfter, PruneAfter, Goto, TypeOK
  <2>7. CASE EndHandle \/ EndBroadcast
    BY <2>7 DEF EndHandle, EndBroadcast, Goto, TypeOK
  <2>8. CASE ReadFront
    <3>1. front' \in Messages
      BY <2>8, EmptySeq, ElementOfSeq DEF ReadFront, TypeOK
    <3> QED BY <2>8, <3>1 DEF ReadFront, Goto, TypeOK
  <2>9. CASE StoreNextTime
    <3>1. nextMessageTime' \in -1..MaxTime + 1
      BY <2>9 DEF StoreNextTime, TypeOK, Messages
    <3> QED BY <2>9, <3>1 DEF StoreNextTime, Goto, TypeOK
  <2> QED
    BY <1>4, <2>1, <2>2, <2>3, <2>4, <2>5, <2>6, <2>7, <2>8, <2>9 DEF LoopStep
<1>5. CASE DispatchNow \/ SpuriousWake
  BY <1>0, <1>5 DEF DispatchNow, SpuriousWake, Goto, TypeOK
<1>6. CASE Tick
  BY <1>6 DEF Tick, TypeOK
<1> QED
  BY <1>1, <1>2, <1>3, <1>4, <1>5, <1>6 DEF Next

(* The initial state is of its types. *)
LEMMA TypeInit == Init => TypeOK
<1> SUFFICES ASSUME Init PROVE TypeOK
  OBVIOUS
<1>1. current \in Messages
  BY QueueAssumption DEF Init, Messages
<1>2. NoCall \in Calls
  BY DEF NoCall, Call, Calls
<1>3. <<>> \in Seq(Messages)
  BY EmptySeq
<1>4. 1 \in 0..MaxTime /\ 1 \in -1..MaxTime + 1 /\ 0 \in 0..MaxTime /\ 0 \in 0..MaxPosts
  BY QueueAssumption
<1>5. Forever \in Int
  BY DEF Forever
<1> QED
  BY <1>1, <1>2, <1>3, <1>4, <1>5 DEF Init, TypeOK

(***************************************************************************)
(* The variables keep their types in every behaviour of the queue.         *)
(***************************************************************************)
THEOREM TypeCorrect == Spec => []TypeOK
<1>1. Init => TypeOK
  BY TypeInit
<1>2. TypeOK /\ [Next]_vars => TypeOK'
  BY TypeStep
<1> QED
  BY <1>1, <1>2, PTL DEF Spec

-----------------------------------------------------------------------------
(* Messages are handled in order.                                          *)

(***************************************************************************)
(* The list comes after the batch and the batch after the message handled  *)
(* last.  Nothing that is enqueued later can come before either, since the *)
(* batch and that message were due already when the batch was swept.       *)
(***************************************************************************)
Sorted(s) == \A i, j \in DOMAIN s : i < j => Precedes(s[i], s[j])

AfterCurrent(s) ==
  \A i \in DOMAIN s : Precedes(current, s[i]) /\ s[i].id <= posted

InOrder ==
  /\ Sorted(queue)
  /\ Sorted(dispatch)
  /\ AfterCurrent(queue)
  /\ AfterCurrent(dispatch)
  /\ \A i \in DOMAIN dispatch, j \in DOMAIN queue : Precedes(dispatch[i], queue[j])
  /\ \A i \in DOMAIN dispatch : dispatch[i].time <= now
  /\ current.id <= posted
  /\ current.time <= now
  /\ seen <= now
  /\ pc \notin {"next", "receivers", "handling"} => dispatch = <<>>

(* A new message is due no earlier than now and has the highest number. *)
LEMMA EnqueueInOrder ==
  ASSUME TypeOK, InOrder, NEW m \in Messages, NEW p \in 1..Len(queue) + 1,
         Inserted(m, p), UNCHANGED <<now, pc, seen, dispatch, current>>
  PROVE  InOrder'
<1>1. DOMAIN queue = 1..Len(queue) /\ Len(queue) \in Nat
      /\ \A i \in 1..Len(queue) : queue[i] \in Messages
  BY LenProperties, ElementOfSeq DEF TypeOK
<1>2. /\ m.id = posted + 1 /\ m.time >= now /\ posted' = posted + 1
      /\ DOMAIN queue' = 1..Len(queue) + 1
      /\ \A i \in 1..p - 1 : queue'[i] = queue[i] /\ queue[i].time <= m.time
      /\ queue'[p] = m
      /\ \A i \in p + 1..Len(queue) + 1 : queue'[i] = queue[i - 1]
      /\ p <= Len(queue) => queue[p].time > m.time
  BY DEF Inserted
<1>3. posted \in Nat /\ now \in Nat /\ current \in Messages
      /\ \A n \in Messages : n.id \in Nat /\ n.time \in Nat
  BY QueueAssumption DEF TypeOK, Messages
<1>4. \A i \in DOMAIN dispatch : dispatch[i] \in Messages
  BY LenProperties, ElementOfSeq DEF TypeOK
<1>5. \A i \in 1..p - 1 : Precedes(queue[i], m)
  <2> SUFFICES ASSUME NEW i \in 1..p - 1 PROVE Precedes(queue[i], m)
    OBVIOUS
  <2>1. i \in DOMAIN queue /\ queue[i] \in Messages
    BY <1>1
  <2>2. queue[i].id <= posted /\ queue[i].time <= m.time
    BY <1>2, <2>1 DEF InOrder, AfterCurrent
  <2> QED
    BY <1>2, <1>3, <2>1, <2>2 DEF Precedes
<1>6. \A i \in p..Len(queue) : Precedes(m, queue[i])
  <2> SUFFICES ASSUME NEW i \in p..Len(queue) PROVE queue[i].time > m.time
    BY DEF Precedes
  <2>1. i = p \/ Precedes(queue[p], queue[i])
    BY <1>1 DEF InOrder, Sorted
  <2>2. queue[p].time <= queue[i].time
    BY <1>1, <1>3, <2>1 DEF Precedes
  <2> QED
    BY <1>1, <1>2, <1>3, <2>2
<1>7. Sorted(queue)'
  <2> SUFFICES ASSUME NEW i \in 1..Len(queue) + 1, NEW j \in 1..Len(queue) + 1, i < j
               PROVE  Precedes(queue'[i], queue'[j])
    BY <1>2 DEF Sorted
  <2>1. \A k, l \in 1..Len(queue) : k < l => Precedes(queue[k], queue[l])
    BY <1>1 DEF InOrder, Sorted
  <2>2. CASE j < p
    BY <1>1, <1>2, <2>1, <2>2
  <2>3. CASE j = p
    BY <1>1, <1>2, <1>5, <2>3
  <2>4. CASE j > p
    <3>1. queue'[j] = queue[j - 1] /\ j - 1 \in p..Len(queue)
      BY <1>1, <1>2, <2>4
    <3>2. CASE i < p
      BY <1>1, <1>2, <2>1, <3>1, <3>2
    <3>3. CASE i = p
      BY <1>2, <1>6, <3>1, <3>3
    <3>4. CASE i > p
      BY <1>1, <1>2, <2>1, <3>1, <3>4
    <3> QED BY <3>2, <3>3, <3>4
  <2> QED BY <2>2, <2>3, <2>4
<1>8. Precedes(current, m) /\ \A i \in DOMAIN dispatch : Precedes(dispatch[i], m)
  BY <1>2, <1>3, <1>4 DEF Precedes, InOrder, AfterCurrent
<1>9. \A i \in 1..Len(queue) + 1 :
        queue'[i] = m \/ \E k \in DOMAIN queue : queue'[i] = queue[k]
  BY <1>1, <1>2
<1>10. AfterCurrent(queue)'
  <2> SUFFICES ASSUME NEW i \in DOMAIN queue'
               PROVE  Precedes(current, queue'[i]) /\ queue'[i].id <= posted'
    BY DEF AfterCurrent, Precedes
  <2>1. CASE queue'[i] = m
    BY <1>2, <1>3, <1>8, <2>1
  <2>2. ASSUME NEW k \in DOMAIN queue, queue'[i] = queue[k]
        PROVE  Precedes(current, queue'[i]) /\ queue'[i].id <= posted'
    <3>1. queue[k] \in Messages /\ Precedes(current, queue[k]) /\ queue[k].id <= posted
      BY <1>1 DEF InOrder, AfterCurrent
    <3> QED
      BY <1>2, <1>3, <2>2, <3>1
  <2> QED
    BY <1>2, <1>9, <2>1, <2>2
<1>11. AfterCurrent(dispatch)'
  BY <1>2, <1>3, <1>4 DEF InOrder, AfterCurrent, Precedes
<1>12. (\A i \in DOMAIN dispatch, j \in DOMAIN queue : Precedes(dispatch[i], queue[j]))'
  BY <1>2, <1>8, <1>9 DEF InOrder, Precedes
<1> QED
  BY <1>2, <1>3, <1>7, <1>10, <1>11, <1>12 DEF InOrder, Sorted, Precedes

(* Taking messages out of the list disturbs nobody's order. *)
LEMMA RemoveInOrder ==
  ASSUME TypeOK, InOrder, CutFrom(queue', queue),
         UNCHANGED <<now, pc, seen, dispatch, current, posted>>
  PROVE  InOrder'
<1>1. Sorted(queue)'
  BY DEF InOrder, Sorted, CutFrom, Precedes
<1>2. AfterCurrent(queue)'
  BY DEF InOrder, AfterCurrent, CutFrom, Precedes
<1>3. (\A i \in DOMAIN dispatch, j \in DOMAIN queue : Precedes(dispatch[i], queue[j]))'
  BY DEF InOrder, CutFrom, Precedes
<1> QED
  BY <1>1, <1>2, <1>3 DEF InOrder, Sorted, AfterCurrent, Precedes

(* The due messages are a prefix of the list, and become the batch. *)
LEMMA SweepInOrder ==
  ASSUME TypeOK, InOrder, Sweep
  PROVE  InOrder'
<1>1. /\ CutFrom(dispatch', queue) /\ CutFrom(queue', queue)
      /\ \A i \in DOMAIN dispatch' : \E k \in Due : dispatch'[i] = queue[k]
      /\ \A i \in DOMAIN queue' : \E k \in DOMAIN queue \ Due : queue'[i] = queue[k]
  BY SweepFacts
<1>2. UNCHANGED <<now, seen, current, posted>> /\ pc' = "next"
  BY DEF Sweep, Goto
<1>3. DOMAIN queue = 1..Len(queue) /\ Len(queue) \in Nat
      /\ \A i \in 1..Len(queue) : queue[i].time \in Nat
  <2>1. DOMAIN queue = 1..Len(queue) /\ Len(queue) \in Nat
        /\ \A i \in 1..Len(queue) : queue[i] \in Messages
    BY LenProperties, ElementOfSeq DEF TypeOK
  <2> QED BY <2>1, QueueAssumption DEF Messages
<1>4. \A k \in Due : k \in DOMAIN queue /\ queue[k].time <= seen
  BY <1>3 DEF Due
<1>5. \A k \in Due, l \in DOMAIN queue \ Due : Precedes(queue[k], queue[l])
  <2> SUFFICES ASSUME NEW k \in Due, NEW l \in DOMAIN queue \ Due
               PROVE  k < l
    BY <1>4 DEF InOrder, Sorted
  <2> QED
    BY <1>3 DEF Due
<1>6. Sorted(queue)' /\ Sorted(dispatch)'
  BY <1>1 DEF InOrder, Sorted, CutFrom, Precedes
<1>7. AfterCurrent(queue)' /\ AfterCurrent(dispatch)'
  BY <1>1, <1>2 DEF InOrder, AfterCurrent, CutFrom, Precedes
<1>8. (\A i \in DOMAIN dispatch, j \in DOMAIN queue : Precedes(dispatch[i], queue[j]))'
  BY <1>1, <1>5 DEF Precedes
<1>9. \A i \in DOMAIN dispatch' : dispatch'[i].time <= now
  <2> SUFFICES ASSUME NEW k \in Due PROVE queue[k].time <= now
    BY <1>1
  <2>1. queue[k].time \in Nat /\ seen \in Nat /\ now \in Nat /\ seen <= now
    BY <1>3, <1>4, QueueAssumption DEF InOrder, TypeOK
  <2> QED BY <1>4, <2>1
<1> QED
  BY <1>2, <1>6, <1>7, <1>8, <1>9 DEF InOrder

(***************************************************************************)
(* Handing over the head of the batch.                                     *)
(***************************************************************************)
HandOver ==
  /\ dispatch # <<>>
  /\ current' = dispatch[1]
  /\ dispatch' = Tail(dispatch)
  /\ pc' \in {"handling", "receivers"}
  /\ UNCHANGED <<now, seen, queue, posted, targets>>

(* What is handed over comes after what was, and is due. *)
LEMMA HandOverInOrder ==
  ASSUME TypeOK, InOrder, HandOver
  PROVE  /\ InOrder'
         /\ Precedes(current, current') /\ current'.time <= now
<1>1. /\ dispatch[1] \in Messages
      /\ DOMAIN dispatch = 1..Len(dispatch) /\ Len(dispatch) \in Nat \ {0}
      /\ DOMAIN Tail(dispatch) = 1..Len(dispatch) - 1
      /\ \A i \in 1..Len(dispatch) - 1 : Tail(dispatch)[i] = dispatch[i + 1]
  BY PopType DEF TypeOK, HandOver
<1>2. /\ current' = dispatch[1]
      /\ DOMAIN dispatch' = 1..Len(dispatch) - 1
      /\ \A i \in DOMAIN dispatch' : dispatch'[i] = dispatch[i + 1]
                                     /\ i + 1 \in DOMAIN dispatch /\ 1 < i + 1
      /\ UNCHANGED <<now, seen, queue, posted>>
      /\ pc' \in {"handling", "receivers"}
  BY <1>1 DEF HandOver
<1>3. 1 \in DOMAIN dispatch
  BY <1>1
<1>4. Precedes(current, current') /\ current'.time <= now /\ current'.id <= posted
  BY <1>2, <1>3 DEF InOrder, AfterCurrent
<1>5. Sorted(dispatch)'
  <2> SUFFICES ASSUME NEW i \in DOMAIN dispatch', NEW j \in DOMAIN dispatch', i < j
               PROVE  Precedes(dispatch'[i], dispatch'[j])
    BY DEF Sorted, Precedes
  <2>1. i + 1 < j + 1
    BY <1>1, <1>2
  <2> QED
    BY <1>2, <2>1 DEF InOrder, Sorted
<1>6. AfterCurrent(dispatch)'
  BY <1>2, <1>3 DEF InOrder, AfterCurrent, Sorted, Precedes
<1>7. AfterCurrent(queue)'
  BY <1>2, <1>3 DEF InOrder, AfterCurrent, Precedes
<1>8. (\A i \in DOMAIN dispatch, j \in DOMAIN queue : Precedes(dispatch[i], queue[j]))'
  BY <1>2 DEF InOrder, Precedes
<1>9. \A i \in DOMAIN dispatch' : dispatch'[i].time <= now
  BY <1>2 DEF InOrder
<1> QED
  BY <1>2, <1>4, <1>5, <1>6, <1>7, <1>8, <1>9 DEF InOrder, Sorted, Precedes

(***************************************************************************)
(* What a client's step does to the list: nothing, one message more, or    *)
(* one call of RemoveSection.  It leaves the loop where it is.             *)
(***************************************************************************)
LEMMA ClientEffect ==
  ASSUME TypeOK, NEW c \in Callers, ClientStep(c) \/ Resume(c)
  PROVE  /\ UNCHANGED <<now, loopVars>>
         /\ \/ UNCHANGED <<listVars, notified>>
            \/ /\ \E m \in Messages, p \in 1..Len(queue) + 1 :
                    m.target \in targets \cup {Nil} /\ Inserted(m, p)
               /\ UNCHANGED registryVars
            \/ /\ \E t \in Targets \cup {Nil}, type \in Types \cup {AnyType} :
                    RemoveSection(t, type)
               /\ UNCHANGED registryVars
<1> DEFINE Same == UNCHANGED <<listVars, notified>>
           More == /\ \E m \in Messages, p \in 1..Len(queue) + 1 :
                        m.target \in targets \cup {Nil} /\ Inserted(m, p)
                   /\ UNCHANGED registryVars
           Less == /\ \E t \in Targets \cup {Nil}, type \in Types \cup {AnyType} :
                        RemoveSection(t, type)
                   /\ UNCHANGED registryVars
           Effect == UNCHANGED <<now, loopVars>> /\ (Same \/ More \/ Less)
<1>1. ASSUME NEW t \in Targets \cup {Nil}, NEW type \in Types, NEW d \in Int,
             Enqueue(t, type, d), t \in targets \cup {Nil}, UNCHANGED registryVars
      PROVE  More
  <2>1. \E m \in Messages, p \in 1..Len(queue) + 1 :
          m.target = t /\ m.type = type /\ Inserted(m, p)
    BY <1>1, EnqueueFacts
  <2> QED
    BY <1>1, <2>1
<1>2. ASSUME NEW t \in Targets \cup {Nil}, NEW type \in Types, NEW d \in Int,
             PostSection(t, type, d), UNCHANGED registryVars
      PROVE  Same \/ More
  <2>1. CASE t \in targets
    BY <1>1, <1>2, <2>1 DEF PostSection
  <2>2. CASE t \notin targets
    BY <1>2, <2>2 DEF PostSection
  <2> QED BY <2>1, <2>2
<1>3. Types \ DebounceTypes \subseteq Types /\ DebounceTypes \subseteq Types
      /\ Delays \subseteq Int
  BY QueueAssumption
<1> HIDE DEF Same, More, Less
<1>4. ASSUME NEW t \in Targets, Register(c, t) \/ Unregister(c, t)
      PROVE  Effect
  BY <1>4 DEF Register, Unregister, Same
<1>5. ASSUME NEW t \in Targets, NEW type \in Types \cup {AnyType}, Remove(c, t, type)
      PROVE  Effect
  BY <1>5 DEF Remove, Less
<1>6. ASSUME NEW t \in Targets, NEW type \in Types \ DebounceTypes, NEW d \in Delays,
             Post(c, t, type, d)
      PROVE  Effect
  BY <1>2, <1>3, <1>6 DEF Post
<1>7. ASSUME NEW type \in Types \ DebounceTypes, NEW d \in Delays, Broadcast(c, type, d)
      PROVE  Effect
  BY <1>1, <1>3, <1>7 DEF Broadcast
<1>8. ASSUME NEW t \in Targets \cup {Nil}, NEW type \in DebounceTypes, NEW d \in Delays,
             Debounce(c, t, type, d)
      PROVE  Effect
  <2>1. type \in Types \cup {AnyType}
    BY <1>3
  <2> QED BY <1>8, <2>1 DEF Debounce, Less
<1>9. ASSUME NEW r \in Receivers,
             \/ RegisterForBroadcasts(c, r)
             \/ UnregisterForBroadcasts(c, r)
             \/ Release(c, r)
      PROVE  Effect
  BY <1>9 DEF RegisterForBroadcasts, UnregisterForBroadcasts, Release, Same
<1>10. ASSUME DebouncePost(c) PROVE Effect
  <2> DEFINE call == pending[c]
  <2>1. call \in Calls /\ call.op = "Post" /\ PostSection(call.target, call.type, call.delay)
        /\ UNCHANGED <<now, registryVars, loopVars>>
    BY <1>10 DEF DebouncePost, TypeOK
  <2>2. call.target \in Targets \cup {Nil} /\ call.type \in Types /\ call.delay \in Int
    BY <1>3, <2>1 DEF Calls
  <2> HIDE DEF call
  <2>3. PICK t \in Targets \cup {Nil}, type \in Types, d \in Int : PostSection(t, type, d)
    BY <2>1, <2>2
  <2>4. UNCHANGED <<now, loopVars>> /\ UNCHANGED registryVars
    BY <2>1
  <2>5. Same \/ More
    BY <1>2, <2>3, <2>4
  <2> QED BY <2>4, <2>5
<1>11. ASSUME UnregisterRemove(c) PROVE Effect
  <2> DEFINE call == pending[c]
  <2>1. call \in Calls /\ call.op = "Remove" /\ RemoveSection(call.target, call.type)
        /\ UNCHANGED <<now, registryVars, loopVars>>
    BY <1>11 DEF UnregisterRemove, TypeOK
  <2>2. call.target \in Targets \cup {Nil} /\ call.type \in Types \cup {AnyType}
    BY <2>1 DEF Calls
  <2> HIDE DEF call
  <2>3. UNCHANGED <<now, loopVars>> /\ UNCHANGED registryVars
    BY <2>1
  <2>4. Less
    BY <2>1, <2>2, <2>3 DEF Less
  <2> QED BY <2>3, <2>4
<1>12. Effect
  BY <1>4, <1>5, <1>6, <1>7, <1>8, <1>9, <1>10, <1>11 DEF ClientStep, Resume
<1> QED
  BY <1>12 DEF Same, More, Less

(***************************************************************************)
(* What a step of the loop, or of the clock, does to the list, the batch   *)
(* and the message handled last: only Sweep and the two hand-overs change  *)
(* any of them.                                                            *)
(***************************************************************************)
LoopOrClock == LoopStep \/ DispatchNow \/ SpuriousWake \/ Tick

Still ==
  /\ UNCHANGED <<queue, posted, dispatch, current, targets>>
  /\ \/ UNCHANGED <<now, seen, pc>>
     \/ now' = now + 1 /\ UNCHANGED <<seen, pc>>
     \/ /\ UNCHANGED <<now, seen>>
        /\ dispatch = <<>> \/ pc' \in {"next", "receivers", "handling"}
     \/ UNCHANGED now /\ seen' = now /\ dispatch = <<>>

(* A step of the loop or the clock sweeps, hands over, or does neither. *)
LEMMA LoopEffect ==
  ASSUME InOrder, LoopOrClock
  PROVE  Sweep \/ HandOver \/ Still
<1> USE DEF registryVars, listVars, batchVars, loopVars, Goto
<1>1. pc \in {"idle", "waiting", "dispatch", "check", "size", "front", "store"}
        => dispatch = <<>>
  BY DEF InOrder
<1>2. ASSUME NEW timeout \in Timeouts, WaitAndDispatch(timeout)
      PROVE  Still
  BY <1>1, <1>2 DEF WaitAndDispatch, Still
<1>3. ASSUME DispatchNow \/ SpuriousWake \/ Wake
      PROVE  Still
  BY <1>1, <1>3 DEF DispatchNow, SpuriousWake, Wake, Still
<1>4. ASSUME ReadClock \/ CheckNextTime
      PROVE  Still
  BY <1>1, <1>4 DEF ReadClock, CheckNextTime, Still
<1>5. ASSUME HandleTargeted \/ BeginBroadcast
      PROVE  HandOver
  BY <1>5 DEF HandleTargeted, BeginBroadcast, HandOver
<1>6. ASSUME NEW r \in Receivers, VisitReceiver(r)
      PROVE  Still
  BY <1>6 DEF VisitReceiver, Still
<1>7. ASSUME EndHandle \/ EndBroadcast \/ EndBatch
      PROVE  Still
  BY <1>7 DEF EndHandle, EndBroadcast, EndBatch, Still
<1>8. ASSUME ReadSize \/ ReadFront \/ StoreNextTime
      PROVE  Still
  BY <1>1, <1>8 DEF ReadSize, ReadFront, StoreNextTime, Still
<1>9. ASSUME Tick
      PROVE  Still
  BY <1>9 DEF Tick, Still
<1> QED
  BY <1>2, <1>3, <1>4, <1>5, <1>6, <1>7, <1>8, <1>9 DEF LoopOrClock, LoopStep

(* A step is a client's, the loop's, the clock's or none. *)
LEMMA NextSplit ==
  ASSUME [Next]_vars
  PROVE  \/ UNCHANGED vars
         \/ \E c \in Callers : ClientStep(c) \/ Resume(c)
         \/ LoopOrClock
BY DEF Next, LoopOrClock

(***************************************************************************)
(* Every step keeps the order, and the one that hands a message over hands *)
(* over a due one that comes after the last.                               *)
(***************************************************************************)
LEMMA InOrderStep ==
  ASSUME TypeOK, InOrder, [Next]_vars
  PROVE  /\ InOrder'
         /\ current' # current => Precedes(current, current') /\ current'.time <= now
<1> DEFINE Goal == /\ InOrder'
                   /\ current' # current =>
                        Precedes(current, current') /\ current'.time <= now
<1>1. ASSUME UNCHANGED <<now, seen, pc, queue, posted, dispatch, current>>
      PROVE  Goal
  BY <1>1 DEF InOrder, Sorted, AfterCurrent, Precedes
<1>2. ASSUME UNCHANGED vars PROVE Goal
  BY <1>1, <1>2 DEF vars, listVars, loopVars, batchVars
<1>3. ASSUME NEW c \in Callers, ClientStep(c) \/ Resume(c)
      PROVE  Goal
  <2>1. UNCHANGED <<now, pc, seen, dispatch, current>>
    BY <1>3, ClientEffect DEF loopVars, batchVars
  <2>2. ASSUME UNCHANGED <<listVars, notified>> PROVE Goal
    BY <1>1, <2>1, <2>2 DEF listVars
  <2>3. ASSUME NEW m \in Messages, NEW p \in 1..Len(queue) + 1, Inserted(m, p)
        PROVE  Goal
    BY <2>1, <2>3, EnqueueInOrder
  <2>4. ASSUME NEW t, NEW type, RemoveSection(t, type)
        PROVE  Goal
    BY <2>1, <2>4, RemoveFacts, RemoveInOrder
  <2> QED
    BY <1>3, <2>2, <2>3, <2>4, ClientEffect
<1>4. ASSUME LoopOrClock PROVE Goal
  <2>1. ASSUME Sweep PROVE Goal
    BY <2>1, SweepInOrder DEF Sweep
  <2>2. ASSUME HandOver PROVE Goal
    BY <2>2, HandOverInOrder
  <2>3. ASSUME Still PROVE Goal
    <3>1. /\ UNCHANGED <<queue, posted, dispatch, current>>
          /\ now' = now \/ now' = now + 1
          /\ seen' = seen \/ seen' = now
          /\ \/ UNCHANGED pc
             \/ dispatch = <<>>
             \/ pc' \in {"next", "receivers", "handling"}
      BY <2>3 DEF Still
    <3>2. now \in Int /\ seen \in Int /\ current \in Messages
          /\ \A i \in DOMAIN dispatch : dispatch[i] \in Messages
      BY LenProperties, ElementOfSeq DEF TypeOK
    <3>3. \A m \in Messages : m.time \in Int
      BY QueueAssumption DEF Messages
    <3>4. /\ seen' <= now' /\ current'.time <= now'
          /\ \A i \in DOMAIN dispatch' : dispatch'[i].time <= now'
      BY <3>1, <3>2, <3>3 DEF InOrder
    <3>5. pc' \notin {"next", "receivers", "handling"} => dispatch' = <<>>
      BY <3>1 DEF InOrder
    <3> QED
      BY <3>1, <3>4, <3>5 DEF InOrder, Sorted, AfterCurrent, Precedes
  <2> QED
    BY <1>4, <2>1, <2>2, <2>3, LoopEffect
<1> HIDE DEF Goal
<1>5. Goal
  BY <1>2, <1>3, <1>4, NextSplit
<1> QED
  BY <1>5 DEF Goal

(* There is nothing to be out of order at the start. *)
LEMMA InOrderInit == Init => InOrder
BY QueueAssumption DEF Init, InOrder, Sorted, AfterCurrent

(***************************************************************************)
(* The queue never handles a message twice, out of order or early.         *)
(***************************************************************************)
THEOREM HandlesInOrder == Spec => HandledInOrder
<1>1. Init => TypeOK /\ InOrder
  BY TypeInit, InOrderInit
<1>2. TypeOK /\ InOrder /\ [Next]_vars => (TypeOK /\ InOrder)'
  BY TypeStep, InOrderStep
<1>3. TypeOK /\ InOrder /\ [Next]_vars =>
        [current' # current => Precedes(current, current') /\ current'.time <= now]_vars
  BY InOrderStep
<1> QED
  BY <1>1, <1>2, <1>3, PTL DEF Spec, HandledInOrder

-----------------------------------------------------------------------------
(* Unregister leaves no orphan behind.                                     *)

Orphaned(t) == \E i \in DOMAIN queue : queue[i].target = t
Draining(t) == \E c \in Callers : pending[c].op = "Remove" /\ pending[c].target = t

(* Only a step that adds a message for t can make an orphan of t anew. *)
LEMMA OrphansAreOld ==
  ASSUME TypeOK, InOrder, [Next]_vars, NEW t \in Targets \ targets, Orphaned(t)'
  PROVE  Orphaned(t)
<1> USE DEF Orphaned
<1>1. t # Nil
  BY QueueAssumption
<1>2. CASE UNCHANGED queue
  BY <1>2
<1>3. CASE CutFrom(queue', queue)
  BY <1>3 DEF CutFrom
<1>4. ASSUME NEW m \in Messages, NEW p \in 1..Len(queue) + 1,
             m.target \in targets \cup {Nil}, Inserted(m, p)
      PROVE  Orphaned(t)
  <2>1. DOMAIN queue = 1..Len(queue) /\ Len(queue) \in Nat
    BY LenProperties DEF TypeOK
  <2>2. \A i \in DOMAIN queue' : queue'[i] = m \/ \E k \in DOMAIN queue : queue'[i] = queue[k]
    BY <1>4, <2>1 DEF Inserted
  <2> QED
    BY <1>1, <1>4, <2>2
<1>5. ASSUME NEW c \in Callers, ClientStep(c) \/ Resume(c)
      PROVE  Orphaned(t)
  <2>1. ASSUME NEW u, NEW type, RemoveSection(u, type) PROVE Orphaned(t)
    BY <1>3, <2>1, RemoveFacts
  <2> QED
    BY <1>2, <1>4, <1>5, <2>1, ClientEffect DEF listVars
<1>6. CASE LoopOrClock
  BY <1>2, <1>3, <1>6, LoopEffect, SweepFacts DEF HandOver, Still
<1> QED
  BY <1>2, <1>5, <1>6, NextSplit DEF vars, listVars

(* An orphan has somebody to remove it, before and after every step. *)
LEMMA UnregisterDrainsStep ==
  ASSUME TypeOK, InOrder, UnregisterDrains, [Next]_vars
  PROVE  UnregisterDrains'
<1> SUFFICES ASSUME NEW t \in Targets, t \notin targets', Orphaned(t)'
             PROVE  Draining(t)'
  BY DEF UnregisterDrains, Orphaned, Draining
<1> USE DEF registryVars, listVars, batchVars, loopVars
<1>1. pending \in [Callers -> Calls]
  BY DEF TypeOK
<1>2. CASE t \in targets
  <2>1. ASSUME NEW c \in Callers, NEW u \in Targets, Unregister(c, u)
        PROVE  Draining(t)'
    <3>1. u = t
      BY <1>2, <2>1 DEF Unregister
    <3>2. pending'[c] = Call("Remove", t, AnyType, 0)
      BY <1>1, <2>1, <3>1 DEF Unregister
    <3> QED
      BY <3>2 DEF Draining, Call
  <2>2. \/ targets \subseteq targets'
        \/ \E c \in Callers, u \in Targets : Unregister(c, u)
    <3>1. ASSUME NEW c \in Callers, ClientStep(c)
          PROVE  targets \subseteq targets' \/ \E u \in Targets : Unregister(c, u)
      BY <3>1 DEF ClientStep, Register, Remove, Post, Broadcast, Debounce,
                  RegisterForBroadcasts, UnregisterForBroadcasts, Release
    <3>2. ASSUME NEW c \in Callers, Resume(c)
          PROVE  targets \subseteq targets'
      BY <3>2 DEF Resume, DebouncePost, UnregisterRemove
    <3>3. CASE LoopOrClock
      BY <3>3, LoopEffect DEF Sweep, HandOver, Still
    <3> QED
      BY <3>1, <3>2, <3>3, NextSplit DEF vars
  <2> QED
    BY <1>2, <2>1, <2>2
<1>3. CASE t \notin targets
  <2>1. Orphaned(t)
    BY <1>3, OrphansAreOld
  <2>2. PICK c \in Callers : pending[c].op = "Remove" /\ pending[c].target = t
    BY <1>3, <2>1 DEF UnregisterDrains, Orphaned
  <2>3. CASE pending'[c] = pending[c]
    BY <2>2, <2>3 DEF Draining
  <2>4. CASE UnregisterRemove(c)
    <3>1. pending[c].type = AnyType
      BY <1>1, <2>2 DEF Calls
    <3>2. RemoveSection(t, AnyType)
      BY <2>2, <2>4, <3>1 DEF UnregisterRemove
    <3>3. \A i \in DOMAIN queue' : queue'[i].target # t
      BY <3>2, RemoveFacts DEF Matches
    <3> QED
      BY <3>3 DEF Orphaned
  <2>5. pending'[c] = pending[c] \/ UnregisterRemove(c)
    <3>1. ASSUME NEW d \in Callers, ClientStep(d)
          PROVE  pending'[c] = pending[c]
      <4>1. pending[d].op = "none" \/ UNCHANGED pending
        BY <3>1 DEF ClientStep, Register, Unregister, Remove, Post, Broadcast, Debounce,
                    RegisterForBroadcasts, UnregisterForBroadcasts, Release, CanCall
      <4>2. \/ UNCHANGED pending
            \/ \E x : pending' = [pending EXCEPT ![d] = x]
        BY <3>1 DEF ClientStep, Register, Unregister, Remove, Post, Broadcast, Debounce,
                    RegisterForBroadcasts, UnregisterForBroadcasts, Release
      <4> QED
        BY <1>1, <2>2, <4>1, <4>2
    <3>2. ASSUME NEW d \in Callers, Resume(d)
          PROVE  pending'[c] = pending[c] \/ UnregisterRemove(c)
      BY <1>1, <2>2, <3>2 DEF Resume, DebouncePost, UnregisterRemove
    <3>3. ASSUME LoopOrClock PROVE UNCHANGED pending
      BY <3>3 DEF LoopOrClock, LoopStep, WaitAndDispatch, DispatchNow, SpuriousWake, Wake,
           ReadClock, CheckNextTime, Sweep, HandleTargeted, BeginBroadcast, VisitReceiver,
           EndHandle, EndBroadcast, EndBatch, ReadSize, ReadFront, StoreNextTime, Tick
    <3> QED
      BY <3>1, <3>2, <3>3, NextSplit DEF vars
  <2> QED
    BY <2>3, <2>4, <2>5
<1> QED
  BY <1>2, <1>3

(***************************************************************************)
(* Both sections of Unregister together always drain the list.             *)
(***************************************************************************)
THEOREM NoOrphans == Spec => []UnregisterDrains
<1>1. Init => TypeOK /\ InOrder /\ UnregisterDrains
  BY TypeInit, InOrderInit DEF Init, UnregisterDrains
<1>2. TypeOK /\ InOrder /\ UnregisterDrains /\ [Next]_vars
        => (TypeOK /\ InOrder /\ UnregisterDrains)'
  BY TypeStep, InOrderStep, UnregisterDrainsStep
<1> QED
  BY <1>1, <1>2, PTL DEF Spec

-----------------------------------------------------------------------------
(* Debounce leaves no more messages in the list than there are threads.    *)

(* The queued messages of a debounced type, and those on their way.        *)
Waiting(t, type) == {m \in Elements(queue) : m.target = t /\ m.type = type}
Coming(t, type)  == {c \in Callers : /\ pending[c].op = "Post"
                                     /\ pending[c].target = t
                                     /\ pending[c].type = type}

(***************************************************************************)
(* The strengthening: a thread between the two sections of Debounce counts *)
(* for the message it will post, because the Remove it has done emptied    *)
(* the list of everything but what other such threads have posted since.   *)
(***************************************************************************)
DebounceRoom ==
  \A t \in Targets, type \in DebounceTypes :
    Cardinality(Waiting(t, type)) + Cardinality(Coming(t, type)) <= Cardinality(Callers)

(* The callers, and any part of them, can be counted. *)
LEMMA CallersAreFinite ==
  /\ IsFiniteSet(Callers)
  /\ \A C \in SUBSET Callers : /\ IsFiniteSet(C)
                               /\ Cardinality(C) \in Nat
                               /\ Cardinality(C) <= Cardinality(Callers)
<1>1. IsFiniteSet(Callers)
  BY QueueAssumption, FS_AddElement DEF Callers
<1> QED
  BY <1>1, FS_Subset, FS_CardinalityType

(* Ids differ, so the messages of a kind are as many as their positions.   *)
LEMMA WaitingIsQueued ==
  ASSUME TypeOK, InOrder, NEW t, NEW type
  PROVE  /\ IsFiniteSet(Waiting(t, type))
         /\ Cardinality(Waiting(t, type)) \in Nat
         /\ Cardinality(Waiting(t, type)) = Cardinality(Queued(t, type))
<1> DEFINE Q == Queued(t, type)
           W == Waiting(t, type)
           f == [i \in Q |-> queue[i]]
<1>1. DOMAIN queue = 1..Len(queue) /\ Len(queue) \in Nat
      /\ \A i \in 1..Len(queue) : queue[i] \in Messages
  BY LenProperties, ElementOfSeq DEF TypeOK
<1>2. IsFiniteSet(Q)
  <2>1. IsFiniteSet(1..Len(queue))
    BY <1>1, FS_Interval
  <2> QED
    BY <1>1, <2>1, FS_Subset DEF Queued
<1>3. \A i, j \in Q : i # j => queue[i] # queue[j]
  <2> SUFFICES ASSUME NEW i \in Q, NEW j \in Q, i < j
               PROVE  queue[i] # queue[j]
    BY <1>1 DEF Queued
  <2>1. Precedes(queue[i], queue[j]) /\ queue[i] \in Messages
    BY <1>1 DEF InOrder, Sorted, Queued
  <2> QED
    BY <2>1, QueueAssumption DEF Precedes, Messages
<1>4. f \in Bijection(Q, W)
  <2>1. f \in [Q -> W]
    BY DEF Queued, Waiting, Elements
  <2>2. \A m \in W : \E i \in Q : f[i] = m
    BY DEF Queued, Waiting, Elements
  <2>3. f \in Injection(Q, W)
    BY <1>3, <2>1 DEF Injection, IsInjective
  <2>4. f \in Surjection(Q, W)
    BY <2>1, <2>2 DEF Surjection
  <2> QED
    BY <2>3, <2>4 DEF Bijection
<1> HIDE DEF Q, W, f
<1>5. IsFiniteSet(W) /\ Cardinality(W) = Cardinality(Q)
  BY <1>2, <1>4, FS_Bijection DEF ExistsBijection
<1> QED
  BY <1>5, FS_CardinalityType DEF Q, W

(***************************************************************************)
(* What a step does to the messages of one kind and to those on their way: *)
(* none is added, or the list holds none of them, or a caller that was on  *)
(* its way has posted its one.                                             *)
(***************************************************************************)
Fewer(t, type)   == /\ Waiting(t, type)' \subseteq Waiting(t, type)
                    /\ Coming(t, type)' \subseteq Coming(t, type)
Emptied(t, type) == Waiting(t, type)' = {}
Arrived(t, type) == \E c \in Coming(t, type) : \E m :
                      /\ Waiting(t, type)' \subseteq Waiting(t, type) \cup {m}
                      /\ Coming(t, type)' \subseteq Coming(t, type) \ {c}

(* A list cut from the list waits with no new message. *)
LEMMA CutWaits ==
  ASSUME NEW t, NEW type, CutFrom(queue', queue) \/ UNCHANGED queue
  PROVE  Waiting(t, type)' \subseteq Waiting(t, type)
BY DEF CutFrom, Waiting, Elements

(* An insertion adds its own message to the kind it belongs to, if any. *)
LEMMA InsertWaits ==
  ASSUME TypeOK, NEW t, NEW type, NEW m \in Messages, NEW p \in 1..Len(queue) + 1,
         Inserted(m, p)
  PROVE  /\ Waiting(t, type)' \subseteq Waiting(t, type) \cup {m}
         /\ (m.target # t \/ m.type # type)
              => Waiting(t, type)' \subseteq Waiting(t, type)
<1>1. Elements(queue)' = Elements(queue) \cup {m}
  BY InsertElements
<1> QED
  BY <1>1 DEF Waiting

(* A caller that starts or ends nothing of this kind is not on its way. *)
LEMMA ComingSame ==
  ASSUME NEW t, NEW type, UNCHANGED pending
  PROVE  Coming(t, type)' \subseteq Coming(t, type)
BY DEF Coming

LEMMA ComingFewer ==
  ASSUME TypeOK, NEW t, NEW type, NEW c \in Callers, NEW call,
         pending' = [pending EXCEPT ![c] = call],
         call.op # "Post" \/ call.target # t \/ call.type # type
  PROVE  Coming(t, type)' \subseteq Coming(t, type) \ {c}
BY DEF Coming, TypeOK

(* What each step does to the messages of one debounced kind. *)
LEMMA DebounceEffect ==
  ASSUME TypeOK, InOrder, [Next]_vars, NEW t \in Targets, NEW type \in DebounceTypes
  PROVE  Fewer(t, type) \/ Emptied(t, type) \/ Arrived(t, type)
<1> DEFINE Goal == Fewer(t, type) \/ Emptied(t, type) \/ Arrived(t, type)
<1> USE DEF registryVars, listVars, batchVars, loopVars
<1>1. DebounceTypes \subseteq Types /\ Delays \subseteq Int
  BY QueueAssumption
<1>2. CASE UNCHANGED <<queue, pending>>
  BY <1>2, CutWaits, ComingSame DEF Fewer
<1>3. ASSUME CutFrom(queue', queue), UNCHANGED pending PROVE Goal
  BY <1>3, CutWaits, ComingSame DEF Fewer
<1>4. ASSUME NEW u \in Targets \cup {Nil}, NEW x \in Types \ DebounceTypes, NEW d \in Int,
             Enqueue(u, x, d), UNCHANGED pending
      PROVE  Goal
  <2>1. PICK m \in Messages, p \in 1..Len(queue) + 1 :
          m.target = u /\ m.type = x /\ Inserted(m, p)
    BY <1>4, EnqueueFacts
  <2>2. m.type # type
    BY <2>1
  <2> QED
    BY <1>4, <2>1, <2>2, InsertWaits, ComingSame DEF Fewer
<1>5. ASSUME NEW c \in Callers, ClientStep(c) PROVE Goal
  <2>1. ASSUME NEW u \in Targets, Register(c, u) PROVE Goal
    BY <1>2, <2>1 DEF Register
  <2>2. ASSUME NEW u \in Targets, Unregister(c, u) PROVE Goal
    <3>1. Call("Remove", u, AnyType, 0).op # "Post"
      BY DEF Call
    <3>2. Coming(t, type)' \subseteq Coming(t, type) \ {c}
      BY <2>2, <3>1, ComingFewer DEF Unregister
    <3>3. Waiting(t, type)' \subseteq Waiting(t, type)
      BY <2>2, CutWaits DEF Unregister
    <3> QED
      BY <3>2, <3>3 DEF Fewer
  <2>3. ASSUME NEW u \in Targets, NEW x \in Types \cup {AnyType}, Remove(c, u, x)
        PROVE  Goal
    BY <1>3, <2>3, RemoveFacts DEF Remove
  <2>4. ASSUME NEW u \in Targets, NEW x \in Types \ DebounceTypes, NEW d \in Delays,
               Post(c, u, x, d)
        PROVE  Goal
    BY <1>1, <1>2, <1>4, <2>4 DEF Post, PostSection
  <2>5. ASSUME NEW x \in Types \ DebounceTypes, NEW d \in Delays, Broadcast(c, x, d)
        PROVE  Goal
    BY <1>1, <1>4, <2>5 DEF Broadcast
  <2>6. ASSUME NEW u \in Targets \cup {Nil}, NEW x \in DebounceTypes, NEW d \in Delays,
               Debounce(c, u, x, d)
        PROVE  Goal
    <3>1. RemoveSection(u, x) /\ pending' = [pending EXCEPT ![c] = Call("Post", u, x, d)]
      BY <2>6 DEF Debounce
    <3>2. CutFrom(queue', queue) /\ \A i \in DOMAIN queue' : ~Matches(queue'[i], u, x)
      BY <3>1, RemoveFacts
    <3>3. CASE u = t /\ x = type
      BY <3>2, <3>3 DEF Emptied, Waiting, Elements, Matches
    <3>4. CASE u # t \/ x # type
      <4>1. Coming(t, type)' \subseteq Coming(t, type) \ {c}
        BY <3>1, <3>4, ComingFewer DEF Call
      <4> QED
        BY <3>2, <4>1, CutWaits DEF Fewer
    <3> QED BY <3>3, <3>4
  <2>7. ASSUME NEW r \in Receivers,
               \/ RegisterForBroadcasts(c, r)
               \/ UnregisterForBroadcasts(c, r)
               \/ Release(c, r)
        PROVE  Goal
    BY <1>2, <2>7 DEF RegisterForBroadcasts, UnregisterForBroadcasts, Release
  <2> QED
    BY <1>5, <2>1, <2>2, <2>3, <2>4, <2>5, <2>6, <2>7 DEF ClientStep
<1>6. ASSUME NEW c \in Callers, DebouncePost(c) PROVE Goal
  <2> DEFINE call == pending[c]
  <2>1. call \in Calls /\ call.op = "Post" /\ PostSection(call.target, call.type, call.delay)
        /\ pending' = [pending EXCEPT ![c] = NoCall]
    BY <1>6 DEF DebouncePost, TypeOK
  <2>2. call.target \in Targets \cup {Nil} /\ call.type \in Types /\ call.delay \in Int
    BY <1>1, <2>1 DEF Calls
  <2>3. Coming(t, type)' \subseteq Coming(t, type) \ {c}
    BY <2>1, ComingFewer DEF NoCall, Call
  <2>4. call.target = t /\ call.type = type => c \in Coming(t, type)
    BY <2>1 DEF Coming
  <2> HIDE DEF call
  <2>5. CASE UNCHANGED queue
    BY <2>3, <2>5, CutWaits DEF Fewer
  <2>6. CASE Enqueue(call.target, call.type, call.delay)
    <3>1. PICK m \in Messages, p \in 1..Len(queue) + 1 :
            m.target = call.target /\ m.type = call.type /\ Inserted(m, p)
      BY <2>2, <2>6, EnqueueFacts
    <3>2. CASE m.target = t /\ m.type = type
      BY <2>3, <2>4, <3>1, <3>2, InsertWaits DEF Arrived
    <3>3. CASE m.target # t \/ m.type # type
      BY <2>3, <3>1, <3>3, InsertWaits DEF Fewer
    <3> QED BY <3>2, <3>3
  <2> QED
    BY <2>1, <2>5, <2>6 DEF PostSection
<1>7. ASSUME NEW c \in Callers, UnregisterRemove(c) PROVE Goal
  <2>1. CutFrom(queue', queue)
    BY <1>7, RemoveFacts DEF UnregisterRemove
  <2>2. Coming(t, type)' \subseteq Coming(t, type) \ {c}
    BY <1>7, ComingFewer DEF UnregisterRemove, NoCall, Call
  <2> QED
    BY <2>1, <2>2, CutWaits DEF Fewer
<1>8. CASE LoopOrClock
  <2>1. UNCHANGED pending
    BY <1>8 DEF LoopOrClock, LoopStep, WaitAndDispatch, DispatchNow, SpuriousWake, Wake,
         ReadClock, CheckNextTime, Sweep, HandleTargeted, BeginBroadcast, VisitReceiver,
         EndHandle, EndBroadcast, EndBatch, ReadSize, ReadFront, StoreNextTime, Tick
  <2> QED
    BY <1>2, <1>3, <1>8, <2>1, LoopEffect, SweepFacts DEF HandOver, Still
<1> QED
  BY <1>2, <1>5, <1>6, <1>7, <1>8, NextSplit DEF vars, Resume

(* A kind of message keeps within what its callers allow. *)
LEMMA DebounceRoomStep ==
  ASSUME TypeOK, InOrder, DebounceRoom, [Next]_vars
  PROVE  DebounceRoom'
<1> SUFFICES ASSUME NEW t \in Targets, NEW type \in DebounceTypes
             PROVE  Cardinality(Waiting(t, type)') + Cardinality(Coming(t, type)')
                      <= Cardinality(Callers)
  BY DEF DebounceRoom
<1> DEFINE W  == Waiting(t, type)
           C  == Coming(t, type)
<1>1. IsFiniteSet(W) /\ Cardinality(W) \in Nat
  BY WaitingIsQueued
<1>2. /\ Cardinality(C) \in Nat /\ IsFiniteSet(C)
      /\ Cardinality(C') \in Nat /\ Cardinality(C') <= Cardinality(Callers)
      /\ Cardinality(Callers) \in Nat
  <2>1. C \subseteq Callers /\ C' \subseteq Callers
    BY DEF Coming
  <2> QED BY <2>1, CallersAreFinite, FS_CardinalityType
<1>3. Cardinality(W) + Cardinality(C) <= Cardinality(Callers)
  BY DEF DebounceRoom
<1>4. Fewer(t, type) \/ Emptied(t, type) \/ Arrived(t, type)
  BY DebounceEffect
<1>5. CASE Fewer(t, type)
  <2>1. W' \subseteq W /\ C' \subseteq C
    BY <1>5 DEF Fewer
  <2>2. Cardinality(W') \in Nat /\ Cardinality(W') <= Cardinality(W)
    BY <1>1, <2>1, FS_Subset, FS_CardinalityType
  <2>3. Cardinality(C') <= Cardinality(C)
    BY <1>2, <2>1, FS_Subset
  <2> HIDE DEF W, C
  <2>4. Cardinality(W') + Cardinality(C') <= Cardinality(Callers)
    BY <1>1, <1>2, <1>3, <2>2, <2>3
  <2> QED BY <2>4 DEF W, C
<1>6. CASE Emptied(t, type)
  <2>1. W' = {}
    BY <1>6 DEF Emptied
  <2>2. Cardinality(W') = 0
    BY <2>1, FS_EmptySet
  <2> HIDE DEF W, C
  <2>3. Cardinality(W') + Cardinality(C') <= Cardinality(Callers)
    BY <1>2, <2>2
  <2> QED BY <2>3 DEF W, C
<1>7. CASE Arrived(t, type)
  <2>1. PICK c \in C : \E m : W' \subseteq W \cup {m} /\ C' \subseteq C \ {c}
    BY <1>7 DEF Arrived
  <2>2. PICK m : W' \subseteq W \cup {m} /\ C' \subseteq C \ {c}
    BY <2>1
  <2>3. Cardinality(W') \in Nat /\ Cardinality(W') <= Cardinality(W) + 1
    <3>1. IsFiniteSet(W \cup {m}) /\ Cardinality(W \cup {m}) <= Cardinality(W) + 1
      <4> HIDE DEF W
      <4>1. /\ IsFiniteSet(W \cup {m})
            /\ Cardinality(W \cup {m}) = IF m \in W THEN Cardinality(W)
                                                      ELSE Cardinality(W) + 1
        BY <1>1, FS_AddElement
      <4> QED BY <1>1, <4>1
    <3>2. /\ IsFiniteSet(W') /\ Cardinality(W') <= Cardinality(W \cup {m})
          /\ Cardinality(W') \in Nat /\ Cardinality(W \cup {m}) \in Nat
      BY <2>2, <3>1, FS_Subset, FS_CardinalityType
    <3> QED BY <1>1, <3>1, <3>2
  <2>4. Cardinality(C') <= Cardinality(C) - 1
    <3>1. IsFiniteSet(C \ {c}) /\ Cardinality(C \ {c}) = Cardinality(C) - 1
      BY <1>2, FS_RemoveElement
    <3>2. Cardinality(C') <= Cardinality(C \ {c})
      BY <2>2, <3>1, FS_Subset
    <3> QED BY <3>1, <3>2
  <2> HIDE DEF W, C
  <2>5. Cardinality(W') + Cardinality(C') <= Cardinality(Callers)
    BY <1>1, <1>2, <1>3, <2>3, <2>4
  <2> QED BY <2>5 DEF W, C
<1> QED
  BY <1>4, <1>5, <1>6, <1>7

(***************************************************************************)
(* Debounce coalesces: of messages that are only ever debounced the list   *)
(* never holds more than there are threads, however the two sections of    *)
(* the calls interleave.                                                   *)
(***************************************************************************)
THEOREM CoalescesDebounced == Spec => []DebounceCoalesces
<1>1. Init => TypeOK /\ InOrder /\ DebounceRoom
  <2> SUFFICES ASSUME Init PROVE DebounceRoom
    BY TypeInit, InOrderInit
  <2> SUFFICES ASSUME NEW t \in Targets, NEW type \in DebounceTypes
               PROVE  /\ Waiting(t, type) = {} /\ Coming(t, type) = {}
    BY FS_EmptySet, CallersAreFinite, FS_CardinalityType DEF DebounceRoom
  <2> QED
    BY DEF Init, Waiting, Elements, Coming, NoCall, Call
<1>2. TypeOK /\ InOrder /\ DebounceRoom /\ [Next]_vars
        => (TypeOK /\ InOrder /\ DebounceRoom)'
  BY TypeStep, InOrderStep, DebounceRoomStep
<1>3. TypeOK /\ InOrder /\ DebounceRoom => DebounceCoalesces
  <2> SUFFICES ASSUME TypeOK, InOrder, DebounceRoom,
                      NEW t \in Targets, NEW type \in DebounceTypes
               PROVE  Cardinality(Queued(t, type)) <= Cardinality(Callers)
    BY DEF DebounceCoalesces
  <2>1. /\ Cardinality(Waiting(t, type)) \in Nat
        /\ Cardinality(Waiting(t, type)) = Cardinality(Queued(t, type))
    BY WaitingIsQueued
  <2>2. Coming(t, type) \subseteq Callers
    BY DEF Coming
  <2>3. Cardinality(Coming(t, type)) \in Nat /\ Cardinality(Callers) \in Nat
    BY <2>2, CallersAreFinite, FS_CardinalityType
  <2>4. Cardinality(Waiting(t, type)) + Cardinality(Coming(t, type))
          <= Cardinality(Callers)
    BY DEF DebounceRoom
  <2> QED
    BY <2>1, <2>3, <2>4
<1> QED
  BY <1>1, <1>2, <1>3, PTL DEF Spec

-----------------------------------------------------------------------------
(* The waiting loop is not left asleep.                                    *)

(* No step lets the waiting loop sleep past the front. *)
LEMMA NoLostWakeupStep ==
  ASSUME TypeOK, InOrder, NoLostWakeup, [Next]_vars
  PROVE  NoLostWakeup'
<1> USE DEF registryVars, listVars, batchVars, loopVars, Goto
<1>1. /\ DOMAIN queue = 1..Len(queue) /\ Len(queue) \in Nat
      /\ \A i \in DOMAIN queue : queue[i] \in Messages
      /\ \A m \in Messages : m.time \in Int
      /\ wakeAt \in Int
  <2>1. \A m \in Messages : m.time \in Int
    BY QueueAssumption DEF Messages
  <2> QED
    BY <2>1, LenProperties, ElementOfSeq DEF TypeOK
<1>2. queue # <<>> => 1 \in DOMAIN queue
  BY EmptySeq DEF TypeOK
<1>3. CASE UNCHANGED <<pc, queue, notified, wakeAt>>
  BY <1>3 DEF NoLostWakeup
<1>4. ASSUME NEW m \in Messages, NEW p \in 1..Len(queue) + 1, Inserted(m, p),
             UNCHANGED <<pc, wakeAt>>
      PROVE  NoLostWakeup'
  <2>1. CASE p = 1
    BY <1>4, <2>1 DEF Inserted, NoLostWakeup
  <2>2. CASE p # 1
    <3>1. queue'[1] = queue[1] /\ queue # <<>>
      BY <1>1, <1>4, <2>2, EmptySeq DEF Inserted
    <3>2. notified' = (notified \/ (p = 1 /\ pc = "waiting"))
      BY <1>4 DEF Inserted
    <3> QED
      BY <1>4, <3>1, <3>2 DEF NoLostWakeup
  <2> QED BY <2>1, <2>2
<1>5. ASSUME NEW t, NEW type, RemoveSection(t, type), UNCHANGED <<pc, wakeAt>>
      PROVE  NoLostWakeup'
  <2>1. CutFrom(queue', queue) /\ queue' \in Seq(Messages) /\ UNCHANGED notified
    BY <1>5, RemoveFacts
  <2>2. ASSUME queue' # <<>> PROVE queue # <<>> /\ queue[1].time <= queue'[1].time
    <3>1. 1 \in DOMAIN queue'
      BY <2>1, <2>2, EmptySeq, LenProperties
    <3>2. PICK k \in DOMAIN queue : queue'[1] = queue[k]
      BY <2>1, <3>1 DEF CutFrom
    <3>3. k = 1 \/ Precedes(queue[1], queue[k])
      BY <1>1, <3>2 DEF InOrder, Sorted
    <3>4. queue[1] \in Messages /\ queue[k] \in Messages
      BY <1>1
    <3> QED
      BY <1>1, <3>2, <3>3, <3>4, EmptySeq DEF Precedes
  <2> QED
    <3> SUFFICES ASSUME pc = "waiting", queue' # <<>>, ~notified
                 PROVE  wakeAt # Forever /\ wakeAt <= queue'[1].time
      BY <1>5, <2>1 DEF NoLostWakeup
    <3>1. wakeAt # Forever /\ wakeAt <= queue[1].time /\ queue[1].time <= queue'[1].time
      BY <2>2 DEF NoLostWakeup
    <3>2. queue[1].time \in Int /\ queue'[1].time \in Int
      BY <1>1, <1>2, <2>1, <2>2, EmptySeq, ElementOfSeq
    <3> QED
      BY <1>1, <3>1, <3>2
<1>6. ASSUME NEW c \in Callers, ClientStep(c) \/ Resume(c)
      PROVE  NoLostWakeup'
  BY <1>3, <1>4, <1>5, <1>6, ClientEffect
<1>7. ASSUME NEW timeout \in Timeouts, WaitAndDispatch(timeout)
      PROVE  NoLostWakeup'
  <2> SUFFICES ASSUME pc' = "waiting", queue # <<>>
               PROVE  wakeAt' # Forever /\ wakeAt' <= queue[1].time
    BY <1>7 DEF WaitAndDispatch, NoLostWakeup
  <2>1. queue[1].time \in Int /\ now \in Nat /\ timeout \in Int
    BY <1>1, <1>2, QueueAssumption DEF TypeOK
  <2>2. queue[1].time >= 0
    BY <1>1, <1>2, QueueAssumption DEF Messages
  <2> QED
    BY <1>7, <2>1, <2>2 DEF WaitAndDispatch, Forever
<1>8. CASE DispatchNow \/ SpuriousWake \/ Wake \/ ReadClock \/ CheckNextTime \/ Sweep
  BY <1>8 DEF DispatchNow, SpuriousWake, Wake, ReadClock, CheckNextTime, Sweep, NoLostWakeup
<1>9. CASE HandleTargeted \/ BeginBroadcast \/ EndHandle \/ EndBroadcast \/ EndBatch
  BY <1>9 DEF HandleTargeted, BeginBroadcast, EndHandle, EndBroadcast, EndBatch, NoLostWakeup
<1>10. ASSUME NEW r \in Receivers, VisitReceiver(r)
       PROVE  NoLostWakeup'
  BY <1>10 DEF VisitReceiver, NoLostWakeup
<1>11. CASE ReadSize \/ ReadFront \/ StoreNextTime
  BY <1>11 DEF ReadSize, AfterSize, ReadFront, StoreNextTime, NoLostWakeup
<1>12. CASE Tick \/ UNCHANGED vars
  BY <1>3, <1>12 DEF Tick, vars
<1> QED
  BY <1>6, <1>7, <1>8, <1>9, <1>10, <1>11, <1>12 DEF Next, LoopStep

(***************************************************************************)
(* A loop that waits is notified, or wakes in time for the front.          *)
(***************************************************************************)
THEOREM WakesInTime == Spec => []NoLostWakeup
<1>1. Init => TypeOK /\ InOrder /\ NoLostWakeup
  BY TypeInit, InOrderInit DEF Init, NoLostWakeup
<1>2. TypeOK /\ InOrder /\ NoLostWakeup /\ [Next]_vars => (TypeOK /\ InOrder /\ NoLostWakeup)'
  BY TypeStep, InOrderStep, NoLostWakeupStep
<1> QED
  BY <1>1, <1>2, PTL DEF Spec

-----------------------------------------------------------------------------
(* Without client threads the tail of Dispatch is right.                   *)

(***************************************************************************)
(* With all calls made on the loop thread the list cannot change between   *)
(* the tail's steps, so the atomic holds the time of the front whenever    *)
(* Dispatch is about to look at it.                                        *)
(***************************************************************************)
NextTimeIsFront ==
  /\ pc \in {"idle", "waiting", "dispatch", "check"} /\ queue # <<>> =>
       nextMessageTime = queue[1].time
  /\ pc \in {"front", "store"} => queue # <<>>
  /\ pc = "store" => front = queue[1]
  /\ pc # "crashed"
  /\ pending[Loop].op # "none" => pc \in {"idle", "handling"}

(* The loop thread alone keeps the atomic at the time of the front. *)
LEMMA NextTimeIsFrontStep ==
  ASSUME Threads = {}, TypeOK, InOrder, NextTimeIsFront, [Next]_vars
  PROVE  NextTimeIsFront'
<1> USE DEF registryVars, listVars, batchVars, loopVars, Goto
<1>1. Callers = {Loop} /\ pending \in [Callers -> Calls]
  BY DEF Callers, TypeOK
<1>2. CASE UNCHANGED <<pc, queue, nextMessageTime, front, pending>>
  BY <1>2 DEF NextTimeIsFront
<1>3. ASSUME NEW c \in Callers, ClientStep(c) \/ Resume(c)
      PROVE  NextTimeIsFront'
  <2>1. c = Loop
    BY <1>1
  <2>2. pc \in {"idle", "handling"}
    <3>1. ASSUME ClientStep(c) PROVE pc \in {"idle", "handling"}
      BY <2>1, <3>1 DEF ClientStep, Register, Unregister, Remove, Post, Broadcast, Debounce,
           RegisterForBroadcasts, UnregisterForBroadcasts, Release, CanCall
    <3>2. ASSUME Resume(c) PROVE pc \in {"idle", "handling"}
      BY <2>1, <3>2 DEF Resume, DebouncePost, UnregisterRemove, NextTimeIsFront
    <3> QED BY <1>3, <3>1, <3>2
  <2>3. UNCHANGED <<pc, front>>
    BY <1>3, ClientEffect
  <2>4. \/ UNCHANGED <<queue, nextMessageTime>>
        \/ queue' # <<>> => nextMessageTime' = queue'[1].time
    <3>1. ASSUME NEW m \in Messages, NEW p \in 1..Len(queue) + 1, Inserted(m, p)
          PROVE  nextMessageTime' = queue'[1].time
      BY <3>1 DEF Inserted
    <3>2. ASSUME NEW t, NEW type, RemoveSection(t, type)
          PROVE  queue' # <<>> => nextMessageTime' = queue'[1].time
      BY <3>2, RemoveFacts
    <3> QED
      BY <1>3, <3>1, <3>2, ClientEffect
  <2> QED
    BY <2>2, <2>3, <2>4 DEF NextTimeIsFront
<1>4. ASSUME NEW timeout \in Timeouts, WaitAndDispatch(timeout)
      PROVE  NextTimeIsFront'
  BY <1>4 DEF WaitAndDispatch, NextTimeIsFront
<1>5. CASE DispatchNow \/ SpuriousWake \/ Wake \/ ReadClock \/ CheckNextTime
  BY <1>5 DEF DispatchNow, SpuriousWake, Wake, ReadClock, CheckNextTime, NextTimeIsFront
<1>6. CASE Sweep \/ HandleTargeted \/ BeginBroadcast \/ EndHandle \/ EndBroadcast \/ EndBatch
  BY <1>6 DEF Sweep, HandleTargeted, BeginBroadcast, EndHandle, EndBroadcast, EndBatch,
              NextTimeIsFront
<1>7. ASSUME NEW r \in Receivers, VisitReceiver(r)
      PROVE  NextTimeIsFront'
  BY <1>7 DEF VisitReceiver, NextTimeIsFront
<1>8. CASE ReadSize \/ ReadFront
  BY <1>8 DEF ReadSize, AfterSize, ReadFront, NextTimeIsFront
<1>9. CASE StoreNextTime
  <2>1. queue # <<>> /\ front = queue[1] /\ 1 \in DOMAIN queue
    BY <1>9, EmptySeq, LenProperties DEF StoreNextTime, NextTimeIsFront, TypeOK
  <2>2. nextMessageTime' = queue[1].time
    BY <1>9, <2>1 DEF StoreNextTime
  <2> QED
    BY <1>9, <2>1, <2>2 DEF StoreNextTime, NextTimeIsFront
<1>10. CASE Tick \/ UNCHANGED vars
  BY <1>2, <1>10 DEF Tick, vars
<1> QED
  BY <1>3, <1>4, <1>5, <1>6, <1>7, <1>8, <1>9, <1>10 DEF Next, LoopStep

(* Returning early with a front that is not due: nothing else is due. *)
LEMMA ShortCircuitSkipsNothing ==
  ASSUME TypeOK, InOrder, NextTimeIsFront, [Next]_vars, pc = "check", pc' = "idle"
  PROVE  \A i \in DOMAIN queue : queue[i].time > seen
<1>1. CheckNextTime \/ \E c \in Callers : ClientStep(c) \/ Resume(c)
  BY DEF Next, LoopStep, WaitAndDispatch, DispatchNow, SpuriousWake, Wake, ReadClock, Sweep,
     HandleTargeted, BeginBroadcast, VisitReceiver, EndHandle, EndBroadcast, EndBatch,
     ReadSize, ReadFront, StoreNextTime, Tick, Goto, vars, loopVars
<1>2. CheckNextTime
  BY <1>1, ClientEffect DEF loopVars
<1>3. nextMessageTime > seen \/ nextMessageTime < 0
  BY <1>2 DEF CheckNextTime, Goto
<1> SUFFICES ASSUME NEW i \in DOMAIN queue PROVE queue[i].time > seen
  OBVIOUS
<1>4. /\ DOMAIN queue = 1..Len(queue) /\ Len(queue) \in Nat
      /\ queue[i] \in Messages /\ 1 \in DOMAIN queue /\ queue[1] \in Messages
      /\ queue # <<>>
  BY LenProperties, ElementOfSeq, EmptySeq DEF TypeOK
<1>5. \A m \in Messages : m.time \in Nat
  BY QueueAssumption DEF Messages
<1>6. nextMessageTime = queue[1].time
  BY <1>4 DEF NextTimeIsFront
<1>7. queue[1].time <= queue[i].time
  <2>1. i = 1 \/ Precedes(queue[1], queue[i])
    BY <1>4 DEF InOrder, Sorted
  <2> QED BY <1>4, <1>5, <2>1 DEF Precedes
<1>8. seen \in Nat
  BY QueueAssumption DEF TypeOK
<1> QED
  BY <1>3, <1>4, <1>5, <1>6, <1>7, <1>8

(***************************************************************************)
(* When no other thread calls the queue, Dispatch returns early only while *)
(* nothing is due.                                                         *)
(***************************************************************************)
THEOREM SingleThreadSkipsNothing ==
  ASSUME Threads = {}
  PROVE  Spec => NeverSkipsDue
<1>1. Init => TypeOK /\ InOrder /\ NextTimeIsFront
  BY TypeInit, InOrderInit DEF Init, NextTimeIsFront, NoCall, Call, Callers
<1>2. TypeOK /\ InOrder /\ NextTimeIsFront /\ [Next]_vars
        => (TypeOK /\ InOrder /\ NextTimeIsFront)'
  BY TypeStep, InOrderStep, NextTimeIsFrontStep
<1>3. TypeOK /\ InOrder /\ NextTimeIsFront /\ [Next]_vars =>
        [pc = "check" /\ pc' = "idle" => \A i \in DOMAIN queue : queue[i].time > seen]_vars
  BY ShortCircuitSkipsNothing
<1> QED
  BY <1>1, <1>2, <1>3, PTL DEF Spec, NeverSkipsDue

(***************************************************************************)
(* When no other thread calls the queue, the tail of Dispatch dereferences *)
(* a front that is there.                                                  *)
(***************************************************************************)
THEOREM SingleThreadTailIsSafe ==
  ASSUME Threads = {}
  PROVE  Spec => []TailIsSafe
<1>1. Init => TypeOK /\ InOrder /\ NextTimeIsFront
  BY TypeInit, InOrderInit DEF Init, NextTimeIsFront, NoCall, Call, Callers
<1>2. TypeOK /\ InOrder /\ NextTimeIsFront /\ [Next]_vars
        => (TypeOK /\ InOrder /\ NextTimeIsFront)'
  BY TypeStep, InOrderStep, NextTimeIsFrontStep
<1>3. NextTimeIsFront => TailIsSafe
  BY DEF NextTimeIsFront, TailIsSafe
<1> QED
  BY <1>1, <1>2, <1>3, PTL DEF Spec

-----------------------------------------------------------------------------
(* The queue implements the mailbox.                                       *)

InMailbox == Elements(dispatch) \cup Elements(queue)

(* Cutting entries out of a sequence adds none. *)
LEMMA CutElements ==
  ASSUME NEW r, NEW s, CutFrom(r, s)
  PROVE  Elements(r) \subseteq Elements(s)
BY DEF CutFrom, Elements

(* Enqueue is the mailbox's Accept. *)
LEMMA InsertAccepts ==
  ASSUME TypeOK, NEW m \in Messages, NEW p \in 1..Len(queue) + 1, Inserted(m, p),
         m.target \in targets \cup {Nil}, UNCHANGED <<now, targets, dispatch, current>>
  PROVE  Mailbox!Next
<1>1. Elements(queue') = Elements(queue) \cup {m}
  BY InsertElements
<1>2. Mailbox!Accept(m)
  BY <1>1 DEF Mailbox!Accept, Inserted
<1>3. m \in [id : {posted + 1}, target : targets \cup {Nil}, type : Types, time : 0..MaxTime]
  BY DEF Inserted, Messages
<1> QED
  BY <1>2, <1>3 DEF Mailbox!Next

(* Remove is the mailbox's Withdraw, or invisible. *)
LEMMA RemoveWithdraws ==
  ASSUME TypeOK, NEW t \in Targets \cup {Nil}, NEW type, RemoveSection(t, type),
         UNCHANGED <<now, targets, dispatch, current>>
  PROVE  Mailbox!Next
<1> DEFINE W == InMailbox \ InMailbox'
<1>1. Elements(queue') \subseteq Elements(queue)
  BY RemoveFacts, CutElements
<1>2. \A m \in W : m.target = t
  BY RemoveFacts DEF Elements, Matches, InMailbox
<1>3. InMailbox' = InMailbox \ W /\ W \in SUBSET InMailbox
  BY <1>1 DEF InMailbox
<1>4. Mailbox!Withdraw(t, W)
  BY <1>2, <1>3, RemoveFacts DEF Mailbox!Withdraw, InMailbox
<1> QED
  BY <1>3, <1>4 DEF Mailbox!Next, InMailbox

(* A sweep is the mailbox's Discard, or invisible. *)
LEMMA SweepDiscards ==
  ASSUME TypeOK, InOrder, Sweep
  PROVE  Mailbox!Next
<1> DEFINE D == InMailbox \ InMailbox'
<1>1. dispatch = <<>>
  BY DEF Sweep, Goto, InOrder
<1>2. Elements(<<>>) = {}
  BY DEF Elements
<1>3. Elements(queue') \subseteq Elements(queue) /\ Elements(dispatch') \subseteq Elements(queue)
  BY SweepFacts, CutElements
<1>4. InMailbox' = InMailbox \ D /\ D \in SUBSET InMailbox
  BY <1>1, <1>2, <1>3 DEF InMailbox
<1>5. DOMAIN queue = 1..Len(queue) /\ Len(queue) \in Nat
      /\ \A i \in 1..Len(queue) : queue[i] \in Messages
  BY LenProperties, ElementOfSeq DEF TypeOK
<1>6. ASSUME NEW k \in Due, queue[k].target \notin targets \cup {Nil}
      PROVE  queue[k].target \in Targets \ targets /\ queue[k].time <= now
  <2>1. queue[k] \in Messages /\ queue[k].time <= seen
    BY <1>5 DEF Due
  <2>2. seen \in Int /\ now \in Int /\ seen <= now
    BY DEF TypeOK, InOrder
  <2>3. queue[k].time \in Int /\ queue[k].target \in Targets \cup {Nil}
    BY <2>1, QueueAssumption DEF Messages
  <2> QED
    BY <1>6, <2>1, <2>2, <2>3
<1>7. \A m \in D : m.target \in Targets \ targets /\ m.time <= now
  <2> SUFFICES ASSUME NEW k \in DOMAIN queue, queue[k] \in D
               PROVE  queue[k].target \in Targets \ targets /\ queue[k].time <= now
    BY <1>1, <1>2 DEF InMailbox, Elements
  <2>1. \/ \E i \in DOMAIN queue' : queue'[i] = queue[k]
        \/ \E i \in DOMAIN dispatch' : dispatch'[i] = queue[k]
        \/ k \in Due /\ queue[k].target \notin targets \cup {Nil}
    BY SweepFacts
  <2> QED
    BY <1>6, <2>1 DEF InMailbox, Elements
<1>8. Mailbox!Discard(D)
  BY <1>4, <1>7 DEF Mailbox!Discard, InMailbox, Sweep, registryVars
<1> QED
  BY <1>4, <1>8 DEF Mailbox!Next, InMailbox

(* Handing over the head of the batch is the mailbox's Deliver. *)
LEMMA HandOverDelivers ==
  ASSUME TypeOK, InOrder, HandOver
  PROVE  Mailbox!Next
<1> DEFINE m == dispatch[1]
<1>1. /\ m \in Messages
      /\ DOMAIN dispatch = 1..Len(dispatch) /\ Len(dispatch) \in Nat \ {0}
      /\ DOMAIN Tail(dispatch) = 1..Len(dispatch) - 1
      /\ \A i \in 1..Len(dispatch) - 1 : Tail(dispatch)[i] = dispatch[i + 1]
  BY PopType DEF TypeOK, HandOver
<1>2. m.id \in Int /\ m.time \in Int
  BY <1>1, QueueAssumption DEF Messages
<1> HIDE DEF m
<1>3. ~Precedes(m, m)
  BY <1>2 DEF Precedes
<1>4. 1 \in DOMAIN dispatch
  BY <1>1
<1>5. \A i \in 2..Len(dispatch) : Precedes(m, dispatch[i])
  BY <1>1, <1>4 DEF InOrder, Sorted, m
<1>6. \A i \in DOMAIN queue : Precedes(m, queue[i])
  BY <1>4 DEF InOrder, m
<1>7. Elements(Tail(dispatch)) = {dispatch[i] : i \in 2..Len(dispatch)}
  <2>1. \A i \in 1..Len(dispatch) - 1 : i + 1 \in 2..Len(dispatch)
    BY <1>1
  <2>2. ASSUME NEW i \in 2..Len(dispatch)
        PROVE  \E j \in 1..Len(dispatch) - 1 : dispatch[i] = Tail(dispatch)[j]
    <3>1. i - 1 \in 1..Len(dispatch) - 1 /\ (i - 1) + 1 = i
      BY <1>1
    <3> QED BY <1>1, <3>1
  <2> QED
    BY <1>1, <2>1, <2>2 DEF Elements
<1>8. Elements(dispatch) = Elements(Tail(dispatch)) \cup {m}
  <2>1. \A i \in DOMAIN dispatch : i = 1 \/ i \in 2..Len(dispatch)
    BY <1>1
  <2>2. \A i \in 2..Len(dispatch) : i \in DOMAIN dispatch
    BY <1>1
  <2> QED
    BY <1>4, <1>7, <2>1, <2>2 DEF Elements, m
<1>9. /\ dispatch' = Tail(dispatch) /\ current' = m
      /\ UNCHANGED <<now, seen, queue, posted, targets>>
  BY DEF HandOver, m
<1>10. m \notin Elements(Tail(dispatch)) /\ m \notin Elements(queue)
  BY <1>3, <1>5, <1>6, <1>7 DEF Elements
<1>11. InMailbox' = InMailbox \ {m} /\ m \in InMailbox
  BY <1>8, <1>9, <1>10 DEF InMailbox
<1>12. \A n \in InMailbox \ {m} : Precedes(m, n)
  BY <1>5, <1>6, <1>7, <1>8 DEF InMailbox, Elements
<1>13. m.time <= now
  BY <1>4 DEF InOrder, m
<1>14. Mailbox!Deliver(m)
  BY <1>9, <1>11, <1>12, <1>13 DEF Mailbox!Deliver, Mailbox!Precedes, Precedes, InMailbox
<1> QED
  BY <1>11, <1>14 DEF Mailbox!Next, InMailbox

(* A client registers a target, unregisters one, or leaves them alone. *)
LEMMA TargetsEffect ==
  ASSUME NEW c \in Callers, ClientStep(c) \/ Resume(c)
  PROVE  \/ UNCHANGED targets
         \/ \E t \in Targets : targets' \in {targets \cup {t}, targets \ {t}}
BY DEF registryVars, ClientStep, Register, Unregister, Remove, Post, Broadcast, Debounce,
       RegisterForBroadcasts, UnregisterForBroadcasts, Release, Resume, DebouncePost,
       UnregisterRemove

(* Every step of the queue is one of the mailbox, or invisible. *)
LEMMA MailboxStep ==
  ASSUME TypeOK, InOrder, [Next]_vars
  PROVE  [Mailbox!Next]_Mailbox!vars
<1> DEFINE Goal == Mailbox!Next \/ UNCHANGED Mailbox!vars
<1>1. ASSUME UNCHANGED <<now, targets, posted, dispatch, queue, current>>
      PROVE  UNCHANGED Mailbox!vars
  BY <1>1 DEF Mailbox!vars, Elements
<1>2. CASE UNCHANGED vars
  BY <1>1, <1>2 DEF vars, registryVars, listVars, loopVars, batchVars
<1>3. ASSUME NEW c \in Callers, ClientStep(c) \/ Resume(c)
      PROVE  Goal
  <2>1. UNCHANGED <<now, dispatch, current>>
    BY <1>3, ClientEffect DEF loopVars, batchVars
  <2>2. ASSUME UNCHANGED <<listVars, notified>>
        PROVE  Goal
    <3>1. UNCHANGED <<now, posted, dispatch, queue, current>>
      BY <2>1, <2>2 DEF listVars
    <3>2. ASSUME UNCHANGED targets PROVE Goal
      BY <1>1, <3>1, <3>2
    <3>3. ASSUME NEW t \in Targets, targets' \in {targets \cup {t}, targets \ {t}}
          PROVE  Goal
      <4>1. Mailbox!Join(t) \/ Mailbox!Leave(t)
        BY <3>1, <3>3 DEF Mailbox!Join, Mailbox!Leave, Elements
      <4> QED
        BY <4>1 DEF Mailbox!Next
    <3> QED
      BY <1>3, <3>2, <3>3, TargetsEffect
  <2>3. ASSUME NEW m \in Messages, NEW p \in 1..Len(queue) + 1,
               m.target \in targets \cup {Nil}, Inserted(m, p), UNCHANGED registryVars
        PROVE  Goal
    BY <2>1, <2>3, InsertAccepts DEF registryVars
  <2>4. ASSUME NEW t \in Targets \cup {Nil}, NEW type, RemoveSection(t, type),
               UNCHANGED registryVars
        PROVE  Goal
    BY <2>1, <2>4, RemoveWithdraws DEF registryVars
  <2> HIDE DEF Goal
  <2> QED
    BY <1>3, <2>2, <2>3, <2>4, ClientEffect
<1>4. ASSUME LoopOrClock PROVE Goal
  <2>1. ASSUME Still PROVE Goal
    <3>1. UNCHANGED <<targets, posted, dispatch, queue, current>>
          /\ (now' = now \/ now' = now + 1)
      BY <2>1 DEF Still
    <3>2. ASSUME now' = now PROVE Goal
      BY <1>1, <3>1, <3>2
    <3>3. ASSUME now' = now + 1 PROVE Goal
      <4>1. now + 1 \in 0..MaxTime
        BY <3>3, TypeStep DEF TypeOK
      <4>2. Mailbox!Tick
        BY <3>1, <3>3, <4>1 DEF Mailbox!Tick, Elements
      <4> QED
        BY <4>2 DEF Mailbox!Next
    <3> QED BY <3>1, <3>2, <3>3
  <2> QED
    BY <1>4, <2>1, LoopEffect, SweepDiscards, HandOverDelivers
<1> QED
  BY <1>2, <1>3, <1>4, NextSplit

(* The queue starts as an empty mailbox. *)
LEMMA MailboxInit == Init => Mailbox!Init
BY QueueAssumption DEF Init, Mailbox!Init, Elements

(***************************************************************************)
(* The threads, the list, the batch and the early return implement the     *)
(* mailbox: clients cannot tell the difference.                            *)
(***************************************************************************)
THEOREM QueueImplementsMailbox == Spec => ImplementsMailbox
<1>1. Init => TypeOK /\ InOrder /\ Mailbox!Init
  BY TypeInit, InOrderInit, MailboxInit
<1>2. TypeOK /\ InOrder /\ [Next]_vars => (TypeOK /\ InOrder)'
  BY TypeStep, InOrderStep
<1>3. TypeOK /\ InOrder /\ [Next]_vars => [Mailbox!Next]_Mailbox!vars
  BY MailboxStep
<1> QED
  BY <1>1, <1>2, <1>3, PTL DEF Spec, ImplementsMailbox, Mailbox!Spec

=============================================================================
