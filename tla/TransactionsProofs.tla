------------------------- MODULE TransactionsProofs -------------------------
(***************************************************************************)
(* The properties of Transactions, for any number of scopes, batches,      *)
(* writes and failures.  The argument is about three kinds of batches: the *)
(* one the counter is in, which is wholly in the open transaction; those   *)
(* before it, of which the transaction and the database each have all or   *)
(* nothing; and those to come, which nobody has written to.  What was      *)
(* canceled is in neither, unless its ROLLBACK failed.                     *)
(***************************************************************************)
EXTENDS Transactions, FiniteSetTheorems, TLAPS

(* The types, and what is finite. *)
TransactionsTyped ==
  /\ TransactionsTypeOK
  /\ IsFiniteSet(scopes) /\ IsFiniteSet(written)
  /\ transactionCounter = Cardinality(scopes)

(* What has been written belongs to a batch that has begun. *)
Begins ==
  /\ db.pending \subseteq written /\ db.stored \subseteq written
  /\ \A w \in written : w.batch <= batch
  /\ undone \subseteq 1..batch

(* A batch after b has ended and was not canceled, where the counter is at *)
(* n and in batch k.                                                       *)
Outlived(b, k, n, canceledOnes) ==
  \E c \in (b + 1)..k : (c < k \/ n = 0) /\ c \notin canceledOnes

(* The transaction, too, has all of a batch or nothing of it. *)
Whole ==
  \A b \in Batches \ loose :
    /\ Of(b, db.stored) \in {{}, Of(b, written)}
    /\ Of(b, db.pending) \in {{}, Of(b, written)}
    /\ b \in undone \ stuck => Of(b, db.stored) = {} /\ Of(b, db.pending) = {}
    /\ b \in undone /\ Of(b, db.stored) # {} =>
         Outlived(b, batch, transactionCounter, undone)

(* The batch the counter is in. *)
Current ==
  /\ transactionCounter > 0 => batch \in Batches /\ batch \notin undone
  /\ transactionCounter > 0 /\ batch \notin loose =>
       db.inTx /\ Of(batch, db.stored) = {} /\ Of(batch, db.pending) = Of(batch, written)

Counted == faults = 0 => (db.inTx <=> transactionCounter > 0)

TransactionsIInv == TransactionsTyped /\ Begins /\ Whole /\ Current /\ Counted

-----------------------------------------------------------------------------

(* A scope that is alive counts, and scopes come and go one by one. *)
LEMMA CountScopes ==
  ASSUME NEW S, IsFiniteSet(S), NEW s
  PROVE  /\ Cardinality(S) \in Nat
         /\ (Cardinality(S) = 0 <=> S = {})
         /\ (s \notin S => Cardinality(S \cup {s}) = Cardinality(S) + 1)
         /\ (s \in S => Cardinality(S \ {s}) = Cardinality(S) - 1)
         /\ IsFiniteSet(S \cup {s}) /\ IsFiniteSet(S \ {s})
<1>1. Cardinality(S) \in Nat /\ (Cardinality(S) = 0 <=> S = {})
  BY FS_CardinalityType, FS_EmptySet
<1>2. IsFiniteSet(S \cup {s})
  BY FS_AddElement
<1>3. s \notin S => Cardinality(S \cup {s}) = Cardinality(S) + 1
  BY FS_AddElement
<1>4. IsFiniteSet(S \ {s})
  BY FS_RemoveElement
<1>5. s \in S => Cardinality(S \ {s}) = Cardinality(S) - 1
  BY FS_RemoveElement
<1> QED
  BY <1>1, <1>2, <1>3, <1>4, <1>5

LEMMA TransactionsInitIInv == TransactionsInit => TransactionsIInv
<1> SUFFICES ASSUME TransactionsInit PROVE TransactionsIInv
  OBVIOUS
<1>1. IsFiniteSet({}) /\ Cardinality({}) = 0
  BY FS_EmptySet
<1>2. TransactionsTyped
  BY <1>1, TransactionsAssumption DEF TransactionsInit, TransactionsTyped, TransactionsTypeOK
<1>3. Begins /\ Current /\ Counted
  BY DEF TransactionsInit, Begins, Current, Counted
<1>4. Whole
  BY DEF TransactionsInit, Whole, Of
<1> QED
  BY <1>2, <1>3, <1>4 DEF TransactionsIInv

(***************************************************************************)
(* What a statement does to the database, one lemma for each.              *)
(***************************************************************************)
LEMMA BeginType ==
  ASSUME TransactionsTyped,
         NEW d \in [inTx : BOOLEAN, pending : SUBSET Writes, stored : SUBSET Writes],
         NEW n, NEW f
  PROVE  /\ AfterBegin(d, n, f) \in [inTx : BOOLEAN, pending : SUBSET Writes,
                                       stored : SUBSET Writes]
         /\ AfterBegin(d, n, f).pending = d.pending
         /\ AfterBegin(d, n, f).stored = d.stored
         /\ (d.inTx => AfterBegin(d, n, f).inTx)
         /\ (n # 0 => AfterBegin(d, n, f) = d)
         /\ (n = 0 /\ f = 0 => AfterBegin(d, n, f).inTx)
BY DEF AfterBegin, Begun, Outermost

LEMMA EndType ==
  ASSUME TransactionsTyped, NEW n, NEW s, NEW f \in {0, 1}
  PROVE  /\ AfterEnd(db, n, s, f) \in [inTx : BOOLEAN, pending : SUBSET Writes,
                                         stored : SUBSET Writes]
         /\ (n # 0 \/ ~db.inTx => AfterEnd(db, n, s, f) = db)
         /\ (n = 0 /\ db.inTx /\ s \in canceled /\ f = 0
               => AfterEnd(db, n, s, f) = RolledBack(db))
         /\ (n = 0 /\ db.inTx /\ s \notin canceled /\ f = 0
               => AfterEnd(db, n, s, f) = Committed(db))
         /\ (f = 1 => AfterEnd(db, n, s, f) = db)
BY DEF AfterEnd, Committed, RolledBack, Outermost, TransactionsTyped, TransactionsTypeOK

(***************************************************************************)
(* A batch that has ended has ended for good, and a cancel that comes      *)
(* later is of a later batch.                                              *)
(***************************************************************************)
LEMMA OutlivedStays ==
  ASSUME NEW k \in Nat, NEW b \in Nat, NEW n \in Nat, NEW m, NEW U, NEW V,
         Outlived(b, k, n, U), V \subseteq U \cup {k}
  PROVE  /\ n > 0 => Outlived(b, k, m, V)
         /\ V = U => Outlived(b, k + 1, m, V)
<1>1. PICK c \in (b + 1)..k : (c < k \/ n = 0) /\ c \notin U
  BY DEF Outlived
<1>2. n > 0 => c < k /\ c # k
  BY <1>1
<1>3. n > 0 => Outlived(b, k, m, V)
  BY <1>1, <1>2 DEF Outlived
<1>4. c \in (b + 1)..(k + 1) /\ c < k + 1
  BY <1>1
<1>5. V = U => Outlived(b, k + 1, m, V)
  BY <1>1, <1>4 DEF Outlived
<1> QED
  BY <1>3, <1>5

(* Every batch is whole in d; those of U were canceled, and the ROLLBACK of *)
(* those of K failed.                                                       *)
EachWhole(d, n, U, K) ==
  /\ d.pending \subseteq written /\ d.stored \subseteq written
  /\ U \subseteq 1..batch
  /\ \A b \in Batches \ loose :
       /\ Of(b, d.stored) \in {{}, Of(b, written)}
       /\ Of(b, d.pending) \in {{}, Of(b, written)}
       /\ b \in U \ K => Of(b, d.stored) = {} /\ Of(b, d.pending) = {}
       /\ b \in U /\ Of(b, d.stored) # {} => Outlived(b, batch, n, U)

(***************************************************************************)
(* The end of the outermost scope, committed, canceled or failed, leaves   *)
(* every batch whole in what it was, and nothing of one that was rolled    *)
(* back; a COMMIT may store what was not, and outlives it.                 *)
(***************************************************************************)
LEMMA EndKeepsWhole ==
  ASSUME TransactionsIInv, NEW s \in scopes, NEW f \in {0, 1}, NEW n, n = transactionCounter - 1,
         NEW d, d = AfterEnd(db, n, s, f),
         NEW U, U = IF n = 0 /\ s \in canceled THEN undone \cup {batch} ELSE undone,
         NEW K, K = IF n = 0 /\ s \in canceled /\ f = 1 THEN stuck \cup {batch} ELSE stuck
  PROVE  EachWhole(d, n, U, K)
<1> USE DEF EachWhole
<1>1. transactionCounter \in Nat /\ transactionCounter > 0 /\ n \in Nat
  <2>1. IsFiniteSet(scopes) /\ transactionCounter = Cardinality(scopes) /\ scopes # {}
    BY DEF TransactionsIInv, TransactionsTyped
  <2>2. Cardinality(scopes) \in Nat /\ (Cardinality(scopes) = 0 <=> scopes = {})
    BY <2>1, FS_CardinalityType, FS_EmptySet
  <2> QED
    BY <2>1, <2>2
<1>2. batch \in Batches /\ batch \in Nat \ {0} /\ batch \notin undone
  BY <1>1, TransactionsAssumption DEF TransactionsIInv, Current
<1>3. /\ db \in [inTx : BOOLEAN, pending : SUBSET Writes, stored : SUBSET Writes]
      /\ db.pending \subseteq written /\ db.stored \subseteq written /\ undone \subseteq 1..batch
      /\ stuck \subseteq undone
  BY DEF TransactionsIInv, TransactionsTyped, TransactionsTypeOK, Begins
<1>4. \A b \in Batches \ loose :
        /\ Of(b, db.stored) \in {{}, Of(b, written)}
        /\ Of(b, db.pending) \in {{}, Of(b, written)}
        /\ b \in undone \ stuck => Of(b, db.stored) = {} /\ Of(b, db.pending) = {}
        /\ b \in undone /\ Of(b, db.stored) # {} =>
             Outlived(b, batch, transactionCounter, undone)
  BY DEF TransactionsIInv, Whole
<1>5. U \subseteq 1..batch /\ U \subseteq undone \cup {batch}
  BY <1>2, <1>3
<1>6. batch \notin loose => db.inTx /\ Of(batch, db.stored) = {}
  BY <1>1 DEF TransactionsIInv, Current
<1>7. ASSUME NEW b \in Batches \ loose, b \in undone, Of(b, db.stored) # {}
      PROVE  Outlived(b, batch, n, U)
  <2>1. Outlived(b, batch, transactionCounter, undone) /\ b \in Nat
    BY <1>4, <1>7, TransactionsAssumption
  <2> QED
    BY <2>1, <1>1, <1>2, <1>5, OutlivedStays
<1>8. CASE n # 0 \/ (~db.inTx) \/ f = 1
  <2>1. d = db
    BY <1>8 DEF AfterEnd, Outermost
  <2>2. ASSUME NEW b \in Batches \ loose, b \in U, Of(b, d.stored) # {}
        PROVE  Outlived(b, batch, n, U)
    BY <2>1, <2>2, <1>5, <1>6, <1>7
  <2>3. ASSUME NEW b \in Batches \ loose, b \in U \ K
        PROVE  b \in undone \ stuck
    BY <2>3, <1>8, <1>6
  <2> QED
    BY <2>1, <2>2, <2>3, <1>3, <1>4, <1>5
<1>9. CASE n = 0 /\ db.inTx /\ s \in canceled /\ f = 0
  <2>1. d = [inTx |-> FALSE, pending |-> {}, stored |-> db.stored]
    BY <1>9, EndType DEF TransactionsIInv, RolledBack
  <2>2. \A b : Of(b, d.pending) = {} /\ Of(b, d.stored) = Of(b, db.stored)
    BY <2>1 DEF Of
  <2>3. ASSUME NEW b \in Batches \ loose, b \in U, Of(b, d.stored) # {}
        PROVE  Outlived(b, batch, n, U)
    BY <2>2, <2>3, <1>5, <1>6, <1>7
  <2>4. ASSUME NEW b \in Batches \ loose, b \in U \ K
        PROVE  Of(b, d.stored) = {}
    <3>1. b \in undone \ stuck \/ b = batch
      BY <2>4, <1>5, <1>9
    <3> QED
      BY <2>2, <2>4, <3>1, <1>4, <1>6
  <2>5. d.pending \subseteq written /\ d.stored \subseteq written
    BY <2>1, <1>3
  <2>6. ASSUME NEW b \in Batches \ loose
        PROVE  /\ Of(b, d.stored) \in {{}, Of(b, written)}
               /\ Of(b, d.pending) \in {{}, Of(b, written)}
    BY <2>2, <2>6, <1>4
  <2> QED
    BY <2>2, <2>3, <2>4, <2>5, <2>6, <1>5
<1>10. CASE n = 0 /\ db.inTx /\ s \notin canceled /\ f = 0
  <2>1. d = [inTx |-> FALSE, pending |-> {}, stored |-> db.stored \cup db.pending]
    BY <1>10, EndType DEF TransactionsIInv, Committed
  <2>2. \A b : Of(b, d.pending) = {} /\ Of(b, d.stored) = Of(b, db.stored) \cup Of(b, db.pending)
    BY <2>1 DEF Of
  <2>3. U = undone /\ K = stuck
    BY <1>10
  <2>4. d.pending \subseteq written /\ d.stored \subseteq written
    BY <2>1, <1>3
  <2>5. ASSUME NEW b \in Batches \ loose
        PROVE  /\ Of(b, d.stored) \in {{}, Of(b, written)}
               /\ (b \in U \ K => Of(b, d.stored) = {})
    <3> DEFINE S == Of(b, db.stored)
               P == Of(b, db.pending)
               W == Of(b, written)
    <3>1. S \in {{}, W} /\ P \in {{}, W} /\ (b \in undone \ stuck => S = {} /\ P = {})
      BY <1>4
    <3>2. Of(b, d.stored) = S \cup P
      BY <2>2
    <3> QED
      BY <3>1, <3>2, <2>3
  <2>6. ASSUME NEW b \in U
        PROVE  Outlived(b, batch, n, U)
    <3>1. b \in 1..batch /\ b # batch /\ batch \notin U
      BY <2>3, <2>6, <1>2, <1>5
    <3>2. batch \in (b + 1)..batch
      BY <3>1, <1>2
    <3> QED
      BY <3>1, <3>2, <1>10 DEF Outlived
  <2> QED
    BY <2>2, <2>4, <2>5, <2>6, <1>5
<1> QED
  BY <1>8, <1>9, <1>10

-----------------------------------------------------------------------------
(* Every action keeps the invariant.                                       *)

LEMMA ConstructStep ==
  ASSUME TransactionsIInv, NEW s \in Scopes, Construct(s)
  PROVE  TransactionsIInv'
<1> DEFINE n == transactionCounter
<1>1. PICK f \in {0, 1} : /\ faults + f <= MaxFaults
                          /\ db' = AfterBegin(db, n, f)
                          /\ faults' = faults + f
  BY DEF Construct, May
<1>2. /\ TransactionsTypeOK /\ Begins /\ Whole /\ Current /\ Counted
      /\ IsFiniteSet(scopes) /\ n = Cardinality(scopes)
  BY DEF TransactionsIInv, TransactionsTyped
<1>3. /\ db' \in [inTx : BOOLEAN, pending : SUBSET Writes, stored : SUBSET Writes]
      /\ db'.pending = db.pending /\ db'.stored = db.stored
      /\ (n # 0 => db' = db) /\ (n = 0 /\ f = 0 => db'.inTx)
  BY <1>1, BeginType DEF TransactionsIInv, TransactionsTyped, TransactionsTypeOK
<1>4. /\ IsFiniteSet(scopes \cup {s}) /\ n \in Nat
      /\ Cardinality(scopes \cup {s}) = n + 1
  BY <1>2, CountScopes DEF Construct
<1>5. /\ transactionCounter' = n + 1 /\ scopes' = scopes \cup {s}
      /\ canceled' = canceled /\ written' = written /\ undone' = undone
      /\ stuck' = stuck
  BY DEF Construct, Incremented
<1>6. /\ (n = 0 => /\ batch + 1 \in Batches /\ batch' = batch + 1
                   /\ loose' = IF db'.inTx THEN loose ELSE loose \cup {batch + 1})
      /\ (n # 0 => batch' = batch /\ loose' = loose)
  BY DEF Construct, BeginBatch
<1>7. batch \in Nat /\ batch' \in {0} \cup Batches /\ batch' \in batch..(batch + 1)
  BY <1>2, <1>6, TransactionsAssumption DEF TransactionsTypeOK
<1>8. TransactionsTyped'
  <2>1. IsFiniteSet(written')
    BY <1>5 DEF TransactionsIInv, TransactionsTyped
  <2>2. loose' \subseteq {0} \cup Batches
    BY <1>2, <1>6 DEF TransactionsTypeOK
  <2>3. faults' \in 0..MaxFaults
    BY <1>1, <1>2, TransactionsAssumption DEF TransactionsTypeOK
  <2> QED
    BY <2>1, <2>2, <2>3, <1>2, <1>3, <1>4, <1>5, <1>7
       DEF TransactionsTyped, TransactionsTypeOK, Writes
<1>9. Begins'
  <2>1. \A w \in written : w.batch \in Nat /\ w.batch <= batch
    <3>1. \A w \in written : w.batch \in {0} \cup Batches
      BY <1>2 DEF TransactionsTypeOK, Writes
    <3>2. {0} \cup Batches \subseteq Nat
      BY TransactionsAssumption
    <3> QED
      BY <3>1, <3>2, <1>2 DEF Begins
  <2>2. undone \subseteq 1..batch
    BY <1>2 DEF Begins
  <2> QED
    BY <2>1, <2>2, <1>2, <1>3, <1>5, <1>7 DEF Begins
<1>10. Whole'
  <2>1. ASSUME NEW b \in Batches \ loose', b \in undone', Of(b, db'.stored) # {}
        PROVE  Outlived(b, batch', transactionCounter', undone')
    <3>1. Outlived(b, batch, n, undone) /\ b \in Nat
      BY <2>1, <1>2, <1>3, <1>5, <1>6, TransactionsAssumption DEF Whole
    <3>2. n # 0 => n > 0
      BY <1>4
    <3> QED
      BY <3>1, <3>2, <1>4, <1>5, <1>6, <1>7, OutlivedStays
  <2>2. Batches \ loose' \subseteq Batches \ loose
    BY <1>6
  <2> QED
    BY <2>1, <2>2, <1>2, <1>3, <1>5 DEF Whole
<1>11. Current'
  <2>1. CASE n = 0
    <3>1. batch' \in Batches /\ batch' \notin undone'
      BY <2>1, <1>2, <1>5, <1>6, <1>7 DEF Begins
    <3>2. batch' \notin loose' => db'.inTx
      BY <2>1, <1>6
    <3>3. \A w \in written : w.batch # batch + 1
      BY <1>2, <1>7 DEF Begins
    <3>4. Of(batch', db'.stored) = {} /\ Of(batch', db'.pending) = {} /\ Of(batch', written') = {}
      BY <2>1, <3>3, <1>2, <1>3, <1>5, <1>6 DEF Of, Begins
    <3> QED
      BY <3>1, <3>2, <3>4 DEF Current
  <2>2. CASE n # 0
    BY <2>2, <1>2, <1>3, <1>4, <1>5, <1>6 DEF Current
  <2> QED
    BY <2>1, <2>2
<1>12. Counted'
  <2>1. faults' = 0 => faults = 0 /\ f = 0
    BY <1>1, <1>2 DEF TransactionsTypeOK
  <2>2. faults' = 0 => db'.inTx
    BY <2>1, <1>2, <1>3, <1>4 DEF Counted
  <2> QED
    BY <2>2, <1>4, <1>5 DEF Counted
<1> QED
  BY <1>8, <1>9, <1>10, <1>11, <1>12 DEF TransactionsIInv

LEMMA CancelStep ==
  ASSUME TransactionsIInv, NEW s \in Scopes, Cancel(s)
  PROVE  TransactionsIInv'
<1>1. TransactionsTyped'
  BY DEF TransactionsIInv, TransactionsTyped, TransactionsTypeOK, Cancel, Writes
<1>2. Begins' /\ Whole' /\ Current' /\ Counted'
  BY DEF TransactionsIInv, Cancel, Begins, Whole, Current, Counted, Of
<1> QED
  BY <1>1, <1>2 DEF TransactionsIInv

LEMMA DestructStep ==
  ASSUME TransactionsIInv, NEW s \in Scopes, Destruct(s)
  PROVE  TransactionsIInv'
<1> DEFINE n == transactionCounter - 1
<1>1. PICK f \in {0, 1} :
        /\ faults + f <= MaxFaults
        /\ db' = AfterEnd(db, n, s, f)
        /\ faults' = faults + f
        /\ undone' = IF n = 0 /\ s \in canceled THEN undone \cup {batch} ELSE undone
        /\ stuck' = IF n = 0 /\ s \in canceled /\ f = 1 THEN stuck \cup {batch} ELSE stuck
  BY DEF Destruct, May, EndBatch
<1>2. /\ TransactionsTypeOK /\ Begins /\ Whole /\ Current /\ Counted
      /\ IsFiniteSet(scopes) /\ transactionCounter = Cardinality(scopes)
  BY DEF TransactionsIInv, TransactionsTyped
<1>3. /\ s \in scopes /\ transactionCounter' = n /\ scopes' = scopes \ {s}
      /\ canceled' = canceled \ {s} /\ batch' = batch /\ written' = written /\ loose' = loose
  BY DEF Destruct
<1>4. /\ IsFiniteSet(scopes \ {s}) /\ n = Cardinality(scopes \ {s}) /\ n \in Nat
  <2>1. IsFiniteSet(scopes \ {s}) /\ Cardinality(scopes \ {s}) = transactionCounter - 1
    BY <1>2, <1>3, CountScopes
  <2>2. Cardinality(scopes \ {s}) \in Nat
    BY <2>1, FS_CardinalityType
  <2> QED
    BY <2>1, <2>2
<1>5. transactionCounter \in Nat /\ transactionCounter = n + 1
  BY <1>2, <1>4 DEF TransactionsTypeOK
<1>6. /\ db' \in [inTx : BOOLEAN, pending : SUBSET Writes, stored : SUBSET Writes]
      /\ (n # 0 => db' = db)
  BY <1>1, EndType DEF TransactionsIInv
<1>7. /\ db'.pending \subseteq written /\ db'.stored \subseteq written
      /\ undone' \subseteq 1..batch
      /\ \A b \in Batches \ loose :
           /\ Of(b, db'.stored) \in {{}, Of(b, written)}
           /\ Of(b, db'.pending) \in {{}, Of(b, written)}
           /\ (b \in undone' \ stuck' => Of(b, db'.stored) = {} /\ Of(b, db'.pending) = {})
           /\ (b \in undone' /\ Of(b, db'.stored) # {} => Outlived(b, batch, n, undone'))
  <2> DEFINE d == AfterEnd(db, n, s, f)
             U == IF n = 0 /\ s \in canceled THEN undone \cup {batch} ELSE undone
             K == IF n = 0 /\ s \in canceled /\ f = 1 THEN stuck \cup {batch} ELSE stuck
  <2>1. EachWhole(d, n, U, K)
    <3>1. /\ n = transactionCounter - 1 /\ d = AfterEnd(db, n, s, f)
          /\ U = IF n = 0 /\ s \in canceled THEN undone \cup {batch} ELSE undone
          /\ K = IF n = 0 /\ s \in canceled /\ f = 1 THEN stuck \cup {batch} ELSE stuck
      OBVIOUS
    <3> HIDE DEF d, U, K, n
    <3> QED
      BY <1>3, <3>1, EndKeepsWhole
  <2>2. db' = d /\ undone' = U /\ stuck' = K
    BY <1>1
  <2> HIDE DEF d, U, K, n
  <2> QED
    BY <2>1, <2>2 DEF EachWhole
<1>8. TransactionsTyped'
  <2>1. IsFiniteSet(written') /\ canceled' \subseteq scopes'
    BY <1>2, <1>3 DEF TransactionsIInv, TransactionsTyped, TransactionsTypeOK
  <2>2. undone' \subseteq Batches /\ stuck' \subseteq undone'
    BY <1>1, <1>2, <1>5 DEF TransactionsTypeOK, Current
  <2>3. faults' \in 0..MaxFaults
    BY <1>1, <1>2, TransactionsAssumption DEF TransactionsTypeOK
  <2> QED
    BY <2>1, <2>2, <2>3, <1>2, <1>3, <1>4, <1>6
       DEF TransactionsTyped, TransactionsTypeOK, Writes
<1>9. Begins'
  BY <1>2, <1>3, <1>7 DEF Begins
<1>10. Whole'
  BY <1>3, <1>7 DEF Whole
<1>11. Current'
  <2>1. n > 0 => transactionCounter > 0 /\ db' = db /\ undone' = undone
    BY <1>1, <1>4, <1>5, <1>6
  <2> QED
    BY <2>1, <1>2, <1>3 DEF Current
<1>12. Counted'
  <2>1. faults' = 0 => faults = 0 /\ f = 0 /\ db.inTx
    BY <1>1, <1>2, <1>4, <1>5 DEF TransactionsTypeOK, Counted
  <2>2. faults' = 0 /\ n = 0 => ~db'.inTx
    BY <2>1, <1>1 DEF AfterEnd, Committed, RolledBack, Outermost
  <2>3. faults' = 0 /\ n # 0 => db'.inTx
    BY <2>1, <1>6
  <2>4. n > 0 <=> n # 0
    <3> HIDE DEF n
    <3> QED
      BY <1>4
  <2> QED
    BY <2>2, <2>3, <2>4, <1>3 DEF Counted
<1> QED
  BY <1>8, <1>9, <1>10, <1>11, <1>12 DEF TransactionsIInv

LEMMA RestartStep ==
  ASSUME TransactionsIInv, NEW s \in Scopes, CommitAndRestart(s)
  PROVE  TransactionsIInv'
<1> DEFINE n == transactionCounter - 1
<1>1. PICK e \in {0, 1}, f \in {0, 1} :
        /\ faults + e + f <= MaxFaults
        /\ db' = AfterBegin(AfterEnd(db, n, s, e), n, f)
        /\ faults' = faults + e + f
        /\ undone' = IF n = 0 /\ s \in canceled THEN undone \cup {batch} ELSE undone
        /\ stuck' = IF n = 0 /\ s \in canceled /\ e = 1 THEN stuck \cup {batch} ELSE stuck
  <2>1. PICK e \in {0, 1}, f \in {0, 1} :
          /\ May(e + f) /\ faults' = faults + e + f
          /\ db' = AfterBegin(AfterEnd(db, n, s, e), n, f)
          /\ EndBatch(n, s, e)
    BY DEF CommitAndRestart
  <2>2. faults + (e + f) = faults + e + f
    BY DEF TransactionsIInv, TransactionsTyped, TransactionsTypeOK
  <2>3. /\ undone' = IF n = 0 /\ s \in canceled THEN undone \cup {batch} ELSE undone
        /\ stuck' = IF n = 0 /\ s \in canceled /\ e = 1 THEN stuck \cup {batch} ELSE stuck
    BY <2>1 DEF EndBatch
  <2> QED
    BY <2>1, <2>2, <2>3 DEF May
<1>2. /\ TransactionsTypeOK /\ Begins /\ Whole /\ Current /\ Counted
      /\ IsFiniteSet(scopes) /\ transactionCounter = Cardinality(scopes)
  BY DEF TransactionsIInv, TransactionsTyped
<1>3. /\ s \in scopes /\ transactionCounter' = transactionCounter /\ scopes' = scopes
      /\ canceled' = canceled \ {s} /\ written' = written
  BY DEF CommitAndRestart
<1>4. transactionCounter \in Nat /\ transactionCounter > 0 /\ n \in Nat
  <2>1. transactionCounter # 0 /\ transactionCounter \in Nat
    BY <1>2, <1>3, CountScopes DEF TransactionsTypeOK
  <2> QED
    BY <2>1
<1>5. /\ (n = 0 => /\ batch + 1 \in Batches /\ batch' = batch + 1
                   /\ loose' = IF db'.inTx THEN loose ELSE loose \cup {batch + 1})
      /\ (n # 0 => batch' = batch /\ loose' = loose)
  BY DEF CommitAndRestart, BeginBatch
<1>6. batch \in Batches /\ batch \in Nat /\ batch' \in Batches /\ batch' \in batch..(batch + 1)
  BY <1>2, <1>4, <1>5, TransactionsAssumption DEF TransactionsTypeOK, Current
<1> DEFINE d == AfterEnd(db, n, s, e)
<1>7. /\ d \in [inTx : BOOLEAN, pending : SUBSET Writes, stored : SUBSET Writes]
      /\ (n # 0 => d = db)
  BY EndType DEF TransactionsIInv
<1>8. /\ d.pending \subseteq written /\ d.stored \subseteq written
      /\ undone' \subseteq 1..batch
      /\ \A b \in Batches \ loose :
           /\ Of(b, d.stored) \in {{}, Of(b, written)}
           /\ Of(b, d.pending) \in {{}, Of(b, written)}
           /\ (b \in undone' \ stuck' => Of(b, d.stored) = {} /\ Of(b, d.pending) = {})
           /\ (b \in undone' /\ Of(b, d.stored) # {} => Outlived(b, batch, n, undone'))
  <2> DEFINE U == IF n = 0 /\ s \in canceled THEN undone \cup {batch} ELSE undone
             K == IF n = 0 /\ s \in canceled /\ e = 1 THEN stuck \cup {batch} ELSE stuck
  <2>1. EachWhole(d, n, U, K)
    <3>1. /\ n = transactionCounter - 1 /\ d = AfterEnd(db, n, s, e)
          /\ U = IF n = 0 /\ s \in canceled THEN undone \cup {batch} ELSE undone
          /\ K = IF n = 0 /\ s \in canceled /\ e = 1 THEN stuck \cup {batch} ELSE stuck
      OBVIOUS
    <3> HIDE DEF d, U, K, n
    <3> QED
      BY <1>3, <3>1, EndKeepsWhole
  <2>2. undone' = U /\ stuck' = K
    BY <1>1
  <2> HIDE DEF d, U, K, n
  <2> QED
    BY <2>1, <2>2 DEF EachWhole
<1>9. /\ db' \in [inTx : BOOLEAN, pending : SUBSET Writes, stored : SUBSET Writes]
      /\ db'.pending = d.pending /\ db'.stored = d.stored
      /\ (n # 0 => db' = db)
  <2> HIDE DEF d, n
  <2>1. db' = AfterBegin(d, n, f)
    BY <1>1 DEF d, n
  <2> QED
    BY <2>1, <1>7, BeginType DEF TransactionsIInv
<1>10. TransactionsTyped'
  <2>1. IsFiniteSet(written') /\ IsFiniteSet(scopes') /\ canceled' \subseteq scopes'
    BY <1>2, <1>3 DEF TransactionsIInv, TransactionsTyped, TransactionsTypeOK
  <2>2. undone' \subseteq Batches /\ stuck' \subseteq undone' /\ loose' \subseteq {0} \cup Batches
    BY <1>1, <1>2, <1>5, <1>6 DEF TransactionsTypeOK
  <2>3. faults' \in 0..MaxFaults
    BY <1>1, <1>2, TransactionsAssumption DEF TransactionsTypeOK
  <2> QED
    BY <2>1, <2>2, <2>3, <1>2, <1>3, <1>4, <1>6, <1>9
       DEF TransactionsTyped, TransactionsTypeOK, Writes
<1>11. Begins'
  <2>1. \A w \in written : w.batch \in Nat /\ w.batch <= batch
    <3>1. \A w \in written : w.batch \in {0} \cup Batches
      BY <1>2 DEF TransactionsTypeOK, Writes
    <3>2. {0} \cup Batches \subseteq Nat
      BY TransactionsAssumption
    <3> QED
      BY <3>1, <3>2, <1>2 DEF Begins
  <2>2. undone' \subseteq 1..batch'
    BY <1>6, <1>8
  <2>3. \A w \in written' : w.batch <= batch'
    BY <2>1, <1>3, <1>6
  <2> QED
    BY <2>2, <2>3, <1>3, <1>8, <1>9 DEF Begins
<1>12. Whole'
  <2>1. Batches \ loose' \subseteq Batches \ loose
    BY <1>5
  <2>2. ASSUME NEW b \in Batches \ loose, Outlived(b, batch, n, undone')
        PROVE  Outlived(b, batch', transactionCounter', undone')
    <3>1. b \in Nat /\ (n # 0 => n > 0) /\ undone' \subseteq undone' \cup {batch}
      BY <1>4, TransactionsAssumption
    <3> HIDE DEF n
    <3> QED
      BY <2>2, <3>1, <1>4, <1>5, <1>6, OutlivedStays
  <2> QED
    BY <2>1, <2>2, <1>3, <1>8, <1>9 DEF Whole
<1>13. Current'
  <2>1. CASE n = 0
    <3>1. batch' \in Batches /\ batch' \notin undone'
      BY <2>1, <1>5, <1>6, <1>8
    <3>2. batch' \notin loose' => db'.inTx
      BY <2>1, <1>5
    <3>3. \A w \in written : w.batch # batch + 1
      BY <1>2, <1>6 DEF Begins
    <3>4. Of(batch', db'.stored) = {} /\ Of(batch', db'.pending) = {} /\ Of(batch', written') = {}
      BY <2>1, <3>3, <1>3, <1>5, <1>8, <1>9 DEF Of
    <3> QED
      BY <3>1, <3>2, <3>4 DEF Current
  <2>2. CASE n # 0
    BY <2>2, <1>1, <1>2, <1>3, <1>5, <1>9 DEF Current
  <2> QED
    BY <2>1, <2>2
<1>14. Counted'
  <2>1. faults' = 0 => faults = 0 /\ f = 0 /\ db.inTx
    BY <1>1, <1>2, <1>4 DEF TransactionsTypeOK, Counted
  <2>2. faults' = 0 /\ n = 0 => db'.inTx
    BY <2>1, <1>1, <1>7, BeginType DEF TransactionsIInv
  <2>3. faults' = 0 /\ n # 0 => db'.inTx
    BY <2>1, <1>9
  <2> QED
    BY <2>2, <2>3, <1>3, <1>4 DEF Counted
<1> QED
  BY <1>10, <1>11, <1>12, <1>13, <1>14 DEF TransactionsIInv

LEMMA WriteStep == TransactionsIInv /\ Write => TransactionsIInv'
<1> SUFFICES ASSUME TransactionsIInv, Write PROVE TransactionsIInv'
  OBVIOUS
<1> DEFINE id == Cardinality(written) + 1
           w == [batch |-> IF transactionCounter = 0 THEN 0 ELSE batch, id |-> id]
<1>1. /\ id <= MaxWrites /\ db' = Wrote(db, w) /\ written' = written \cup {w}
      /\ UNCHANGED <<scopes, canceled, transactionCounter, batch, undone, stuck, loose, faults>>
  BY DEF Write
<1>2. /\ TransactionsTypeOK /\ Begins /\ Whole /\ Current /\ Counted /\ TransactionsTyped
  BY DEF TransactionsIInv, TransactionsTyped
<1>3. w \in Writes /\ w.batch = IF transactionCounter = 0 THEN 0 ELSE batch
  <2>1. Cardinality(written) \in Nat
    BY FS_CardinalityType DEF TransactionsIInv, TransactionsTyped
  <2>2. id \in 1..MaxWrites
    BY <2>1, <1>1, TransactionsAssumption
  <2> QED
    BY <2>2, <1>2 DEF TransactionsTypeOK, Writes
<1> HIDE DEF w, id
<1>4. /\ db' \in [inTx : BOOLEAN, pending : SUBSET Writes, stored : SUBSET Writes]
      /\ db'.inTx = db.inTx
      /\ db'.pending = IF db.inTx THEN db.pending \cup {w} ELSE db.pending
      /\ db'.stored = IF db.inTx THEN db.stored ELSE db.stored \cup {w}
  BY <1>1, <1>2, <1>3 DEF Wrote, TransactionsTypeOK
<1>5. TransactionsTyped'
  <2>1. IsFiniteSet(written')
    BY <1>1, FS_AddElement DEF TransactionsIInv, TransactionsTyped
  <2> QED
    BY <2>1, <1>1, <1>2, <1>3, <1>4
       DEF TransactionsTyped, TransactionsTypeOK, Writes
<1>6. batch \in Nat
  BY <1>2, TransactionsAssumption DEF TransactionsTypeOK
<1>7. Begins'
  BY <1>1, <1>2, <1>3, <1>4, <1>6 DEF Begins
<1>8. ASSUME NEW b \in Batches \ loose
      PROVE  /\ Of(b, db'.stored) \in {{}, Of(b, written')}
             /\ Of(b, db'.pending) \in {{}, Of(b, written')}
             /\ (b \in undone \ stuck => Of(b, db'.stored) = {} /\ Of(b, db'.pending) = {})
             /\ (b \in undone /\ Of(b, db'.stored) # {} =>
                   Outlived(b, batch, transactionCounter, undone))
  <2>1. /\ Of(b, db.stored) \in {{}, Of(b, written)}
        /\ Of(b, db.pending) \in {{}, Of(b, written)}
        /\ (b \in undone \ stuck => Of(b, db.stored) = {} /\ Of(b, db.pending) = {})
        /\ (b \in undone /\ Of(b, db.stored) # {} =>
              Outlived(b, batch, transactionCounter, undone))
    BY <1>2 DEF Whole
  <2>2. CASE b # w.batch
    <3>1. Of(b, db'.stored) = Of(b, db.stored) /\ Of(b, db'.pending) = Of(b, db.pending)
      BY <2>2, <1>4 DEF Of
    <3>2. Of(b, written') = Of(b, written)
      BY <2>2, <1>1 DEF Of
    <3> QED
      BY <2>1, <3>1, <3>2
  <2>3. CASE b = w.batch
    <3>1. transactionCounter > 0 /\ b = batch
      BY <2>3, <1>2, <1>3, TransactionsAssumption DEF TransactionsTypeOK
    <3>2. /\ b \notin undone /\ db.inTx
          /\ Of(b, db.stored) = {} /\ Of(b, db.pending) = Of(b, written)
      BY <3>1, <1>2 DEF Current
    <3>3. Of(b, db'.pending) = Of(b, written')
      BY <3>2, <1>1, <1>4 DEF Of
    <3> QED
      BY <3>2, <3>3, <1>4
  <2> QED
    BY <2>2, <2>3
<1>9. Whole'
  BY <1>1, <1>8 DEF Whole
<1>10. Current'
  <2>1. transactionCounter > 0 => batch \in Batches /\ batch \notin undone
    BY <1>2 DEF Current
  <2>2. ASSUME transactionCounter > 0, batch \notin loose
        PROVE  /\ db'.inTx /\ Of(batch, db'.stored) = {}
               /\ Of(batch, db'.pending) = Of(batch, written')
    <3>1. db.inTx /\ Of(batch, db.stored) = {} /\ Of(batch, db.pending) = Of(batch, written)
      BY <2>2, <1>2 DEF Current
    <3>2. Of(batch, db'.pending) = Of(batch, written')
      BY <3>1, <1>1, <1>4 DEF Of
    <3> QED
      BY <3>1, <3>2, <1>4
  <2> QED
    BY <2>1, <2>2, <1>1 DEF Current
<1>11. Counted'
  BY <1>1, <1>2, <1>4 DEF Counted
<1> QED
  BY <1>5, <1>7, <1>9, <1>10, <1>11 DEF TransactionsIInv

LEMMA InterruptStep == TransactionsIInv /\ Interrupt => TransactionsIInv'
<1> SUFFICES ASSUME TransactionsIInv, Interrupt PROVE TransactionsIInv'
  OBVIOUS
<1>1. /\ faults + 1 <= MaxFaults /\ faults' = faults + 1
      /\ db' = [inTx |-> FALSE, pending |-> {}, stored |-> db.stored]
      /\ loose' = loose \cup {w.batch : w \in db.pending}
                        \cup (IF transactionCounter > 0 THEN {batch} ELSE {})
      /\ UNCHANGED <<scopes, canceled, transactionCounter, batch, written, undone, stuck>>
  BY DEF Interrupt, May, RolledBack
<1>2. /\ TransactionsTypeOK /\ Begins /\ Whole /\ Current /\ TransactionsTyped
  BY DEF TransactionsIInv, TransactionsTyped
<1>3. TransactionsTyped'
  <2>1. loose' \subseteq {0} \cup Batches
    BY <1>1, <1>2 DEF TransactionsTypeOK, Writes
  <2>2. faults' \in 0..MaxFaults
    BY <1>1, <1>2, TransactionsAssumption DEF TransactionsTypeOK
  <2> QED
    BY <2>1, <2>2, <1>1, <1>2
       DEF TransactionsTyped, TransactionsTypeOK, Writes
<1>4. Begins' /\ Current'
  BY <1>1, <1>2 DEF Begins, Current
<1>5. Whole'
  <2>1. \A b : Of(b, db'.pending) = {}
    BY <1>1 DEF Of
  <2> QED
    BY <2>1, <1>1, <1>2 DEF Whole
<1>6. Counted'
  BY <1>1, <1>2 DEF Counted, TransactionsTypeOK
<1> QED
  BY <1>3, <1>4, <1>5, <1>6 DEF TransactionsIInv

LEMMA TransactionsStepIInv ==
  TransactionsIInv /\ [TransactionsNext]_transactionVars => TransactionsIInv'
<1> SUFFICES ASSUME TransactionsIInv, [TransactionsNext]_transactionVars PROVE TransactionsIInv'
  OBVIOUS
<1>1. ASSUME NEW s \in Scopes,
             Construct(s) \/ Cancel(s) \/ Destruct(s) \/ CommitAndRestart(s)
      PROVE  TransactionsIInv'
  BY <1>1, ConstructStep, CancelStep, DestructStep, RestartStep
<1>2. CASE Write
  BY <1>2, WriteStep
<1>3. CASE Interrupt
  BY <1>3, InterruptStep
<1>4. CASE UNCHANGED transactionVars
  BY <1>4 DEF transactionVars, TransactionsIInv, TransactionsTyped, TransactionsTypeOK, Writes,
              Begins, Whole, Current,
              Counted, Of
<1> QED
  BY <1>1, <1>2, <1>3, <1>4 DEF TransactionsNext

LEMMA TransactionsIInvAlways == TransactionsSpec => []TransactionsIInv
BY TransactionsInitIInv, TransactionsStepIInv, PTL DEF TransactionsSpec

-----------------------------------------------------------------------------

(***************************************************************************)
(* The variables keep their types; above all the counter, which is never   *)
(* negative, and the flags, which belong to scopes that are alive.         *)
(***************************************************************************)
THEOREM TransactionsTypes == TransactionsSpec => []TransactionsTypeOK
<1>1. TransactionsIInv => TransactionsTypeOK
  BY DEF TransactionsIInv, TransactionsTyped
<1> QED
  BY <1>1, TransactionsIInvAlways, PTL

(***************************************************************************)
(* A transaction is open exactly while a scope is alive, unless a          *)
(* statement has failed, and the counter counts the scopes.                *)
(***************************************************************************)
THEOREM TransactionOpenWhileScoped == TransactionsSpec => []OpenWhileScoped
<1>1. TransactionsIInv => OpenWhileScoped
  <2> SUFFICES ASSUME TransactionsIInv PROVE OpenWhileScoped
    OBVIOUS
  <2>1. IsFiniteSet(scopes) /\ transactionCounter = Cardinality(scopes)
    BY DEF TransactionsIInv, TransactionsTyped
  <2>2. Cardinality(scopes) \in Nat /\ (Cardinality(scopes) = 0 <=> scopes = {})
    BY <2>1, FS_CardinalityType, FS_EmptySet
  <2>3. transactionCounter > 0 <=> scopes # {}
    BY <2>1, <2>2
  <2> QED
    BY <2>1, <2>3 DEF TransactionsIInv, Counted, OpenWhileScoped
<1> QED
  BY <1>1, TransactionsIInvAlways, PTL

(***************************************************************************)
(* The writes of a batch are in the database all or none, whichever        *)
(* COMMIT or ROLLBACK failed, as long as its transaction was always open.  *)
(***************************************************************************)
THEOREM BatchesAllOrNothing == TransactionsSpec => []AllOrNothing
<1>1. TransactionsIInv => AllOrNothing
  BY DEF TransactionsIInv, Whole, AllOrNothing
<1> QED
  BY <1>1, TransactionsIInvAlways, PTL

(***************************************************************************)
(* What was canceled reaches the database only where its ROLLBACK failed   *)
(* and a later batch, which was not canceled, has ended: for any number of *)
(* scopes, batches, writes and failures, under the same condition.         *)
(***************************************************************************)
THEOREM CanceledBatchesUndone == TransactionsSpec => []CanceledIsUndone
<1>1. TransactionsIInv => CanceledIsUndone
  <2> SUFFICES ASSUME TransactionsIInv, NEW b \in undone \ loose, Of(b, db.stored) # {}
               PROVE  b \in stuck /\ Outlived(b, batch, transactionCounter, undone)
    BY DEF CanceledIsUndone, Outlived, Ended
  <2>1. b \in Batches \ loose
    BY DEF TransactionsIInv, TransactionsTyped, TransactionsTypeOK
  <2> QED
    BY <2>1 DEF TransactionsIInv, Whole
<1> QED
  BY <1>1, TransactionsIInvAlways, PTL

=============================================================================
