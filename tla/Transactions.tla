---------------------------- MODULE Transactions ----------------------------
(***************************************************************************)
(* f8n::db::ScopedTransaction: nested scopes on one connection, of which   *)
(* only the first begins a transaction and only the last to end commits it *)
(* or rolls it back.  Nobody looks at what BEGIN, COMMIT and ROLLBACK      *)
(* return: where the last two fail the counter is zero and the transaction *)
(* is still open, and what it has written is left to the next scope.       *)
(*                                                                         *)
(* A batch is what is written from the time the counter leaves zero until  *)
(* it is zero again: the work that should be done wholly or not at all.    *)
(***************************************************************************)
EXTENDS Naturals, FiniteSets

CONSTANTS
  Scopes,           (* The ScopedTransaction objects of the connection.     *)
  Batches,          (* 1..n: bounds how often the counter leaves zero.      *)
  MaxWrites,        (* Bounds the statements executed.                      *)
  MaxFaults         (* Bounds the failures of SQLite.                       *)

ASSUME TransactionsAssumption ==
  /\ IsFiniteSet(Scopes)
  /\ Batches \subseteq Nat \ {0}
  /\ MaxWrites \in Nat /\ MaxFaults \in Nat

VARIABLES
  scopes,           (* The scopes that are alive.                           *)
  canceled,         (* Those whose flag is set.                             *)
  transactionCounter,
  db,               (* SQLite: inTx, a transaction is open; pending, what   *)
                    (* it has written; stored, what the database holds.     *)
  batch,            (* The batch the counter is in, or the last one.        *)
  written,          (* Everything written so far, as far as callers know.   *)
  undone,           (* Batches that ended with a cancel.                    *)
  stuck,            (* Those of them whose ROLLBACK failed.                 *)
  loose,            (* Batches of which some of the time no transaction was *)
                    (* open: BEGIN failed, or an interrupt rolled it back.  *)
  faults

transactionVars == <<scopes, canceled, transactionCounter, db, batch, written, undone,
                     stuck, loose, faults>>

Writes == [batch : {0} \cup Batches, id : 1..MaxWrites]

Of(b, W) == {w \in W : w.batch = b}

(* What a statement of SQL does; one that fails changes nothing. *)
Begun(d)      == [d EXCEPT !.inTx = TRUE]
Committed(d)  == [inTx |-> FALSE, pending |-> {}, stored |-> d.stored \cup d.pending]
RolledBack(d) == [inTx |-> FALSE, pending |-> {}, stored |-> d.stored]
Wrote(d, w)   == IF d.inTx THEN [d EXCEPT !.pending = @ \cup {w}]
                 ELSE [d EXCEPT !.stored = @ \cup {w}]

(* An error nobody looks at: the database is busy, or out of space. *)
May(fails) == faults + fails <= MaxFaults                             \* bound

(* Mutant: nested scopes are not counted. *)
OneForAll(n) == IF n = 0 THEN 1 ELSE n

Incremented(n) == n + 1

(* Mutant: every scope begins a transaction, and ends it. *)
EveryScope(n) == TRUE

Outermost(n) == n = 0

(* BEGIN fails inside a transaction, and when the database is busy. *)
AfterBegin(d, n, fails) ==
  IF Outermost(n) /\ fails = 0 /\ ~d.inTx THEN Begun(d) ELSE d

(* COMMIT and ROLLBACK fail without a transaction; either may in one.      *)
(* Mutant: what was canceled is committed.                                 *)
AfterEndCanceledToo(d, n, s, fails) ==
  IF ~Outermost(n) \/ ~d.inTx \/ fails = 1 THEN d ELSE Committed(d)

AfterEnd(d, n, s, fails) ==
  IF ~Outermost(n) \/ ~d.inTx \/ fails = 1 THEN d
  ELSE IF s \in canceled THEN RolledBack(d) ELSE Committed(d)

(* A batch that begins outside of every transaction is loose. *)
BeginBatch(n, d) ==
  IF n = 0
  THEN /\ batch + 1 \in Batches                                       \* bound
       /\ batch' = batch + 1
       /\ loose' = IF d.inTx THEN loose ELSE loose \cup {batch + 1}
  ELSE UNCHANGED <<batch, loose>>

EndBatch(n, s, fails) ==
  IF n = 0 /\ s \in canceled
  THEN /\ undone' = undone \cup {batch}
       /\ stuck' = IF fails = 1 THEN stuck \cup {batch} ELSE stuck
  ELSE UNCHANGED <<undone, stuck>>

-----------------------------------------------------------------------------

(* The constructor: Begin. *)
Construct(s) ==
  /\ s \notin scopes
  /\ \E fails \in {0, 1} :
       /\ May(fails)
       /\ db' = AfterBegin(db, transactionCounter, fails)
       /\ faults' = faults + fails
  /\ transactionCounter' = Incremented(transactionCounter)
  /\ scopes' = scopes \cup {s}
  /\ BeginBatch(transactionCounter, db')
  /\ UNCHANGED <<canceled, written, undone, stuck>>

Cancel(s) ==
  /\ s \in scopes
  /\ canceled' = canceled \cup {s}
  /\ UNCHANGED <<scopes, transactionCounter, db, batch, written, undone, stuck, loose,
                 faults>>

(* The destructor: End. *)
Destruct(s) ==
  /\ s \in scopes
  /\ \E fails \in {0, 1} :
       /\ May(fails)
       /\ db' = AfterEnd(db, transactionCounter - 1, s, fails)
       /\ EndBatch(transactionCounter - 1, s, fails)
       /\ faults' = faults + fails
  /\ transactionCounter' = transactionCounter - 1
  /\ scopes' = scopes \ {s}
  /\ canceled' = canceled \ {s}
  /\ UNCHANGED <<batch, written, loose>>

(* End and Begin of a scope that lives on. *)
CommitAndRestart(s) ==
  LET n == transactionCounter - 1
  IN /\ s \in scopes
     /\ \E e, b \in {0, 1} :
          /\ May(e + b) /\ faults' = faults + e + b
          /\ db' = AfterBegin(AfterEnd(db, n, s, e), n, b)
          /\ EndBatch(n, s, e)
     /\ BeginBatch(n, db')
     /\ canceled' = canceled \ {s}
     /\ UNCHANGED <<scopes, transactionCounter, written>>

(* A statement that writes, executed on the connection. *)
Write ==
  LET n == Cardinality(written) + 1
      w == [batch |-> IF transactionCounter = 0 THEN 0 ELSE batch, id |-> n]
  IN /\ n <= MaxWrites                                                \* bound
     /\ db' = Wrote(db, w)
     /\ written' = written \cup {w}
     /\ UNCHANGED <<scopes, canceled, transactionCounter, batch, undone, stuck, loose, faults>>

(* Interrupt meets a statement that writes: SQLite ends the transaction. *)
Interrupt ==
  /\ May(1) /\ faults' = faults + 1
  /\ db.inTx
  /\ db' = RolledBack(db)
  /\ loose' = loose \cup {w.batch : w \in db.pending}
                    \cup (IF transactionCounter > 0 THEN {batch} ELSE {})
  /\ UNCHANGED <<scopes, canceled, transactionCounter, batch, written, undone, stuck>>

TransactionsInit ==
  /\ scopes = {}
  /\ canceled = {}
  /\ transactionCounter = 0
  /\ db = [inTx |-> FALSE, pending |-> {}, stored |-> {}]
  /\ batch = 0
  /\ written = {}
  /\ undone = {}
  /\ stuck = {}
  /\ loose = {}
  /\ faults = 0

TransactionsNext ==
  \/ \E s \in Scopes : Construct(s) \/ Cancel(s) \/ Destruct(s) \/ CommitAndRestart(s)
  \/ Write
  \/ Interrupt

TransactionsSpec == TransactionsInit /\ [][TransactionsNext]_transactionVars

-----------------------------------------------------------------------------
(* Properties.                                                             *)

TransactionsTypeOK ==
  /\ scopes \subseteq Scopes
  /\ canceled \subseteq scopes
  /\ transactionCounter \in Nat
  /\ db \in [inTx : BOOLEAN, pending : SUBSET Writes, stored : SUBSET Writes]
  /\ batch \in {0} \cup Batches
  /\ written \subseteq Writes
  /\ undone \subseteq Batches /\ stuck \subseteq undone
  /\ loose \subseteq {0} \cup Batches
  /\ faults \in 0..MaxFaults

(***************************************************************************)
(* Whatever scopes begin, end, restart and cancel in whatever order, and   *)
(* whatever COMMIT or ROLLBACK fails, the writes of a batch are in the     *)
(* database all or none, as long as its transaction was open all the time: *)
(* what such a failure leaves behind stays whole in the transaction that   *)
(* the next scope finds open.                                              *)
(***************************************************************************)
AllOrNothing ==
  \A b \in Batches \ loose :
    Of(b, db.stored) \in {{}, Of(b, written)}

(* The counter has been at zero since b was its batch. *)
Ended(b) == b < batch \/ transactionCounter = 0

(***************************************************************************)
(* What was canceled reaches the database in one way only, under the same  *)
(* condition: its ROLLBACK failed, which leaves it in the transaction, and *)
(* a batch that came after it, and was not canceled, has ended.            *)
(***************************************************************************)
CanceledIsUndone ==
  \A b \in undone \ loose :
    Of(b, db.stored) # {} =>
      b \in stuck /\ \E c \in (b + 1)..batch : Ended(c) /\ c \notin undone

(***************************************************************************)
(* SQLite has a transaction open exactly while a scope is alive, as long   *)
(* as no statement has failed: the counter neither drifts from the scopes  *)
(* nor from SQLite's own state.                                            *)
(***************************************************************************)
OpenWhileScoped ==
  /\ transactionCounter = Cardinality(scopes)
  /\ faults = 0 => (db.inTx <=> scopes # {})

=============================================================================
