------------------------------- MODULE Mailbox -------------------------------
(***************************************************************************)
(* What f8n's message queue promises its clients, without its threads, its *)
(* list, its two-phase dispatch or its locks: a set of accepted messages   *)
(* out of which one at a time is handed to its handler, never before it is *)
(* due and always the earliest one first.  A message leaves the set only   *)
(* by being handed over, by a withdrawal of messages for the same target,  *)
(* or because it fell due while its target was not registered.             *)
(***************************************************************************)
EXTENDS Integers

CONSTANTS
  Targets,          (* Objects messages can be addressed to.                *)
  Nil,              (* The target of a broadcast.                           *)
  Types,            (* Message types.                                       *)
  Times             (* The readings the clock can take.                     *)

VARIABLES
  now,              (* Wall clock, in ticks.                                *)
  targets,          (* The registered targets.                              *)
  accepted,         (* How many messages have been accepted so far.         *)
  pending,          (* Accepted, not handled yet, not withdrawn.            *)
  handled           (* The last message handed to its handler.              *)

vars == <<now, targets, accepted, pending, handled>>

(***************************************************************************)
(* `id` is the position of the message in the order of acceptance.         *)
(***************************************************************************)
Messages == [id : Nat, target : Targets \cup {Nil}, type : Types, time : Times]

Precedes(m, n) == \/ m.time < n.time
                  \/ m.time = n.time /\ m.id < n.id

Init ==
  /\ now \in Times
  /\ targets = {}
  /\ accepted = 0
  /\ pending = {}
  /\ handled \in [id : {0}, target : {Nil}, type : Types, time : {0}]

Join(t) ==
  /\ targets' = targets \cup {t}
  /\ UNCHANGED <<now, accepted, pending, handled>>

Leave(t) ==
  /\ targets' = targets \ {t}
  /\ UNCHANGED <<now, accepted, pending, handled>>

(* Only a registered target, or everybody, can be sent something. *)
Accept(m) ==
  /\ m.target \in targets \cup {Nil}
  /\ m.time >= now
  /\ m.id = accepted + 1
  /\ accepted' = m.id
  /\ pending' = pending \cup {m}
  /\ UNCHANGED <<now, targets, handled>>

(* A client takes back messages, all of them for one target. *)
Withdraw(t, W) ==
  /\ \A m \in W : m.target = t
  /\ pending' = pending \ W
  /\ UNCHANGED <<now, targets, accepted, handled>>

(* Messages that fell due while nobody was registered to get them. *)
Discard(D) ==
  /\ \A m \in D : m.target \in Targets \ targets /\ m.time <= now
  /\ pending' = pending \ D
  /\ UNCHANGED <<now, targets, accepted, handled>>

(* The earliest message, once it is due, in order of acceptance on a tie. *)
Deliver(m) ==
  /\ m.time <= now
  /\ \A n \in pending \ {m} : Precedes(m, n)
  /\ pending' = pending \ {m}
  /\ handled' = m
  /\ UNCHANGED <<now, targets, accepted>>

Tick ==
  /\ now + 1 \in Times
  /\ now' = now + 1
  /\ UNCHANGED <<targets, accepted, pending, handled>>

Next ==
  \/ \E t \in Targets : Join(t) \/ Leave(t)
  \/ \E m \in [id : {accepted + 1}, target : targets \cup {Nil}, type : Types,
               time : Times] : Accept(m)
  \/ \E t \in Targets \cup {Nil}, W \in SUBSET pending : Withdraw(t, W)
  \/ \E D \in SUBSET pending : Discard(D)
  \/ \E m \in pending : Deliver(m)
  \/ Tick

Spec == Init /\ [][Next]_vars

=============================================================================
