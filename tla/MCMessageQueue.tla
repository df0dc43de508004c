--------------------------- MODULE MCMessageQueue ---------------------------
(***************************************************************************)
(* Instances of MessageQueue for TLC.                                      *)
(***************************************************************************)
EXTENDS MessageQueue, TLC

CONSTANTS a, b, w1, w2, r1, r2

(* A late, an immediate and a delayed message: a configuration file has no *)
(* way to write a negative number.                                         *)
OverdueOrSoon == {-2, 1}

(* Waits without a timeout, and with a short one. *)
ForeverOrSoon == {Forever, 1}

Symmetry == Permutations(Targets) \cup Permutations(Threads) \cup Permutations(Receivers)

=============================================================================
