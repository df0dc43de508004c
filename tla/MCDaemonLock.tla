---------------------------- MODULE MCDaemonLock ----------------------------
(* Instances of DaemonLock for TLC.                                        *)
EXTENDS DaemonLock, TLC

CONSTANTS p1, p2, p3, p4

(* Pids are interchangeable where Garbage holds all of them, or none. *)
Symmetry == Permutations(Pids)

(* An uninitialized pid: of any process, of none, or 0. *)
AnyPid == Pids \cup {NotRunning, OwnGroup}
=============================================================================
