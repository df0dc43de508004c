---------------------------- MODULE MCDaemonLoop ----------------------------
(***************************************************************************)
(* An instance of DaemonLoop for TLC: one worker thread that posts, and    *)
(* the loop thread, whose handlers and OnInit also call the queue.         *)
(***************************************************************************)
EXTENDS DaemonLoop

CONSTANTS a, w1

=============================================================================
