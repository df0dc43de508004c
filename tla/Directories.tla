----------------------------- MODULE Directories -----------------------------
(***************************************************************************)
(* f8n::env::fs::CreateDirectory, called by several threads or processes   *)
(* for the same path: it looks for every parent and makes the one that is  *)
(* missing, and gives up when mkdir fails, as it does when somebody else   *)
(* has been faster.                                                        *)
(***************************************************************************)
EXTENDS Naturals, FiniteSets

CONSTANTS
  Creators,         (* Threads, each with one call.                         *)
  Depth,            (* Components of the path.                              *)
  MaxFailures       (* Bounds the failures of mkdir for other reasons.      *)

ASSUME DirectoriesAssumption ==
  Creators # {} /\ Depth \in Nat \ {0} /\ MaxFailures \in Nat

VARIABLES
  slash,            (* The path ends with a slash, as GetDataDirectory's.   *)
  made,             (* The prefixes of the path that exist.                 *)
  creator,          (* What each call is doing.                             *)
  prefix,           (* The prefix of the path it is at.                     *)
  beaten,           (* mkdir found that somebody had been faster.           *)
  failures

directoryVars == <<slash, made, creator, prefix, beaten, failures>>

Turn(c, stage) == creator' = [creator EXCEPT ![c] = stage]

(* Exists(path) *)
LookForAll(c) ==
  /\ creator[c] = "begin"
  /\ Turn(c, IF Depth \in made THEN "true" ELSE "look")
  /\ UNCHANGED <<slash, made, prefix, beaten, failures>>

(* Mutant: the parents are left to others. *)
NoParents == {}

(* The prefixes that end in front of a slash. *)
Parents == IF slash THEN 1..Depth ELSE 1..(Depth - 1)

Look(c) ==
  /\ creator[c] = "look"
  /\ IF prefix[c] \in Parents /\ prefix[c] \in made
     THEN prefix' = [prefix EXCEPT ![c] = @ + 1] /\ UNCHANGED creator
     ELSE Turn(c, "make") /\ UNCHANGED prefix
  /\ UNCHANGED <<slash, made, beaten, failures>>

(* mkdir, of a prefix or, past the last of them, of the path itself. *)
MakeDirectory(c) ==
  LET p == prefix[c]
      last == p \notin Parents
      dir == IF last THEN Depth ELSE p
  IN /\ creator[c] = "make"
     /\ \/ /\ dir \notin made /\ (dir = 1 \/ dir - 1 \in made)
           /\ made' = made \cup {dir}
           /\ Turn(c, IF last THEN "true" ELSE "look")
           /\ prefix' = [prefix EXCEPT ![c] = p + 1]
           /\ UNCHANGED <<beaten, failures>>
        \/ /\ dir \in made \/ ~(dir = 1 \/ dir - 1 \in made)
           /\ Turn(c, "false")
           /\ beaten' = [beaten EXCEPT ![c] = (dir \in made /\ p <= Depth)]
           /\ UNCHANGED <<made, prefix, failures>>
        \/ /\ failures < MaxFailures
           /\ failures' = failures + 1
           /\ Turn(c, "false")
           /\ UNCHANGED <<made, prefix, beaten>>
     /\ UNCHANGED slash

(* Some of the path may be there; it is not taken away meanwhile. *)
DirectoriesInit ==
  /\ slash \in BOOLEAN
  /\ made \in {1..n : n \in 0..Depth}
  /\ creator = [c \in Creators |-> "begin"]
  /\ prefix = [c \in Creators |-> 1]
  /\ beaten = [c \in Creators |-> FALSE]
  /\ failures = 0

DirectoriesNext ==
  \E c \in Creators : LookForAll(c) \/ Look(c) \/ MakeDirectory(c)

DirectoriesSpec == DirectoriesInit /\ [][DirectoriesNext]_directoryVars

-----------------------------------------------------------------------------
(* Properties.                                                             *)

DirectoriesTypeOK ==
  /\ slash \in BOOLEAN
  /\ made \in {1..n : n \in 0..Depth}
  /\ creator \in [Creators -> {"begin", "look", "make", "true", "false"}]
  /\ prefix \in [Creators -> 1..(Depth + 1)]
  /\ beaten \in [Creators -> BOOLEAN]
  /\ failures \in 0..MaxFailures

(***************************************************************************)
(* Who is told TRUE has the directory; and once all calls have returned it *)
(* is there, unless mkdir failed for another reason: a call that gives up  *)
(* because it was beaten leaves the rest to one that goes on.  A call that *)
(* was not beaten is told FALSE with a trailing slash only.                *)
(***************************************************************************)
MadeWhenAllReturned ==
  /\ \A c \in Creators : creator[c] = "true" => Depth \in made
  /\ (\A c \in Creators : creator[c] \in {"true", "false"}) /\ failures = 0 => Depth \in made
  /\ \A c \in Creators : creator[c] = "false" /\ failures = 0 /\ ~beaten[c] => slash

=============================================================================
