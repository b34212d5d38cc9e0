---------------------------- MODULE Reachability ----------------------------
(***************************************************************************)
(* What one translation promises: starting from the entry, every point of  *)
(* the code that control can get to without leaving the ranges is visited, *)
(* and so is every point just outside them where it leaves.  A translation *)
(* that meets code it cannot translate is given up.  Points are visited in *)
(* any order.  Translations follow each other; each may have other code.   *)
(* The process may die at any time.                                        *)
(***************************************************************************)
CONSTANT Points

VARIABLES
  phase,    \* "none", "running", "complete", "given up" or "dead"
  root,     \* the entry
  succ,     \* the points control goes to from each point
  visited

reachVars == <<phase, root, succ, visited>>

(* What the visited points lead to. *)
Known == {root} \cup UNION {succ[p] : p \in visited}

ReachInit == phase = "none" /\ visited = {}

StartReach ==
  /\ phase = "none"
  /\ phase' = "running"
  /\ root' \in Points
  /\ succ' \in [Points -> SUBSET Points]
  /\ visited' = {}

Visit ==
  /\ phase = "running"
  /\ \E p \in Known \ visited : visited' = visited \cup {p}
  /\ UNCHANGED <<phase, root, succ>>

Complete ==
  /\ phase = "running"
  /\ Known \subseteq visited
  /\ phase' = "complete"
  /\ UNCHANGED <<root, succ, visited>>

GiveUp ==
  /\ phase = "running"
  /\ phase' = "given up"
  /\ UNCHANGED <<root, succ, visited>>

Forget ==
  /\ phase \in {"complete", "given up"}
  /\ phase' = "none"
  /\ visited' = {}

Crash ==
  /\ phase # "dead"
  /\ phase' = "dead"
  /\ UNCHANGED <<root, succ, visited>>

ReachSpec == ReachInit /\ [][StartReach \/ Visit \/ Complete \/ GiveUp \/ Forget \/ Crash]_reachVars
=============================================================================
