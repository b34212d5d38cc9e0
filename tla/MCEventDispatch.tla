--------------------------- MODULE MCEventDispatch ---------------------------
(* Small instances of EventDispatch. *)
EXTENDS EventDispatch, TLC

(* Threads, breakpoint objects and keys are interchangeable. *)
Symmetry == Permutations(Users) \cup Permutations(Bkpts) \cup Permutations(Keys)
=============================================================================
