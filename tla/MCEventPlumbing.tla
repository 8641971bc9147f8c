--------------------------- MODULE MCEventPlumbing ---------------------------
(* Small instances of EventPlumbing.                                       *)
EXTENDS EventPlumbing, TLC

Symmetric == Permutations(Project) \cup Permutations(Zone) \cup Permutations(Request)
=============================================================================
