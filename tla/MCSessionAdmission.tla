------------------------- MODULE MCSessionAdmission -------------------------
(* Small instances of SessionAdmission. *)
EXTENDS SessionAdmission

Symmetry == Permutations(Key)
=============================================================================
