------------------------------ MODULE MCLibrary ------------------------------
(* Values and symmetry for checking Library with TLC. *)
EXTENDS Library, TLC

(* gRPC and POST /users/library take a negative chapter too. *)
SomeChapters == {-1, 1, 2}

Symmetry == Permutations(Workers)
===============================================================================
