--------------------------- MODULE MCFileIntegrity ---------------------------
(* Instances of FileIntegrity for TLC. *)
EXTENDS FileIntegrity

CONSTANTS p, q, x, y
=============================================================================
