--------------------------- MODULE MCFollowedFile ---------------------------
(* Instances of FollowedFile for TLC. *)
EXTENDS FollowedFile

CONSTANTS n1, n2, n3, none
=============================================================================
