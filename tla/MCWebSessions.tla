--------------------------- MODULE MCWebSessions ---------------------------
(* Two keys of one operator, exchanged for sessions while they are replaced. *)
EXTENDS WebSessions, TLC

CONSTANTS k1, k2, s1, r1, r2, c1, ann

OwnerOf == [k \in Keys |-> ann]

TwoEnds == {2, Never}

SessionSymmetry == Permutations(Requests)
=============================================================================
