---------------------------- MODULE MCHttpExchange ----------------------------
(* Two sessions, two places and three packets: one that leaves something     *)
(* behind, one that finds it, and one on the other session, which may be     *)
(* beside the first or, made in its memory, after it.                        *)
EXTENDS HttpExchange, TLC

CONSTANTS s1, s2, p1, p2

MCSessions == {s1, s2}
MCPlaces   == {p1, p2}
Symmetry   == Permutations(MCSessions) \union Permutations(MCPlaces)
=============================================================================
