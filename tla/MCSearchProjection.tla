--------------------------- MODULE MCSearchProjection ---------------------------
(* A small instance of SearchProjection: two writers and the rebuild, two     *)
(* entries, two or three versions of each.                                    *)
EXTENDS SearchProjection, TLC

CONSTANTS w1, w2, e1, e2

WriterAndEntrySymmetry == Permutations({w1, w2}) \cup Permutations({e1, e2})
=================================================================================
