------------------------------ MODULE MCS2Backfill ------------------------------
(* Small instances of S2Backfill: entries 1 and 3 have papers, 2 and 4       *)
(* have none, so that a batch of two may never come to entry 1.               *)
EXTENDS S2Backfill, TLC

CONSTANTS p1, p2, job, req

MCMatches == 1 :> {p1} @@ 2 :> {} @@ 3 :> {p1, p2} @@ 4 :> {}
MCEntries == 1..Newest
MCLinks == {<<p1, p2>>}
=================================================================================
