-------------------------------- MODULE MCS2Sync --------------------------------
(* Small instances of S2Sync for TLC: two entries, three papers, two workers. *)
(* Entry e1 resolves to either of two papers, e2 to one of them: two entries  *)
(* may share a paper.  p1 cites p2, so that the syncs of both meet on each    *)
(* other's rows, and p3, which no entry has.  e3 is an id that no entry has.  *)
EXTENDS S2Sync, TLC

CONSTANTS e1, e2, e3, p1, p2, p3

MCMatches == [e \in Entries |-> CASE e = e1 -> {p1, p2} [] e = e2 -> {p2} [] OTHER -> {}]
MCLinks == {<<p1, p2>>, <<p1, p3>>}
(* The smallest instance in which two syncs can deadlock.  p2 cites itself:   *)
(* the link that both edge requests return.                                   *)
PairMatches == [e \in Entries |-> CASE e = e1 -> {p1} [] e = e2 -> {p2} [] OTHER -> {}]
PairLinks == {<<p1, p2>>, <<p2, p1>>, <<p2, p2>>}

WorkerSymmetry == Permutations(Workers)
=================================================================================
