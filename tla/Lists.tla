--------------------------------- MODULE Lists ---------------------------------
(***************************************************************************)
(* Python's lists, as the modules on queries and graphs use them.          *)
(***************************************************************************)
EXTENDS Integers, Sequences, SequencesExt, FiniteSetsExt, TLC

(* s[:n] and s[from:from + n].                                               *)
Slice(s, from, n) == SubSeq(s, from + 1, Min({from + n, Len(s)}))
FirstOf(s, n) == Slice(s, 0, n)

(* sorted: stable.                                                           *)
SortedBy(s, Before(_, _)) ==
  LET order == SortSeq([i \in DOMAIN s |-> i],
                       LAMBDA i, j : \/ Before(s[i], s[j])
                                     \/ ~Before(s[j], s[i]) /\ i < j)
  IN [i \in DOMAIN s |-> s[order[i]]]

(* dict.fromkeys: each element where it comes first.                         *)
Distinct(s) ==
  LET kept == SelectSeq([i \in DOMAIN s |-> i],
                        LAMBDA i : \A j \in 1..(i - 1) : s[j] # s[i])
  IN [i \in DOMAIN kept |-> s[kept[i]]]
================================================================================
