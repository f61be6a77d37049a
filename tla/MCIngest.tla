------------------------------- MODULE MCIngest --------------------------------
(***************************************************************************)
(* Two ingests of one bibliography: the job of the server, which takes a   *)
(* session for each file, and the command line, which keeps one and finds  *)
(* the entries in another order, other versions of k1, which is stored     *)
(* already, and authors in another order, so that the two may wait for     *)
(* each other over names as well as over entries.  k3 is broken in the     *)
(* file that names it twice.                                               *)
(***************************************************************************)
EXTENDS IngestPipeline

R(k, t, as, ps, b) == [key |-> k, title |-> t, authors |-> as, topics |-> ps, broken |-> b]

MCInitial ==
  [k \in Keys |-> IF k = "k1" THEN [title |-> "old", authors |-> {"d"}, topics |-> {"p"}]
                  ELSE NoRow]

C1 == R("k1", "new", <<"a", "b">>, << >>, FALSE)
N1 == R("k1", "newer", <<"c">>, << >>, FALSE)
C2 == R("k2", "main", <<"b", "a">>, << >>, FALSE)
N2 == R("k2", "main", <<"c">>, << >>, FALSE)
L2 == R("k2", "listed", <<"b">>, <<"q">>, FALSE)
L1 == R("k1", "listed", <<"b", "a">>, <<"q", "p">>, FALSE)
B3 == R("k3", "broken", <<"c">>, <<"q">>, TRUE)
L3 == R("k3", "listed", <<"c">>, <<"q">>, FALSE)

MCSlugs == <<"p", "q">>

MCFiles ==
  [w \in Writers |->
     IF w = "job"
     THEN << [role |-> "canonical", rows |-> <<C1, C2, R(NoKey, "none", << >>, << >>, FALSE)>>],
             [role |-> "curated", rows |-> <<B3, L3, L2>>] >>
     ELSE << [role |-> "canonical", rows |-> <<N2, N1>>],
             [role |-> "curated", rows |-> <<L1, L2>>] >>]
================================================================================
