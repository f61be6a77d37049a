------------------------------ MODULE MCS2Dataset ------------------------------
(* Two releases for TLC.  In the first, papers 1 and 2 cite each other's      *)
(* neighbour; the second has a citation more and takes one back, in a second  *)
(* shard, and paper 3, whose name 33 is not the primary one.                  *)
EXTENDS S2Dataset

Cite(a, b) == [citing |-> a, cited |-> b, influential |-> a < b]
Id(s, c, p) == [sha |-> s, corpusid |-> c, primary |-> p]
Paper(c) == [corpusid |-> c, title |-> c, citations |-> 1, authors |-> <<"a", "b">>,
             externals |-> <<[source |-> "DOI", id |-> "x"]>>]

MCPublished ==
  <<[x \in ToSet(Datasets) |->
      CASE x = "papers" -> <<<<Paper(1)>>>>
        [] x = "citations" -> <<<<Cite(2, 1)>>>>
        [] OTHER -> <<<<Id(11, 1, TRUE), Id(22, 2, TRUE)>>>>],
    [x \in ToSet(Datasets) |->
      CASE x = "papers" -> <<<<Paper(1)>>>>
        [] x = "citations" -> <<<<Cite(1, 2)>>, <<Cite(2, 3)>>>>
        [] OTHER -> <<<<Id(22, 2, TRUE), Id(33, 3, FALSE), Id(11, 1, TRUE)>>>>]>>
================================================================================
