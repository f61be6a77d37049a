------------------------------ MODULE CitationGraph -----------------------------
(***************************************************************************)
(* The citation graph of an entry (services/graph_*.py, routers/graph.py): *)
(* the papers around its own are gathered from a source, the most similar  *)
(* are kept, and the edges between them and the works they have in common  *)
(* are added.                                                              *)
(*                                                                         *)
(* A source is a record of functions: papers, refs and cites (an edge has  *)
(* the id of its other end and a flag), None where it answers None.  An    *)
(* edge of the graph is <<citing, cited, influential>>.  A weight is a     *)
(* fraction <<n, d>>.  Python's order of a set is some order.              *)
(***************************************************************************)
EXTENDS Lists, FiniteSets

CONSTANTS
  None,
  HopCitations, ExpandCitations,  \* citations asked per paper, 500 and 200
  EnrichFirst, EnrichPapers,      \* candidates looked at, 100 and 30
  ExpandFirst,                    \* candidates expanded at depth 2, 20
  MinWeight,                      \* percent a similarity edge needs, 3
  SimilarityEdgesShown,           \* 800
  AggregateLimit,                 \* prior and derivative works shown, 20
  NodesCap                        \* 200

(***************************************************************************)
(* Gathering (graph_fetch.py).                                             *)
(***************************************************************************)
Found(answer) == IF answer = None THEN << >> ELSE SelectSeq(answer, LAMBDA e : e.id # None)

RefEdges(source, p) ==
  LET found == Found(source.refs[p])
  IN [n \in DOMAIN found |-> <<p, found[n].id, found[n].influential>>]

Citing(source, p, limit) ==
  IF source.cites[p] = None THEN << >> ELSE Found(FirstOf(source.cites[p], limit))
CiteEdges(source, p, limit) ==
  LET found == Citing(source, p, limit)
  IN [n \in DOMAIN found |-> <<found[n].id, p, found[n].influential>>]

Over(ids, Edges(_)) == FlattenSeq([n \in DOMAIN ids |-> Edges(ids[n])])

TouchingEdges(source, ids, limit) ==
  Over(ids, LAMBDA p : RefEdges(source, p) \o CiteEdges(source, p, limit))
ReferenceEnrichment(source, ids) ==
  Over(FirstOf(ids, EnrichPapers), LAMBDA p : RefEdges(source, p))

LoadPapers(source, ids) ==
  LET known == {p \in ids : source.papers[p] # None} IN [p \in known |-> source.papers[p]]

MergeEdges(groups) == Distinct(FlattenSeq(groups))

CandidateIds(edges, excluded) ==
  (UNION {{edges[n][1], edges[n][2]} : n \in DOMAIN edges}) \ {excluded}

RankByCitations(ids, papers) ==
  LET count(p) == IF p \in DOMAIN papers THEN papers[p].citations ELSE 0
  IN SortedBy(SetToSeq(ids), LAMBDA p, q : count(p) > count(q))

(***************************************************************************)
(* Similarity (graph_algorithms.py).                                       *)
(***************************************************************************)
CitersOf(edges, p) == {edges[n][1] : n \in {m \in DOMAIN edges : edges[m][2] = p}}
RefsOf(edges, p) == {edges[n][2] : n \in {m \in DOMAIN edges : edges[m][1] = p}}

Below(v, w) == v[1] * w[2] < w[1] * v[2]
Larger(v, w) == IF Below(v, w) THEN w ELSE v
Jaccard(S, T) ==
  IF S \cup T = {} THEN <<0, 1>> ELSE <<Cardinality(S \cap T), Cardinality(S \cup T)>>

\* Mutant: the papers in common are compared with those of the first only.
SimilarityOneSided(edges, p, q) ==
  LET share(S, T) == IF S = {} THEN <<0, 1>> ELSE <<Cardinality(S \cap T), Cardinality(S)>>
  IN Larger(share(CitersOf(edges, p), CitersOf(edges, q)),
            share(RefsOf(edges, p), RefsOf(edges, q)))

Similarity(edges, p, q) ==
  Larger(Jaccard(CitersOf(edges, p), CitersOf(edges, q)),
         Jaccard(RefsOf(edges, p), RefsOf(edges, q)))

Positive(w) == w[1] > 0

SimilarityEdges(selected, edges) ==
  LET ids == SetToSeq(selected)
      pairs == SetToSeq({ij \in (DOMAIN ids) \X (DOMAIN ids) : ij[1] < ij[2]})
      weighted == [n \in DOMAIN pairs |->
                     LET p == ids[pairs[n][1]] q == ids[pairs[n][2]]
                     IN [ends |-> {p, q}, weight |-> Similarity(edges, p, q)]]
      heavy == SelectSeq(weighted, LAMBDA e : ~Below(e.weight, <<MinWeight, 100>>))
  IN FirstOf(SortedBy(heavy, LAMBDA e, f : Below(f.weight, e.weight)), SimilarityEdgesShown)

(***************************************************************************)
(* Selection and what is shown (graph_builder.py, graph_materializers.py). *)
(***************************************************************************)

\* Mutant: the first candidates are cut off before they are sorted.
SelectNodesUnsorted(center, candidates, edges, maxNodes) ==
  {center} \cup {p \in ToSet(FirstOf(SetToSeq(candidates), maxNodes - 1)) :
                   Positive(Similarity(edges, center, p))}

SelectNodes(center, candidates, edges, maxNodes) ==
  LET ranked == SortedBy(SetToSeq(candidates),
                         LAMBDA p, q : Below(Similarity(edges, center, q),
                                             Similarity(edges, center, p)))
  IN {center} \cup {p \in ToSet(FirstOf(ranked, maxNodes - 1)) :
                      Positive(Similarity(edges, center, p))}

Hydrate(source, selected, cached) ==
  LET known == DOMAIN cached \cap selected
      rest == LoadPapers(source, selected \ known)
  IN [p \in known \cup DOMAIN rest |-> IF p \in known THEN cached[p] ELSE rest[p]]

(* library: the s2_id of every entry; of several that have it, any one.      *)
LibraryMap(library, ids) ==
  [p \in {q \in ids : \E e \in DOMAIN library : library[e] = q} |->
     CHOOSE e \in DOMAIN library : library[e] = p]
Held(held, p) == IF p \in DOMAIN held THEN held[p] ELSE None

NodesOf(selected, papers, held) ==
  {[id |-> papers[p].id, entry |-> Held(held, p)] : p \in selected \cap DOMAIN papers}

\* Mutant: an edge is kept when one of its ends is.
CitationEdgesOpen(selected, edges) ==
  {[source |-> edges[n][1], target |-> edges[n][2], influential |-> edges[n][3]] :
     n \in {m \in DOMAIN edges : {edges[m][1], edges[m][2]} \cap selected # {}}}

(* Of two edges with the same ends the first is kept.                        *)
CitationEdges(selected, edges) ==
  {[source |-> edges[n][1], target |-> edges[n][2], influential |-> edges[n][3]] :
     n \in {m \in DOMAIN edges :
              /\ {edges[m][1], edges[m][2]} \subseteq selected
              /\ \A k \in 1..(m - 1) : SubSeq(edges[k], 1, 2) # SubSeq(edges[m], 1, 2)}}

(***************************************************************************)
(* Works in common (graph_aggregates.py).                                  *)
(***************************************************************************)

(* The other ends outside the graph, once for each edge.                     *)
AggregateIds(source, selected, prior) ==
  Over(SetToSeq(selected), LAMBDA p :
    LET ends == IF prior THEN Found(source.refs[p]) ELSE Citing(source, p, HopCitations)
        outside == SelectSeq(ends, LAMBDA e : e.id \notin selected)
    IN [n \in DOMAIN outside |-> outside[n].id])

Frequency(ids, p) == Cardinality({n \in DOMAIN ids : ids[n] = p})

(* frequency * log(citations + 1), compared by its exponential.              *)
Rank(e) == (e.citations + 1) ^ e.frequency

AggregateEntries(ranked, papers, ids, held) ==
  LET shown == SelectSeq(ranked, LAMBDA p : p \in DOMAIN papers)
      entries == [n \in DOMAIN shown |->
                    [id |-> papers[shown[n]].id, citations |-> papers[shown[n]].citations,
                     frequency |-> Frequency(ids, shown[n]), entry |-> Held(held, shown[n])]]
  IN FirstOf(SortedBy(entries, LAMBDA e, f : Rank(e) > Rank(f)), AggregateLimit)

Aggregates(source, library, selected, prior) ==
  LET ids == AggregateIds(source, selected, prior)
      common == SortedBy(Distinct(ids), LAMBDA p, q : Frequency(ids, p) > Frequency(ids, q))
      top == FirstOf(common, 3 * AggregateLimit)
  IN AggregateEntries(top, LoadPapers(source, ToSet(top)), ids, LibraryMap(library, ToSet(top)))

(***************************************************************************)
(* The graph.                                                              *)
(***************************************************************************)
NoGraph(center) ==
  [center |-> center, nodes |-> {}, edges |-> {}, similar |-> << >>,
   prior |-> << >>, derivative |-> << >>]

(* The edges that are gathered around a paper, and the first hop's papers.   *)
Gathered(source, center, depth) ==
  LET hop1 == TouchingEdges(source, <<center>>, HopCitations)
      papers == LoadPapers(source, CandidateIds(hop1, center) \cup {center})
      enrich == FirstOf(RankByCitations(CandidateIds(hop1, center), papers), EnrichFirst)
  IN [hop1 |-> hop1, papers |-> papers,
      edges |-> MergeEdges(
        <<hop1, ReferenceEnrichment(source, enrich),
          IF depth > 1 THEN TouchingEdges(source, FirstOf(enrich, ExpandFirst), ExpandCitations)
          ELSE << >>>>)]

Selected(source, center, depth, maxNodes) ==
  LET all == Gathered(source, center, depth).edges
  IN SelectNodes(center, CandidateIds(all, center), all, maxNodes)

BuildSubgraph(source, library, center, depth, maxNodes) ==
  LET found == Gathered(source, center, depth)
      all == found.edges
      selected == Selected(source, center, depth, maxNodes)
  IN IF CandidateIds(found.hop1, center) = {} THEN NoGraph(center)
     ELSE [center |-> center,
           nodes |-> NodesOf(selected, Hydrate(source, selected, found.papers),
                             LibraryMap(library, selected)),
           edges |-> CitationEdges(selected, all),
           similar |-> SimilarityEdges(selected, all),
           prior |-> Aggregates(source, library, selected, TRUE),
           derivative |-> Aggregates(source, library, selected, FALSE)]

GetSubgraph(source, library, center, depth, maxNodes) ==
  BuildSubgraph(source, library, center, depth,
                IF maxNodes > NodesCap THEN NodesCap ELSE maxNodes)

(* The paper of an entry: its own, or the one the local corpus knows under   *)
(* its DOI or its arXiv id.                                                 *)
ResolveCenter(entry, hasLocal, local) ==
  LET byDoi == IF entry.doi = None THEN None ELSE local[entry.doi]
      byArxiv == IF entry.arxiv = None THEN None ELSE local[entry.arxiv]
  IN IF entry.s2Id # None \/ ~hasLocal THEN entry.s2Id
     ELSE IF byDoi # None THEN byDoi ELSE byArxiv

(* GET /graph/{entry_id}; it also has the entry synced (S2Sync).             *)
GetGraph(source, library, e, entry, hasLocal, local, depth, maxNodes) ==
  LET center == ResolveCenter(entry, hasLocal, local)
  IN IF center = None THEN NoGraph(e)
     ELSE GetSubgraph(source, library, center, depth, maxNodes)
================================================================================
