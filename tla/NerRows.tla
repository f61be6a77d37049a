-------------------------------- MODULE NerRows --------------------------------
(***************************************************************************)
(* The rows of a NER release: how the files of a signals-product become    *)
(* rows (services/ner_ingest.py) and how the concept and trend endpoints   *)
(* read them (routers/concepts.py, routers/trends.py, routers/ner.py).     *)
(*                                                                         *)
(* A missing or blank string is "", a node key is the sequence of its      *)
(* parts between bars, a path the sequence of its names ("" first when it  *)
(* is absolute).  Scores that are only copied are left out.                *)
(***************************************************************************)
EXTENDS Integers, Sequences, FiniteSets, SequencesExt, FiniteSetsExt, Functions

CONSTANTS
  Invalid,          \* what a call that raises returns
  Nothing,          \* Python's None
  PgMaxBindParams,  \* values one statement may carry, 32767
  Reserve,          \* of which so many stay free, 16
  BatchSize         \* rows of a file that are written together, 5000

ASSUME NerRowsAssumption ==
  /\ BatchSize \in Nat \ {0}
  /\ PgMaxBindParams \in Nat /\ Reserve \in 0..PgMaxBindParams

\* _as_str and _as_int with a default: "" is a blank string, Nothing no number.
AsStr(s, default) == IF s = "" THEN default ELSE s
AsInt(n, default) == IF n = Nothing THEN default ELSE n

\* _iter_jsonl: blank lines and lines that are no object are skipped, text that is
\* no JSON ends the ingest.
JsonRows(lines) ==
  IF Invalid \in ToSet(lines) THEN Invalid
  ELSE SelectSeq(lines, LAMBDA l : l # Nothing)

(***************************************************************************)
(* Statements.                                                             *)
(***************************************************************************)
MaxRowsPerInsert(params) == Max({1, (PgMaxBindParams - Reserve) \div Max({1, params})})

\* Mutant: the columns are not counted.
ChunksOfRows(values, params) ==
  LET size == PgMaxBindParams - Reserve
      number == (Len(values) + size - 1) \div size
  IN [c \in 1..number |->
        SubSeq(values, (c - 1) * size + 1, Min({c * size, Len(values)}))]

\* The statements that write the values of a batch, each a slice of them.
Chunks(values, params) ==
  LET size == MaxRowsPerInsert(params)
      number == (Len(values) + size - 1) \div size
  IN [c \in 1..number |->
        SubSeq(values, (c - 1) * size + 1, Min({c * size, Len(values)}))]

\* The batches of a file: full ones, and what is left.
Batches(rows) ==
  LET number == (Len(rows) + BatchSize - 1) \div BatchSize
  IN [b \in 1..number |->
        SubSeq(rows, (b - 1) * BatchSize + 1, Min({b * BatchSize, Len(rows)}))]

(***************************************************************************)
(* Node keys.                                                              *)
(***************************************************************************)
\* Mutant: the label is left out.
BuildNodeKeyBare(label, id) == <<id>>

BuildNodeKey(label, id) == IF label # "" /\ id # "" THEN <<label, id>> ELSE <<id>>

\* What stands behind the first bar, and before it; Nothing without a bar.
CanonicalIdFromNode(node) ==
  IF Len(node) < 2 \/ Tail(node) = <<"">> THEN Nothing ELSE Tail(node)
LabelFromNode(node) == IF Len(node) < 2 \/ Head(node) = "" THEN Nothing ELSE Head(node)

BlankNode == <<"">>
OrNode(node, label, id) == IF node = BlankNode THEN BuildNodeKey(label, id) ELSE node

(***************************************************************************)
(* The entity atlas.                                                       *)
(***************************************************************************)
MergeYear(old, new, better(_, _)) ==
  CASE old = Nothing -> new
    [] new = Nothing -> old
    [] OTHER -> IF better(new, old) THEN new ELSE old

\* _merge_venues: the venues of both, each once, the first one's first.
MergeVenues(old, new) ==
  FoldLeft(LAMBDA acc, v : IF v = "" \/ v \in ToSet(acc) THEN acc ELSE Append(acc, v),
           << >>, old \o new)

\* Two rows of one entity in one batch.
MergeEntity(old, new) ==
  [id |-> old.id,
   label |-> AsStr(new.label, old.label),
   first |-> MergeYear(old.first, new.first, <),
   last |-> MergeYear(old.last, new.last, >),
   hits |-> Max({old.hits, new.hits}),
   venues |-> MergeVenues(old.venues, new.venues)]

\* _upsert_entity_batch: the merged rows of the batch replace what is stored.
UpsertEntityBatch(stored, rows) ==
  LET merge(acc, row) ==
        [id \in DOMAIN acc \cup {row.id} |->
           CASE id # row.id -> acc[id]
             [] id = row.id /\ id \in DOMAIN acc -> MergeEntity(acc[id], row)
             [] OTHER -> row]
      merged == FoldLeft(merge, [id \in {} |-> Nothing], rows)
  IN [id \in DOMAIN stored \cup DOMAIN merged |->
        IF id \in DOMAIN merged THEN merged[id] ELSE stored[id]]

\* _ingest_entity_atlas: rows without an identifier are skipped; a year 0 is none.
IngestEntityAtlas(rows) ==
  LET year(y) == IF AsInt(y, 0) = 0 THEN Nothing ELSE y
      kept == SelectSeq(rows, LAMBDA r : r.id # "")
      clean == [i \in DOMAIN kept |->
                  [kept[i] EXCEPT !.label = AsStr(@, "unknown"), !.hits = AsInt(@, 0),
                                  !.first = year(@), !.last = year(@)]]
  IN FoldLeft(UpsertEntityBatch, [id \in {} |-> Nothing], Batches(clean))

(***************************************************************************)
(* Facts: which paper mentions which entity.                               *)
(***************************************************************************)

\* _normalize_source_file: behind /bibliography/, else from the name of a kind on.
SourceKinds == {"conferences", "journals", "workshops", "books", "misc"}
NormalizeSource(path) ==
  LET from(i) == SubSeq(path, i, Len(path))
      marks == {i \in 2..Len(path) - 1 : path[i] = "bibliography"}
      kinds == {i \in 1..Len(path) - 1 : path[i] \in SourceKinds}
  IN CASE path \in {<< >>, <<"">>} -> Nothing
       [] path \notin {<< >>, <<"">>} /\ marks # {} -> from(Min(marks) + 1)
       [] path \notin {<< >>, <<"">>} /\ marks = {} /\ kinds # {} -> from(Min(kinds))
       [] OTHER -> IF Head(path) = "" THEN Tail(path) ELSE path

(* _resolve_dblp_entry_id: a DBLP key carries a surname and a year; it names *)
(* an entry of the fact's file and year whose own key begins with both, if  *)
(* there is only one.  A surname is Nothing when the key shows none.        *)
ResolveDblp(key, source, year, entries) ==
  LET target == IF AsInt(year, 0) # 0 THEN year ELSE key.year
      matches == {e \in entries :
                    /\ NormalizeSource(e.source) = NormalizeSource(source)
                    /\ e.year = target
                    /\ e.key.surname = key.surname /\ e.key.year = target}
  IN IF ~key.dblp \/ key.surname = Nothing \/ NormalizeSource(source) = Nothing
        \/ target <= 0 \/ Cardinality(matches) # 1
     THEN Nothing ELSE CHOOSE e \in matches : TRUE

\* _iter_fact_rows: the older shape, one row with a sequence of entities, is spread.
FactRows(row) ==
  IF "entities" \notin DOMAIN row THEN <<row>>
  ELSE [i \in DOMAIN row.entities |->
          [key |-> row.key, source |-> row.source, year |-> row.year,
           entity |-> row.entities[i].entity,
           confidence |-> row.entities[i].confidence,
           mentions |-> AsInt(row.entities[i].mentions, 1)]]

\* The entry a fact is about: by its key, or by what a DBLP key tells.
ResolveEntry(fact, entries) ==
  LET exact == {e \in entries : e.key = fact.key}
  IN IF exact # {} THEN CHOOSE e \in exact : TRUE
     ELSE ResolveDblp(fact.key, fact.source, fact.year, entries)

\* Mutant: the stored count is replaced.
UpsertFactsReplacing(stored, facts) ==
  LET add(acc, f) ==
        LET k == <<f.entry, f.entity>> IN
        [p \in DOMAIN acc \cup {k} |->
           CASE p # k -> acc[p]
             [] p = k /\ k \in DOMAIN acc -> [mentions |-> acc[k].mentions + f.mentions,
                                confidence |-> Max({acc[k].confidence, f.confidence})]
             [] OTHER -> [mentions |-> f.mentions, confidence |-> f.confidence]]
      merged == FoldLeft(add, [p \in {} |-> Nothing], facts)
  IN [p \in DOMAIN stored \cup DOMAIN merged |->
        IF p \in DOMAIN merged THEN merged[p] ELSE stored[p]]

(* _upsert_facts_batch: the facts of a batch are collapsed by paper and      *)
(* entity, then added to what is stored.                                    *)
UpsertFacts(stored, facts) ==
  LET join(old, new) == [mentions |-> old.mentions + new.mentions,
                         confidence |-> Max({old.confidence, new.confidence})]
      add(acc, f) ==
        LET k == <<f.entry, f.entity>>
            v == [mentions |-> f.mentions, confidence |-> f.confidence]
        IN [p \in DOMAIN acc \cup {k} |->
              IF p # k THEN acc[p] ELSE IF k \in DOMAIN acc THEN join(acc[k], v) ELSE v]
      merged == FoldLeft(add, [p \in {} |-> Nothing], facts)
  IN [p \in DOMAIN stored \cup DOMAIN merged |->
        CASE p \notin DOMAIN merged -> stored[p]
          [] p \notin DOMAIN stored -> merged[p]
          [] OTHER -> join(stored[p], merged[p])]

(* _ingest_paper_entity_facts: facts of an unknown paper or entity are       *)
(* counted and left out.                                                    *)
IngestFacts(rows, entries, atlas) ==
  LET facts == FlattenSeq([i \in DOMAIN rows |-> FactRows(rows[i])])
      Known(f) == f.entity \in DOMAIN atlas /\ ResolveEntry(f, entries) # Nothing
      kept == SelectSeq(facts, Known)
      clean == [i \in DOMAIN kept |->
                  [entry |-> ResolveEntry(kept[i], entries), entity |-> kept[i].entity,
                   confidence |-> AsInt(kept[i].confidence, 0),
                   mentions |-> Max({1, AsInt(kept[i].mentions, 1)})]]
  IN [stored |-> FoldLeft(UpsertFacts, [p \in {} |-> Nothing], Batches(clean)),
      count |-> Cardinality({<<clean[i].entry, clean[i].entity>> : i \in DOMAIN clean}),
      unresolved |-> Len(facts) - Len(kept)]

(***************************************************************************)
(* Signals, bundles and edges.                                             *)
(***************************************************************************)
NormalizeDirection(d) ==
  CASE d \in {"up", "rising", "rise"} -> "rising"
    [] d \in {"down", "falling", "fall"} -> "falling"
    [] OTHER -> "stable"

\* The three tables of signals keep the rows that name an entity, each under a node
\* key of its own or one built for it.
WithNodeKey(r) == LET label == AsStr(r.label, "unknown")
                  IN [r EXCEPT !.label = label, !.node = OrNode(@, label, r.id)]
Named(rows) == SelectSeq(rows, LAMBDA r : r.id # "")

IngestTrends(rows) ==
  LET named == Named(rows)
  IN [i \in DOMAIN named |-> [WithNodeKey(named[i]) EXCEPT
        !.direction = NormalizeDirection(@), !.year = AsInt(@, 0)]]
IngestEmergence(rows) ==
  LET named == Named(rows)
  IN [i \in DOMAIN named |-> [WithNodeKey(named[i]) EXCEPT !.year = AsInt(@, 0)]]
IngestFlow(rows) ==
  LET named == Named(rows)
  IN [i \in DOMAIN named |-> [WithNodeKey(named[i]) EXCEPT
        !.source_year = AsInt(@, 0), !.target_year = AsInt(@, 0)]]

\* _normalize_top_entities: identifier, label and node key complete one another.
TopEntity(t) ==
  LET id == IF t.id # "" THEN <<t.id>>
            ELSE IF CanonicalIdFromNode(t.node) = Nothing THEN BlankNode
            ELSE CanonicalIdFromNode(t.node)
      label == IF t.label # "" THEN t.label
               ELSE IF LabelFromNode(t.node) = Nothing THEN "unknown"
               ELSE LabelFromNode(t.node)
      built == IF id = BlankNode THEN BlankNode ELSE <<label>> \o id
  IN [id |-> id, label |-> label, node |-> IF t.node = BlankNode THEN built ELSE t.node]

\* Mutant: the number starts again with every batch.
IngestBundlesRestarting(rows) ==
  [i \in DOMAIN rows |->
     [rows[i] EXCEPT !.index = AsInt(@, ((i - 1) % BatchSize) + 1),
                     !.lifecycle = AsStr(@, "stable")]]

\* _ingest_bundles: a bundle without a number has its place in the file.
IngestBundles(rows) ==
  LET row(batches, b, i) == (b - 1) * BatchSize + i
  IN FlattenSeq([b \in DOMAIN Batches(rows) |->
       LET batch == Batches(rows)[b] IN
       [i \in DOMAIN batch |->
          [batch[i] EXCEPT !.index = AsInt(@, row(Batches(rows), b, i)),
                           !.lifecycle = AsStr(@, "stable")]]])

\* _ingest_cooccurrence_edges: an edge needs two nodes; a label comes from the node.
IngestEdges(rows) ==
  LET node(r, side) == OrNode(r[side].node, r[side].label, r[side].id)
      end(r, side) ==
        [node |-> node(r, side),
         label |-> IF r[side].label # "" THEN r[side].label
                   ELSE IF LabelFromNode(node(r, side)) = Nothing THEN "unknown"
                   ELSE LabelFromNode(node(r, side))]
      kept == SelectSeq(rows, LAMBDA r :
                node(r, "left") # BlankNode /\ node(r, "right") # BlankNode)
  IN [i \in DOMAIN kept |->
        [left |-> end(kept[i], "left"), right |-> end(kept[i], "right"),
         papers |-> AsInt(kept[i].papers, 0), year |-> AsInt(kept[i].year, 0)]]

(***************************************************************************)
(* What the endpoints answer.                                              *)
(***************************************************************************)

\* _matches_node_suffix: the identifier is the last part of the node.
MatchesNode(node, id) == Last(node) = id

OfYear(row, year) == year \in {Nothing, 0, row.year}

\* Mutant: only the edges that have the entity on the left are asked for.
NeighborTotalsLeft(edges, id, year) ==
  LET papers(n) == FoldLeft(LAMBDA acc, e :
        acc + (IF MatchesNode(e.left.node, id) /\ e.right.node = n /\ OfYear(e, year)
               THEN e.papers ELSE 0), 0, edges)
      nodes == {e.right.node : e \in {f \in ToSet(edges) :
                  MatchesNode(f.left.node, id) /\ OfYear(f, year)}}
  IN [n \in nodes |-> papers(n)]

(* get_entity_neighbors: the papers of both directions are added per node.   *)
NeighborTotals(edges, id, year) ==
  LET Sums(near, far) ==
        LET mine == SelectSeq(edges, LAMBDA e :
                      MatchesNode(e[near].node, id) /\ OfYear(e, year))
        IN [n \in {e[far].node : e \in ToSet(mine)} |->
              FoldLeft(LAMBDA acc, e : acc + (IF e[far].node = n THEN e.papers ELSE 0),
                       0, mine)]
      right == Sums("left", "right")
      left == Sums("right", "left")
      In(f, n) == IF n \in DOMAIN f THEN f[n] ELSE 0
  IN [n \in DOMAIN right \cup DOMAIN left |-> In(right, n) + In(left, n)]

\* The ranked list: most papers first, the first limit of them.
NeighborsShown(totals, limit) ==
  LET ranked == SetToSortSeq(DOMAIN totals, LAMBDA m, n : totals[m] > totals[n])
  IN SubSeq(ranked, 1, Min({limit, Len(ranked)}))

\* get_cooccurrence_edges: an entity at either end, a year, a least weight.
EdgesShown(edges, id, year, least) ==
  SelectSeq(edges, LAMBDA e :
    /\ id = Nothing \/ MatchesNode(e.left.node, id) \/ MatchesNode(e.right.node, id)
    /\ OfYear(e, year)
    /\ least > 1 => e.papers >= least)

\* Mutant: the threshold of decline is above one.
GrowthIndicatorSwapped(yearly, lifecycle) ==
  LET years == SetToSortSeq(DOMAIN yearly, <)
      last == yearly[years[Len(years)]]
      prev == yearly[years[Len(years) - 1]]
  IN CASE lifecycle \in {"growing", "declining"} -> lifecycle
       [] lifecycle \notin {"growing", "declining"} /\ Len(years) < 2 -> "stable"
       [] OTHER -> IF prev = 0 THEN IF last > 0 THEN "growing" ELSE "stable"
                   ELSE IF 10 * last < 11 * prev THEN "growing"
                   ELSE IF 10 * last > 9 * prev THEN "declining" ELSE "stable"

\* _growth_indicator: the lifecycle, or the last two years on record compared.
GrowthIndicator(yearly, lifecycle) ==
  LET years == SetToSortSeq(DOMAIN yearly, <)
      last == yearly[years[Len(years)]]
      prev == yearly[years[Len(years) - 1]]
  IN CASE lifecycle \in {"growing", "declining"} -> lifecycle
       [] lifecycle \notin {"growing", "declining"} /\ Len(years) < 2 -> "stable"
       [] OTHER -> IF prev = 0 THEN IF last > 0 THEN "growing" ELSE "stable"
                   ELSE IF 10 * last > 11 * prev THEN "growing"
                   ELSE IF 10 * last < 9 * prev THEN "declining" ELSE "stable"

\* Mutant: the year shown is the first on record.
MoversFirst(trends, year, direction) ==
  LET asked == IF year = Nothing THEN Min({t.year : t \in ToSet(trends)}) ELSE year
  IN IF trends = << >> THEN << >>
     ELSE SelectSeq(trends, LAMBDA t :
            t.year = asked /\ direction \in {"", t.direction})

\* get_movers: the trends of a year, the last one on record when none is asked for.
Movers(trends, year, direction) ==
  LET asked == IF year = Nothing THEN Max({t.year : t \in ToSet(trends)}) ELSE year
  IN IF trends = << >> THEN << >>
     ELSE SelectSeq(trends, LAMBDA t :
            t.year = asked /\ direction \in {"", t.direction})

\* get_sparkline: the points of one entity by year, or nothing to be found.
Sparkline(trends, id) ==
  LET mine == SelectSeq(trends, LAMBDA t : t.id = id)
  IN IF mine = << >> THEN Invalid ELSE SortSeq(mine, LAMBDA a, b : a.year < b.year)
================================================================================
