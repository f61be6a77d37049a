------------------------------- MODULE Catalogue -------------------------------
(***************************************************************************)
(* The lists and details the endpoints answer from the tables              *)
(* (routers/entity_common.py, authors.py, venues.py, topics.py,            *)
(* subjects.py, ner.py, concepts.py, trends.py, entry_queries.py).         *)
(*                                                                         *)
(* A table is the sequence of its rows as they lie, which two queries may  *)
(* find differently; a library is a record of tables.  Texts that are      *)
(* sorted are numbers; NULL is None.  A page's limit is not negative.      *)
(***************************************************************************)
EXTENDS Lists, FiniteSets

CONSTANTS
  None,           \* NULL, and a parameter that is not given
  Missing,        \* the answer 404
  Raises,         \* what raises instead of an answer, the answer 500
  MaxPage,        \* rows a page has at most, 200
  MaxSignalPage   \* and in the lists of entities, bundles and edges, 500

(***************************************************************************)
(* Queries (entity_common.py).                                             *)
(***************************************************************************)
Less(a, b) == b # None /\ (a = None \/ a < b)

\* Mutant: descending order leaves NULL where the database puts it, first.
ApplySortPlain(rows, by, order, columns) ==
  LET column == IF by \in ToSet(columns) THEN by ELSE Head(columns)
      NullsLast(a, b) == a # None /\ (b = None \/ a < b)
  IN IF order = "desc"
     THEN SortedBy(rows, LAMBDA r, s : NullsLast(s[column], r[column]))
     ELSE SortedBy(rows, LAMBDA r, s : Less(r[column], s[column]))

(* apply_sort: NULL is last in descending order and first in ascending; a    *)
(* column that is not known is the first one.                               *)
ApplySort(rows, by, order, columns) ==
  LET column == IF by \in ToSet(columns) THEN by ELSE Head(columns)
  IN IF order = "desc" THEN SortedBy(rows, LAMBDA r, s : Less(s[column], r[column]))
     ELSE SortedBy(rows, LAMBDA r, s : Less(r[column], s[column]))

\* Mutant: the offset counts pages of the full size.
PaginateByPage(rows, limit, offset, max) ==
  Slice(rows, IF offset = 0 THEN 0 ELSE max, Min({limit, max}))

Paginate(rows, limit, offset, max) == Slice(rows, offset, Min({limit, max}))

Where(rows, Test(_)) == SelectSeq(rows, Test)
Same(asked, value) == asked = None \/ asked = value

(* fetch_scalar_or_404, fetch_row_or_404: the row with that key.             *)
FetchRow(rows, key, value) ==
  LET n == SelectInSeq(rows, LAMBDA r : r[key] = value)
  IN IF n = 0 THEN Missing ELSE rows[n]
FetchScalar(rows, key, value, column) ==
  LET row == FetchRow(rows, key, value) IN IF row = Missing THEN Missing ELSE row[column]

(***************************************************************************)
(* Authors, venues, topics and subjects with their entries.                *)
(***************************************************************************)
EntriesIn(lib, ids) == Where(lib.entries, LAMBDA e : e.id \in ids)
Linked(links, to) == {l.entry : l \in {k \in ToSet(links) : k.to = to}}

EntriesOfAuthor(lib, id) == EntriesIn(lib, Linked(lib.authorLinks, id))
EntriesOfTopic(lib, id) == EntriesIn(lib, Linked(lib.topicLinks, id))
EntriesOfVenue(lib, id) == Where(lib.entries, LAMBDA e : e.venue = id)
EntriesOfSubject(lib, id) == Where(lib.entries, LAMBDA e : e.subject = id)

\* A count that is listed comes from an outer join: NULL when nothing is linked.
WithCounts(rows, Count(_)) ==
  [n \in DOMAIN rows |->
     rows[n] @@ [entry_count |-> IF Count(rows[n].id) = 0 THEN None ELSE Count(rows[n].id)]]

\* Mutant: NULL is shown.
ShowCountRaw(row) == row

ShowCount(row) == [row EXCEPT !.entry_count = IF @ = None THEN 0 ELSE @]

ListCounted(rows, Count(_), by, order, limit, offset) ==
  LET sorted == ApplySort(WithCounts(rows, Count), by, order, <<"name", "entry_count">>)
      page == Paginate(sorted, limit, offset, MaxPage)
  IN [n \in DOMAIN page |-> ShowCount(page[n])]

Detail(rows, key, value, Count(_)) ==
  LET row == FetchRow(rows, key, value)
  IN IF row = Missing THEN Missing ELSE row @@ [entry_count |-> Count(row.id)]

EntryPage(rows, by, order, limit, offset) ==
  Paginate(ApplySort(rows, by, order, <<"title", "created_at", "year">>),
           limit, offset, MaxPage)

EntriesBehind(rows, key, value, Entries(_), by, order, limit, offset) ==
  LET id == FetchScalar(rows, key, value, "id")
  IN IF id = Missing THEN Missing ELSE EntryPage(Entries(id), by, order, limit, offset)

ListAuthors(lib, by, order, limit, offset) ==
  ListCounted(lib.authors, LAMBDA id : Cardinality(Linked(lib.authorLinks, id)),
              by, order, limit, offset)
GetAuthor(lib, id) ==
  Detail(lib.authors, "id", id, LAMBDA a : Cardinality(Linked(lib.authorLinks, a)))

(* author_entry_payload of each: get_author_entries does not load the venues *)
(* with the entries, and the session refuses to load one when it is read;   *)
(* where there is none, nothing is loaded.                                  *)
AuthorPayloads(page) ==
  IF page # Missing /\ \E n \in DOMAIN page : page[n].venue # None THEN Raises ELSE page

GetAuthorEntries(lib, id, by, order, limit, offset) ==
  AuthorPayloads(EntriesBehind(lib.authors, "id", id, LAMBDA a : EntriesOfAuthor(lib, a),
                               by, order, limit, offset))

ListVenues(lib, category, by, order, limit, offset) ==
  ListCounted(Where(lib.venues, LAMBDA v : Same(category, v.category)),
              LAMBDA id : Len(EntriesOfVenue(lib, id)), by, order, limit, offset)
GetVenue(lib, slug) ==
  Detail(lib.venues, "slug", slug, LAMBDA v : Len(EntriesOfVenue(lib, v)))
GetVenueEntries(lib, slug, by, order, limit, offset) ==
  EntriesBehind(lib.venues, "slug", slug, LAMBDA v : EntriesOfVenue(lib, v),
                by, order, limit, offset)

ListTopics(lib, by, order, limit, offset) ==
  ListCounted(lib.topics, LAMBDA id : Cardinality(Linked(lib.topicLinks, id)),
              by, order, limit, offset)
GetTopic(lib, slug) ==
  Detail(lib.topics, "slug", slug, LAMBDA t : Cardinality(Linked(lib.topicLinks, t)))
GetTopicEntries(lib, slug, by, order, limit, offset) ==
  EntriesBehind(lib.topics, "slug", slug, LAMBDA t : EntriesOfTopic(lib, t),
                by, order, limit, offset)

ListSubjects(lib, by, order, limit, offset) ==
  ListCounted(lib.subjects, LAMBDA id : Len(EntriesOfSubject(lib, id)), by, order, limit, offset)
GetSubject(lib, slug) ==
  Detail(lib.subjects, "slug", slug, LAMBDA s : Len(EntriesOfSubject(lib, s)))
GetSubjectEntries(lib, slug, by, order, limit, offset) ==
  EntriesBehind(lib.subjects, "slug", slug, LAMBDA s : EntriesOfSubject(lib, s),
                by, order, limit, offset)

(***************************************************************************)
(* Entries (entry_queries.py).                                             *)
(***************************************************************************)
EntryColumns == <<"title", "year", "created_at", "updated_at">>

(* Bounds no entry without a year lies within.                               *)
ApplyEntryFilters(rows, f) ==
  Where(rows, LAMBDA e :
    /\ Same(f.entry_type, e.entry_type)
    /\ f.year_from # None => e.year # None /\ e.year >= f.year_from
    /\ f.year_to # None => e.year # None /\ e.year <= f.year_to
    /\ f.has_pdf # None => f.has_pdf = (e.file_path # None)
    /\ Same(f.read, e.read))

ListEntries(lib, f, by, order, limit, offset) ==
  LET rows == ApplyEntryFilters(lib.entries, f)
  IN [rows |-> Paginate(ApplySort(rows, by, order, EntryColumns), limit, offset, MaxPage),
      total |-> Len(rows)]

GetEntry(lib, id) == FetchRow(lib.entries, "id", id)

(***************************************************************************)
(* Entities (routers/ner.py).                                              *)
(***************************************************************************)
ListEntities(lib, label, by, order, limit, offset) ==
  Paginate(ApplySort(Where(lib.entities, LAMBDA e : Same(label, e.label)), by, order,
                     <<"paper_hits", "name", "years_active", "label">>),
           limit, offset, MaxSignalPage)

\* Mutant: the papers are counted, not the entities.
ListEntityLabelsPapers(lib) ==
  LET of(l) == {n \in DOMAIN lib.entities : lib.entities[n].label = l}
      hits(l) == MapThenSumSet(LAMBDA n : lib.entities[n].paper_hits, of(l))
      labels == SetToSeq({lib.entities[n].label : n \in DOMAIN lib.entities})
  IN [n \in DOMAIN labels |->
        [label |-> labels[n], entities |-> hits(labels[n]), paper_hits |-> hits(labels[n])]]

ListEntityLabels(lib) ==
  LET of(l) == {n \in DOMAIN lib.entities : lib.entities[n].label = l}
      row(l) == [label |-> l, entities |-> Cardinality(of(l)),
                 paper_hits |-> MapThenSumSet(LAMBDA n : lib.entities[n].paper_hits, of(l))]
      labels == SetToSeq({lib.entities[n].label : n \in DOMAIN lib.entities})
  IN SortedBy([n \in DOMAIN labels |-> row(labels[n])], LAMBDA a, b :
       \/ a.paper_hits > b.paper_hits
       \/ a.paper_hits = b.paper_hits /\ a.label < b.label)

GetEntity(lib, canonical) == FetchRow(lib.entities, "canonical_id", canonical)

\* A fact has the entry, the entity (to) and how sure it is.
GetEntityEntries(lib, canonical, by, order, limit, offset) ==
  LET id == FetchScalar(lib.entities, "canonical_id", canonical, "id")
  IN IF id = Missing THEN Missing
     ELSE Paginate(ApplySort(EntriesIn(lib, Linked(lib.facts, id)), by, order,
                             <<"year", "title", "created_at">>), limit, offset, MaxPage)

GetEntryEntities(lib, entry) ==
  LET facts == Where(lib.facts, LAMBDA f : f.entry = entry)
      named == [n \in DOMAIN facts |->
                  [confidence |-> facts[n].confidence] @@ FetchRow(lib.entities, "id", facts[n].to)]
  IN SortedBy(named, LAMBDA a, b :
       \/ a.confidence > b.confidence
       \/ a.confidence = b.confidence /\ a.name < b.name)

(***************************************************************************)
(* Bundles (routers/concepts.py) and signals (routers/trends.py).          *)
(***************************************************************************)
ListBundles(bundles, limit, offset) ==
  Paginate(SortedBy(bundles, LAMBDA a, b : \/ a.size > b.size
                                           \/ a.size = b.size /\ a.index < b.index),
           limit, offset, MaxSignalPage)
GetBundle(bundles, index) == FetchRow(bundles, "index", index)

(* get_trends_stats; trends: rows with id, venue, label and year.            *)
TrendsStats(trends, emerging) ==
  LET values(column) == {trends[n][column] : n \in DOMAIN trends}
  IN [entities |-> Cardinality(values("id")), rows |-> Len(trends),
      emerging |-> Len(emerging),
      venues |-> SetToSortSeq(values("venue") \ {None}, <),
      labels |-> SetToSortSeq(values("label") \ {None}, <),
      years |-> IF trends = << >> THEN << >> ELSE <<Min(values("year")), Max(values("year"))>>]

GetEmergence(emerging, label, venue, limit, offset) ==
  Paginate(SortedBy(Where(emerging, LAMBDA r : Same(label, r.label) /\ Same(venue, r.venue)),
                    LAMBDA r, s : r.score > s.score),
           limit, offset, MaxPage)

GetFlow(flows, label, from, to, least, limit, offset) ==
  Paginate(SortedBy(Where(flows, LAMBDA r :
                      /\ Same(label, r.label) /\ Same(from, r.from) /\ Same(to, r.to)
                      /\ least > 0 => r.score >= least),
                    LAMBDA r, s : r.score > s.score),
           limit, offset, MaxPage)
================================================================================
