----------------------------- MODULE SearchService -----------------------------
(***************************************************************************)
(* Search with its two backends (schemas/search.py, search_backends.py,    *)
(* search_service.py), the documents it finds (sync.py), and the report of *)
(* what is available (system_health.py).                                   *)
(*                                                                         *)
(* What Meilisearch makes of a query's words is its own; here a query asks *)
(* for everything.  A file path may be empty, a read flag NULL, wherever   *)
(* the table lets them.                                                    *)
(***************************************************************************)
EXTENDS Catalogue

SortFields == {"created_at", "year", "title"}
SortOrders == {"asc", "desc"}

(* SearchSort.from_raw: raw is None or <<field, order>>.                     *)
SortFromRaw(raw) ==
  IF raw = None THEN <<"created_at", "desc">>
  ELSE <<IF raw[1] \in SortFields THEN raw[1] ELSE "created_at",
         IF raw[2] \in SortOrders THEN raw[2] ELSE "desc">>

(* validate_year_bounds.                                                     *)
ValidFilters(f) ==
  f.year_from # None /\ f.year_to # None => f.year_from <= f.year_to

EntryToDocument(e) ==
  [id |-> e.id, entry_type |-> e.entry_type, year |-> e.year, title |-> e.title,
   has_pdf |-> e.file_path \notin {None, ""}, read |-> e.read = TRUE,
   created_at |-> IF e.created_at = None THEN 0 ELSE e.created_at]

\* Mutant: a filter that asks for FALSE is taken for one that is not given.
CompileMeiliTruthy(q) ==
  LET given(attribute, op, value) ==
        IF value = None THEN {} ELSE {<<attribute, op, value>>}
      set(attribute, value) == IF value # TRUE THEN {} ELSE {<<attribute, "=", TRUE>>}
  IN [filter |-> UNION {given("entry_type", "=", q.filters.entry_type),
                        given("year", ">=", q.filters.year_from),
                        given("year", "<=", q.filters.year_to),
                        set("has_pdf", q.filters.has_pdf), set("read", q.filters.read)},
      sort |-> SortFromRaw(q.sort), limit |-> q.limit, offset |-> q.offset]

(* compile_meilisearch_request: the conditions that must all hold.           *)
CompileMeili(q) ==
  LET given(attribute, op, value) ==
        IF value = None THEN {} ELSE {<<attribute, op, value>>}
  IN [filter |-> UNION {given("entry_type", "=", q.filters.entry_type),
                        given("year", ">=", q.filters.year_from),
                        given("year", "<=", q.filters.year_to),
                        given("has_pdf", "=", q.filters.has_pdf),
                        given("read", "=", q.filters.read)},
      sort |-> SortFromRaw(q.sort), limit |-> q.limit, offset |-> q.offset]

\* Meilisearch: a document without a number satisfies no comparison with one.
Satisfies(doc, condition) ==
  LET value == doc[condition[1]]
  IN CASE condition[2] = "=" -> value = condition[3]
       [] condition[2] = ">=" -> value # None /\ value >= condition[3]
       [] OTHER -> value # None /\ value <= condition[3]

MeiliSearch(docs, q) ==
  LET request == CompileMeili(q)
      found == Where(docs, LAMBDA d : \A c \in request.filter : Satisfies(d, c))
      sorted == ApplySort(found, request.sort[1], request.sort[2], <<request.sort[1]>>)
  IN [status |-> "ok", source |-> "meilisearch", warnings |-> << >>,
      hits |-> LET page == Slice(sorted, request.offset, request.limit)
               IN [n \in DOMAIN page |-> page[n].id],
      total |-> Len(found)]

\* Mutant: an entry without a file has a file.
CompileDatabaseSwapped(q) ==
  LET given(column, op, value) ==
        IF value = None THEN {} ELSE {<<column, op, value>>}
  IN [columns |-> {"id"}, distinct |-> TRUE, order |-> SortFromRaw(q.sort),
      where |-> UNION {given("entry_type", "=", q.filters.entry_type),
                       given("year", ">=", q.filters.year_from),
                       given("year", "<=", q.filters.year_to),
                       given("file_path", "is null", q.filters.has_pdf),
                       given("read", "=", q.filters.read)}]

(* The statement that compile_database_query makes of the backend's select:  *)
(* the ids of entries, each once though it is joined with all its authors.  *)
CompileDatabase(q) ==
  LET given(column, op, value) ==
        IF value = None THEN {} ELSE {<<column, op, value>>}
      pdf == IF q.filters.has_pdf = TRUE THEN "is not null" ELSE "is null"
  IN [columns |-> {"id"}, distinct |-> TRUE, order |-> SortFromRaw(q.sort),
      where |-> UNION {given("entry_type", "=", q.filters.entry_type),
                       given("year", ">=", q.filters.year_from),
                       given("year", "<=", q.filters.year_to),
                       given("file_path", pdf, q.filters.has_pdf),
                       given("read", "=", q.filters.read)}]

\* PostgreSQL: what a SELECT DISTINCT is ordered by must be among what it selects.
Refused(statement) == statement.distinct /\ statement.order[1] \notin statement.columns

\* PostgreSQL: a comparison with NULL is not true.
Holds(row, condition) ==
  CASE condition[2] = "is null" -> row[condition[1]] = None
    [] condition[2] = "is not null" -> row[condition[1]] # None
    [] OTHER -> Satisfies(row, condition)

(* DatabaseSearchBackend: the statement is counted, then run for a page; it  *)
(* raises when it is refused.                                               *)
DatabaseSearch(rows, q) ==
  LET statement == CompileDatabase(q)
      found == Where(rows, LAMBDA r : \A c \in statement.where : Holds(r, c))
      sorted == ApplySort(found, statement.order[1], statement.order[2], <<statement.order[1]>>)
      page == Paginate(sorted, q.limit, q.offset, 100)
  IN IF Refused(statement) THEN Raises
     ELSE [status |-> "partial", source |-> "database", warnings |-> << >>,
           hits |-> [n \in DOMAIN page |-> page[n].id], total |-> Len(found)]

Unavailable(warnings) ==
  [status |-> "unavailable", source |-> "none", warnings |-> warnings,
   hits |-> << >>, total |-> 0]

\* Mutant: when the database fails as well, nothing is found.
SearchEntriesSilently(meili, database) ==
  IF meili # Raises THEN meili
  ELSE IF database # Raises
  THEN [database EXCEPT !.warnings = <<"meilisearch_unavailable">>]
  ELSE [Unavailable(<<"meilisearch_unavailable">>) EXCEPT !.status = "partial"]

(* search_entries: the index, else the database with a warning, else         *)
(* nothing with two.                                                        *)
SearchEntries(meili, database) ==
  IF meili # Raises THEN meili
  ELSE IF database # Raises
  THEN [database EXCEPT !.warnings = <<"meilisearch_unavailable">>]
  ELSE Unavailable(<<"meilisearch_unavailable", "search_unavailable">>)

(***************************************************************************)
(* Health: services is a function from the names of those that are probed  *)
(* to whether they answer.                                                 *)
(***************************************************************************)
Available(services, name) == name \in DOMAIN services /\ services[name]

\* Mutant: the public status is good as long as one of the probes is.
PublicStatusAny(services) ==
  IF \E s \in DOMAIN services : services[s] THEN "ok" ELSE "unhealthy"

PublicStatus(services) ==
  CASE DOMAIN services # {} /\ \A s \in DOMAIN services : services[s] -> "ok"
    [] (\E s \in DOMAIN services : services[s]) /\ (\E s \in DOMAIN services : ~services[s])
         -> "degraded"
    [] OTHER -> "unhealthy"

AdminStatus(services) ==
  CASE Available(services, "database") /\ Available(services, "search") -> "healthy"
    [] Available(services, "database") /\ ~Available(services, "search") -> "degraded"
    [] OTHER -> "unhealthy"
================================================================================
