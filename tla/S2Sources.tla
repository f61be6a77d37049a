------------------------------- MODULE S2Sources -------------------------------
(***************************************************************************)
(* What the sources of Semantic Scholar data answer: the local corpus, a   *)
(* DuckDB file (services/s2_sources.py LocalCorpus, s2_corpus_*.py), the   *)
(* live API (LiveAPI), and the chain that asks them in turn                *)
(* (s2_source_registry.py); and how an entry finds its paper               *)
(* (s2_resolvers.py).                                                      *)
(*                                                                         *)
(* A corpus is a function from the names of its tables to their rows, in   *)
(* the order in which they lie; NoFile when there is none.  A corpus that  *)
(* another process has locked is one without tables: every query raises;   *)
(* one that fails in the middle of a call has "chunks", see Answering.     *)
(* What the API knows is a record of functions, empty ones when it cannot  *)
(* be reached.  Fields of a paper that are only copied are left out.       *)
(***************************************************************************)
EXTENDS Integers, Sequences, FiniteSets, SequencesExt, FiniteSetsExt, TLC

CONSTANTS
  None,      \* Python's None: "I don't have this data, try elsewhere"
  Raises,    \* the value of a call that raises
  NoFile,    \* a corpus that has not been built
  ApiPage,   \* entries of one page of edges that the API is asked for, 500
  ChunkSize  \* identifiers that one query of the corpus carries, 500

(***************************************************************************)
(* Queries.                                                                *)
(***************************************************************************)

(* BoundDuckDBQuery.execute: the rows of a table, or of the one to fall      *)
(* back on when there is no such table.                                     *)
Rows(db, table, fallback) ==
  IF table \in DOMAIN db THEN db[table]
  ELSE IF fallback \in DOMAIN db THEN db[fallback] ELSE << >>

\* Mutant: the limit takes the rows as they lie.
PrioritizedAsStored(rows, limit) ==
  IF limit = None THEN rows ELSE SubSeq(rows, 1, Min({limit, Len(rows)}))

(* DuckDBQuerySpec.render: a limit prefers influential rows.                 *)
Prioritized(rows, limit) ==
  LET Where(b) == SelectSeq(rows, LAMBDA r : r.influential = b)
      ranked == Where(TRUE) \o Where(FALSE)
  IN IF limit = None THEN rows ELSE SubSeq(ranked, 1, Min({limit, Len(ranked)}))

First(rows, Test(_)) ==
  LET n == SelectInSeq(rows, Test) IN IF n = 0 THEN None ELSE rows[n]

(***************************************************************************)
(* The local corpus.                                                       *)
(***************************************************************************)
ShaToCorpusId(db, sha) ==
  LET row == First(Rows(db, "paper_ids", "paper_ids"),
                   LAMBDA r : r.sha = sha /\ r.primary)
  IN IF row = None THEN None ELSE row.corpusid

CorpusIdToSha(db, cid) ==
  LET row == First(Rows(db, "paper_ids_by_corpus", "paper_ids"),
                   LAMBDA r : r.corpusid = cid /\ r.primary)
  IN IF row = None THEN None ELSE row.sha

\* The queries for names that the corpus answers before one fails.
Answering(db, cids) == IF "chunks" \in DOMAIN db THEN db["chunks"] ELSE Len(cids)

\* Mutant: the last, shorter chunk is not asked for.
BatchCorpusIdToShaWhole(db, cids, size) ==
  LET chunk(n) == ToSet(SubSeq(cids, (n - 1) * size + 1, n * size))
      rows == FlattenSeq([n \in 1..Len(cids) \div size |->
                SelectSeq(Rows(db, "paper_ids_by_corpus", "paper_ids"),
                          LAMBDA r : r.corpusid \in chunk(n) /\ r.primary)])
  IN FoldLeft(LAMBDA acc, r : (r.corpusid :> r.sha) @@ acc, [c \in {} |-> None], rows)

(* _batch_corpus_id_to_sha: one query per chunk of the identifiers, up to    *)
(* the first that fails; what the ones before it found is returned.         *)
BatchCorpusIdToSha(db, cids, size) ==
  LET chunk(n) == ToSet(SubSeq(cids, (n - 1) * size + 1, Min({n * size, Len(cids)})))
      rows == FlattenSeq([n \in 1..Min({(Len(cids) + size - 1) \div size, Answering(db, cids)}) |->
                SelectSeq(Rows(db, "paper_ids_by_corpus", "paper_ids"),
                          LAMBDA r : r.corpusid \in chunk(n) /\ r.primary)])
  IN FoldLeft(LAMBDA acc, r : (r.corpusid :> r.sha) @@ acc, [c \in {} |-> None], rows)

(* The first query of every call stands outside its try: without the table   *)
(* the call raises; a paper that is not known is nobody's.                  *)
Guarded(db, sha, answer) ==
  CASE db = NoFile -> None
    [] db # NoFile /\ "paper_ids" \notin DOMAIN db -> Raises
    [] OTHER -> IF ShaToCorpusId(db, sha) = None THEN None ELSE answer

PaperFromRow(row, sha) == [id |-> sha, title |-> row.title, citations |-> row.citations]

EnrichPaper(paper, abstract, authors) ==
  paper @@ [abstract |-> IF abstract = None THEN None ELSE abstract.text,
            authors |-> [i \in DOMAIN authors |-> authors[i].name]]

(* The authors of a paper come in the order of their positions.              *)
GetPaperByCorpusId(db, cid) ==
  LET row == First(Rows(db, "papers", "papers"), LAMBDA r : r.corpusid = cid)
      authors == SelectSeq(Rows(db, "paper_authors", "paper_authors"),
                           LAMBDA r : r.corpusid = cid)
  IN IF db = NoFile \/ row = None THEN None
     ELSE EnrichPaper(PaperFromRow(row, CorpusIdToSha(db, cid)),
                      First(Rows(db, "abstracts", "abstracts"),
                            LAMBDA r : r.corpusid = cid),
                      SortSeq(authors, LAMBDA a, b : a.position < b.position))

GetPaper(db, sha) == Guarded(db, sha, GetPaperByCorpusId(db, ShaToCorpusId(db, sha)))

ReferenceEdges(rows, sha, shaOf) ==
  LET known == SelectSeq(rows, LAMBDA r : r.cited \in DOMAIN shaOf)
  IN [i \in DOMAIN known |->
        [citing |-> sha, cited |-> shaOf[known[i].cited],
         influential |-> known[i].influential]]

CitationEdges(rows, sha, shaOf) ==
  LET known == SelectSeq(rows, LAMBDA r : r.citing \in DOMAIN shaOf)
  IN [i \in DOMAIN known |->
        [citing |-> shaOf[known[i].citing], cited |-> sha,
         influential |-> known[i].influential]]

(* Edges whose other end has no primary name are left out, after the limit.  *)
GetReferences(db, sha, limit) ==
  LET cid == ShaToCorpusId(db, sha)
      rows == Prioritized(SelectSeq(Rows(db, "citations", "citations"),
                                    LAMBDA r : r.citing = cid), limit)
      ends == [i \in DOMAIN rows |-> rows[i].cited]
  IN Guarded(db, sha, ReferenceEdges(rows, sha, BatchCorpusIdToSha(db, ends, ChunkSize)))

GetCitations(db, sha, limit) ==
  LET cid == ShaToCorpusId(db, sha)
      rows == Prioritized(SelectSeq(Rows(db, "citations_by_cited", "citations"),
                                    LAMBDA r : r.cited = cid), limit)
      ends == [i \in DOMAIN rows |-> rows[i].citing]
  IN Guarded(db, sha, CitationEdges(rows, sha, BatchCorpusIdToSha(db, ends, ChunkSize)))

(* get_reference_ids: the names of the cited papers, by a join.              *)
GetReferenceIds(db, sha) ==
  LET cid == ShaToCorpusId(db, sha)
      cited == {r.cited : r \in {s \in ToSet(Rows(db, "citations", "citations")) :
                                   s.citing = cid}}
  IN Guarded(db, sha, {r.sha : r \in {s \in ToSet(Rows(db, "paper_ids", "paper_ids")) :
                                        s.primary /\ s.corpusid \in cited}})

(* resolve_id: the whole call stands inside its try.                         *)
ResolveId(db, type, identifier) ==
  LET ids == Rows(db, "paper_ids", "paper_ids")
      HasName(c) == \E i \in DOMAIN ids : ids[i].corpusid = c /\ ids[i].primary
      row == First(Rows(db, "paper_external_ids", "paper_external_ids"),
                   LAMBDA r : /\ r.source = type /\ r.id = identifier
                              /\ HasName(r.corpusid))
  IN IF db = NoFile \/ row = None THEN None
     ELSE First(ids, LAMBDA r : r.corpusid = row.corpusid /\ r.primary).sha

(***************************************************************************)
(* The live API.                                                           *)
(***************************************************************************)
LivePaper(api, id) == IF id \in DOMAIN api.papers THEN api.papers[id] ELSE None

(* The page of edges; an empty one counts as not known.  Items without an    *)
(* identifier are left out before the limit.                                *)
LiveEnds(pages, id, limit) ==
  LET page == IF id \in DOMAIN pages THEN SubSeq(pages[id], 1, Min({ApiPage, Len(pages[id])}))
              ELSE << >>
      named == SelectSeq(page, LAMBDA item : item.paper # None)
  IN IF page = << >> THEN None
     ELSE IF limit = None THEN named ELSE SubSeq(named, 1, Min({limit, Len(named)}))

LiveReferences(api, id, limit) ==
  LET ends == LiveEnds(api.references, id, limit)
  IN IF ends = None THEN None
     ELSE [i \in DOMAIN ends |-> [citing |-> id, cited |-> ends[i].paper,
                                  influential |-> ends[i].influential]]

LiveCitations(api, id, limit) ==
  LET ends == LiveEnds(api.citations, id, limit)
  IN IF ends = None THEN None
     ELSE [i \in DOMAIN ends |-> [citing |-> ends[i].paper, cited |-> id,
                                  influential |-> ends[i].influential]]

LiveReferenceIds(api, id) ==
  LET edges == LiveReferences(api, id, None)
  IN IF edges = None THEN None ELSE {edges[i].cited : i \in DOMAIN edges}

\* Answers of the search, a title is the set of its words.
LiveSearch(api, title, limit) ==
  IF title \notin DOMAIN api.found THEN << >>
  ELSE SubSeq(api.found[title], 1, Min({limit, Len(api.found[title])}))

LiveResolve(api, type, identifier) ==
  CASE type = "title" ->
         IF LiveSearch(api, identifier, 1) = << >> THEN None
         ELSE LiveSearch(api, identifier, 1)[1].id
    [] OTHER -> IF <<type, identifier>> \in DOMAIN api.ids
                THEN api.ids[<<type, identifier>>] ELSE None

(***************************************************************************)
(* The chain.                                                              *)
(***************************************************************************)

(* S2SourceRegistry.register: a name that is known keeps its place.          *)
Register(registry, name, source) ==
  LET n == SelectInSeq(registry, LAMBDA s : s.name = name)
  IN IF n = 0 THEN Append(registry, [name |-> name, source |-> source])
     ELSE [registry EXCEPT ![n].source = source]

(* first_result: the first answer that is not None; one that raises ends it. *)
FirstResult(answers) == First(answers, LAMBDA a : a # None)

(* The runtime registers the corpus when its file exists, and then the API.  *)
ChainPaper(db, api, id) == FirstResult(<<GetPaper(db, id), LivePaper(api, id)>>)
ChainReferences(db, api, id, limit) ==
  FirstResult(<<GetReferences(db, id, limit), LiveReferences(api, id, limit)>>)
ChainCitations(db, api, id, limit) ==
  FirstResult(<<GetCitations(db, id, limit), LiveCitations(api, id, limit)>>)
ChainReferenceIds(db, api, id) ==
  FirstResult(<<GetReferenceIds(db, id), LiveReferenceIds(api, id)>>)
ChainResolveId(db, api, type, identifier) ==
  FirstResult(<<ResolveId(db, type, identifier), LiveResolve(api, type, identifier)>>)

(***************************************************************************)
(* Finding an entry's paper.                                               *)
(***************************************************************************)
\* A value that is absent, or the empty string, counts as None.
ByIdentifier(api, type, identifier) ==
  IF identifier = None THEN None ELSE LiveResolve(api, type, identifier)

(* title_similarity > 0.7: the Jaccard index of the words.                   *)
Similar(left, right) ==
  /\ left # {} /\ right # {}
  /\ 10 * Cardinality(left \cap right) > 7 * Cardinality(left \cup right)

\* Mutant: the first answer, whatever its title.
ByTitleFirst(api, title) ==
  LET results == LiveSearch(api, title, 3)
  IN IF results = << >> THEN None ELSE results[1].id

(* TitleResolver: the first similar answer that has an identifier, else the  *)
(* first answer.                                                            *)
ByTitle(api, title) ==
  LET results == LiveSearch(api, title, 3)
      similar == First(results, LAMBDA r : Similar(title, r.title) /\ r.id # None)
  IN CASE results = << >> -> None
       [] results # << >> /\ similar # None -> similar.id
       [] OTHER -> results[1].id

(* default_resolvers, in their order.                                        *)
FindPaper(api, entry) ==
  FirstResult(<<ByIdentifier(api, "DOI", entry.doi),
                ByIdentifier(api, "ArXiv", entry.arxiv),
                ByTitle(api, entry.title)>>)

(***************************************************************************)
(* What an entry shows of its paper (entry_s2.py).                         *)
(***************************************************************************)

\* Mutant: the entry is not read again after the sync.
GetEntryS2MetaStale(papers, id, status, after) ==
  LET meta(state, paper) == [sync_status |-> state, paper |-> paper]
      known(i) == i # None /\ papers[i] # None
  IN CASE known(id) -> meta("synced", papers[id])
       [] ~known(id) /\ status \in {"syncing", "no_match"} -> meta(status, None)
       [] OTHER -> meta("pending", None)

(* get_entry_s2_meta: at once when the paper is known, else what a sync      *)
(* says; after is the entry's id when the sync has come back.  A failed      *)
(* sync is pending too.                                                     *)
GetEntryS2Meta(papers, id, status, after) ==
  LET meta(state, paper) == [sync_status |-> state, paper |-> paper]
      known(i) == i # None /\ papers[i] # None
  IN CASE known(id) -> meta("synced", papers[id])
       [] ~known(id) /\ status \in {"syncing", "no_match"} -> meta(status, None)
       [] OTHER -> IF known(after) THEN meta("synced", papers[after])
                   ELSE meta("pending", None)

(* get_related_s2_papers: the first edges whose papers are known.            *)
GetRelatedS2Papers(papers, edges, side, limit) ==
  LET page == IF edges = None THEN << >> ELSE SubSeq(edges, 1, Min({limit, Len(edges)}))
      known == SelectSeq(page, LAMBDA e : e[side] # None /\ papers[e[side]] # None)
  IN [i \in DOMAIN known |-> [paper |-> papers[known[i][side]],
                              influential |-> known[i].influential]]
================================================================================
