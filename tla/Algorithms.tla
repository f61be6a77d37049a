------------------------------- MODULE Algorithms ------------------------------
(***************************************************************************)
(* The program's pure computations: each is asked one question and its     *)
(* answer is compared with what it promises.  A behaviour is one question  *)
(* and its answer; the questions of each kind are constants.               *)
(***************************************************************************)
EXTENDS NerRows, TLC

CONSTANTS
  Pending,                              \* no answer yet
  Failed,                               \* an answer 500, of Catalogue and SearchService
  NoFile, ApiPage, ChunkSize,           \* of S2Sources
  BadType,                              \* of BibliographyContract
  Plain(_), Normalized(_),              \* of BibtexEntry
  HopCitations, ExpandCitations, EnrichFirst, EnrichPapers, ExpandFirst,
  MinWeight, SimilarityEdgesShown, AggregateLimit, NodesCap,   \* of CitationGraph
  MaxPage, MaxSignalPage,               \* of Catalogue
  GlobTasks, BraceTasks, SourceTasks, EntryTasks, VenueTasks, SubjectTasks,
  ChunkTasks, FactTasks, BundleTasks, EdgeTasks, SignalTasks, GrowthTasks,
  CorpusTasks, PaperTasks, MetaTasks, GraphTasks, ListTasks, SearchTasks, HealthTasks

VARIABLES task, answer
vars == <<task, answer>>

Contract == INSTANCE BibliographyContract WITH Error <- Invalid
Bib == INSTANCE BibtexEntry WITH None <- Nothing
Src == INSTANCE S2Sources WITH None <- Nothing, Raises <- Invalid
Graph == INSTANCE CitationGraph WITH None <- Nothing
Search == INSTANCE SearchService WITH None <- Nothing, Missing <- Invalid, Raises <- Failed

Init ==
  /\ answer = Pending
  /\ \/ task \in GlobTasks \/ task \in BraceTasks \/ task \in SourceTasks
     \/ task \in EntryTasks \/ task \in VenueTasks \/ task \in SubjectTasks
     \/ task \in ChunkTasks \/ task \in FactTasks \/ task \in BundleTasks
     \/ task \in EdgeTasks \/ task \in SignalTasks \/ task \in GrowthTasks
     \/ task \in CorpusTasks \/ task \in PaperTasks \/ task \in MetaTasks
     \/ task \in GraphTasks \/ task \in ListTasks \/ task \in SearchTasks
     \/ task \in HealthTasks

Asked(kind) == task.kind = kind /\ answer = Pending /\ task' = task
Answered(kind) == task.kind = kind /\ answer # Pending

(***************************************************************************)
(* Files of the bibliography.                                              *)
(***************************************************************************)
Glob == Asked("glob") /\ answer' = Contract!MatchParts(task.path, task.pattern)

(* A pattern matches the paths its tokens cover and no others: ** none, one  *)
(* or many names, * exactly one (bibliography_contract.py:513).             *)
GlobsMatch == Answered("glob") => (answer <=> Contract!GlobLanguage(task.path, task.pattern))

Brace == Asked("brace") /\ answer' = Contract!FindMatchingBrace(task.text, 1)

(* The scanner stops at the brace that closes the first one, whatever is     *)
(* quoted or escaped before it (bibliography_contract.py:478).              *)
BracesMatch == Answered("brace") => answer = Contract!ClosingBrace(task.text, 1)

Sources ==
  /\ Asked("sources")
  /\ LET rules == Contract!LoadManifest(task.manifest, task.slugs)
     IN answer' = IF rules = Invalid THEN Invalid
                  ELSE Contract!Discover(task.files, rules, task.slugs)

FileOf(source) == CHOOSE f \in ToSet(task.files) : f.path = source.path

(* What is ingested carries what its role may carry, also when a block in    *)
(* the file has changed it: a canonical file no topics, a curated one no     *)
(* subject and some topic (bibliography_contract.py:342, :414).             *)
ContractKept ==
  Answered("sources") /\ answer # Invalid =>
    \A s \in ToSet(answer) :
      /\ s.role \in {"canonical", "curated"}
      /\ (s.role = "canonical") = (s.topics = << >>)
      /\ s.role = "curated" => s.subject = "no subject"
      /\ ToSet(s.topics) \subseteq task.slugs

(* Topics that a file replaces do not come back from its rule.               *)
TopicsReplaced ==
  Answered("sources") /\ answer # Invalid =>
    \A s \in ToSet(answer) :
      LET inline == FileOf(s).inline
      IN "replace_topics" \in DOMAIN inline /\ Contract!InlineBlocks(FileOf(s).text) # << >> =>
           ToSet(s.topics) \subseteq
             UNION {ToSet(inline[k]) : k \in DOMAIN inline \cap {"topics", "topics_append"}}

(* Canonical files come before curated ones, which only add topics to what   *)
(* is there, and each kind by path (bibliography_contract.py:106).          *)
CanonicalFirst ==
  Answered("sources") /\ answer # Invalid =>
    LET place(s) == CHOOSE n \in DOMAIN task.files : task.files[n].path = s.path
    IN \A i, j \in DOMAIN answer : i < j =>
         \/ answer[i].role = "canonical" /\ answer[j].role = "curated"
         \/ answer[i].role = answer[j].role /\ place(answer[i]) < place(answer[j])

(***************************************************************************)
(* Entries.                                                                *)
(***************************************************************************)
Entry ==
  /\ Asked("entry")
  /\ LET parsed == Bib!ParseEntry(task.raw)
     IN answer' = [entry |-> parsed,
                   again |-> IF parsed = Nothing THEN Nothing
                             ELSE Bib!ParseEntry(Bib!ReadLines(parsed, Bib!RenderBibtex(parsed)))]

(* An entry that is exported and read again is the same entry, with the same *)
(* people in the same order (entry_exports.py:12, parser.py:333).           *)
RoundTrip ==
  Answered("entry") /\ answer.entry # Nothing =>
    answer.again # Nothing /\ Bib!Seen(answer.again) = Bib!Seen(answer.entry)

(* A row has a file or none, never an empty path: the search index asks      *)
(* whether it is empty, the database whether it is NULL                     *)
(* (parser_pipeline.py:82, sync.py:63, search_backends.py:78).              *)
FilePathNeverEmpty ==
  Answered("entry") /\ answer.entry # Nothing => answer.entry.filePath \notin {"", " "}

(* A person whose name is spelled in two ways is linked once, where the      *)
(* first spelling stands: the pair is the key of the table                  *)
(* (ingest_entities.py:167).                                                *)
AuthorsLinkedOnce ==
  Answered("entry") /\ answer.entry # Nothing =>
    LET names == answer.entry.authors  links == Bib!AuthorLinks(names)
    IN /\ \A i, j \in DOMAIN links : i < j =>
            links[i].author # links[j].author /\ links[i].position < links[j].position
       /\ {l.author : l \in ToSet(links)} = {Normalized(n) : n \in ToSet(names)}
       /\ \A l \in ToSet(links) : \A i \in 1..(l.position - 1) : Normalized(names[i]) # l.author

VenueOf ==
  /\ Asked("venue")
  /\ answer' = [slug |-> Bib!NormalizeVenue(Bib!VenueText(task.raw), task.aliases)]

(* An alias that is the whole text settles the venue, though an earlier one  *)
(* overlaps with it; no venue is given that the text does not mention       *)
(* (parser.py:92).                                                          *)
ExactAliasWins ==
  Answered("venue") =>
    LET text == Bib!VenueText(task.raw)
        exact == {a \in ToSet(task.aliases) : a.text = text}
        near == {a \in ToSet(task.aliases) :
                   Bib!Mentions(text, a.text) \/ Bib!Mentions(a.text, text)}
    IN CASE text = << >> \/ near = {} -> answer.slug = Nothing
         [] text # << >> /\ exact # {} -> answer.slug \in {a.slug : a \in exact}
         [] OTHER -> answer.slug \in {a.slug : a \in near}

Subject ==
  /\ Asked("subject")
  /\ answer' = Bib!ParseSubject(task.slug, task.whole, task.prefixes, task.subareas)

(* A subarea is told from its parent: the name shown is the parent's only    *)
(* for a slug that stands for the parent itself (parser.py:41).             *)
SubjectsTold ==
  Answered("subject") /\ answer.display = answer.parent =>
    \/ task.slug \in DOMAIN task.whole
    \/ Tail(task.slug) = << >>
    \/ Head(task.slug) \notin DOMAIN task.prefixes

(***************************************************************************)
(* A NER release.                                                          *)
(***************************************************************************)
Statements == Asked("chunks") /\ answer' = Chunks(task.values, task.params)

(* The statements of a batch write each of its rows once, in order, and none *)
(* carries more values than PostgreSQL takes, unless one row does           *)
(* (ner_ingest.py _max_rows_per_insert).                                    *)
ChunksFit ==
  Answered("chunks") =>
    /\ FlattenSeq(answer) = task.values
    /\ \A c \in DOMAIN answer : Len(answer[c]) # 1 =>
         Len(answer[c]) * task.params <= PgMaxBindParams - Reserve

Facts ==
  /\ Asked("facts")
  /\ answer' = IF JsonRows(task.lines) = Invalid THEN Invalid
               ELSE IngestFacts(JsonRows(task.lines), task.entries, IngestEntityAtlas(task.atlas))

(* The mentions stored for a paper and an entity are those of all its facts, *)
(* however the file is cut into batches, and every fact is either stored or  *)
(* counted as unresolved (ner_ingest.py _upsert_facts_batch).               *)
FactsAddUp ==
  Answered("facts") /\ answer # Invalid =>
    LET all == FlattenSeq([n \in DOMAIN JsonRows(task.lines) |-> FactRows(JsonRows(task.lines)[n])])
        entry(f) == ResolveEntry(f, task.entries)
        known == {n \in DOMAIN all : /\ all[n].entity \in {r.id : r \in ToSet(task.atlas)}
                                     /\ entry(all[n]) # Nothing}
        of(p) == {n \in known : <<entry(all[n]), all[n].entity>> = p}
    IN /\ DOMAIN answer.stored = {<<entry(all[n]), all[n].entity>> : n \in known}
       /\ \A p \in DOMAIN answer.stored :
            /\ answer.stored[p].mentions =
                 MapThenSumSet(LAMBDA n : Max({1, AsInt(all[n].mentions, 1)}), of(p))
            /\ answer.stored[p].confidence = Max({AsInt(all[n].confidence, 0) : n \in of(p)})
       /\ answer.unresolved = Len(all) - Cardinality(known)
       /\ answer.count = Cardinality(DOMAIN answer.stored)

Bundles == Asked("bundles") /\ answer' = IngestBundles(task.rows)

(* Bundles without a number get their place in the whole file, so two of     *)
(* them never share one (ner_ingest.py _ingest_bundles).                    *)
BundleIndexes ==
  Answered("bundles") =>
    \A i, j \in DOMAIN answer :
      task.rows[i].index = Nothing /\ task.rows[j].index = Nothing /\ i < j =>
        answer[i].index < answer[j].index

Ids == {task.rows[n].left.id : n \in DOMAIN task.rows}
         \cup {task.rows[n].right.id : n \in DOMAIN task.rows}

Edges ==
  /\ Asked("edges")
  /\ LET edges == IngestEdges(task.rows)
         of == [id \in Ids |-> NeighborTotals(edges, id, task.year)]
     IN answer' = [totals |-> of,
                   shown |-> [id \in Ids |-> NeighborsShown(of[id], task.limit)],
                   edges |-> EdgesShown(edges, Nothing, task.year, 1)]

\* The papers that the neighbours of one entity share with another.
Shared(id, other) ==
  LET totals == answer.totals[id]
  IN MapThenSumSet(LAMBDA n : IF MatchesNode(n, other) THEN totals[n] ELSE 0, DOMAIN totals)

(* Two entities share as many papers seen from one as from the other, and no *)
(* neighbour is left out for one with fewer papers (concepts.py:140).       *)
NeighborsAgree ==
  Answered("edges") =>
    \A a \in Ids : /\ \A b \in Ids : Shared(a, b) = Shared(b, a)
                   /\ \A n \in DOMAIN answer.totals[a] \ ToSet(answer.shown[a]) :
                        /\ Len(answer.shown[a]) = task.limit
                        /\ \A m \in ToSet(answer.shown[a]) :
                             answer.totals[a][m] >= answer.totals[a][n]

Signals ==
  /\ Asked("signals")
  /\ LET trends == IngestTrends(task.rows)
     IN answer' = [trends |-> trends, emergence |-> IngestEmergence(task.rows),
                   flow |-> IngestFlow(task.flows), tops |-> [n \in DOMAIN task.tops |-> TopEntity(task.tops[n])],
                   movers |-> Movers(trends, Nothing, "")]

(* Without a year the movers are those of the last year: each is the last    *)
(* point of its entity's line (trends.py:74, :125).                         *)
MoversAreLatest ==
  Answered("signals") =>
    /\ answer.trends # << >> => answer.movers # << >>
    /\ \A m \in ToSet(answer.movers) :
         LET line == Sparkline(answer.trends, m.id)
         IN line # Invalid /\ Last(line).year = m.year

(* A node key leads back to the entity it was built for, from every table    *)
(* that has one (ner_ingest.py _build_node_key, concepts.py:27).            *)
NodesLeadBack ==
  Answered("signals") =>
    /\ \A table \in {"trends", "emergence", "flow"} : \A r \in ToSet(answer[table]) :
         CanonicalIdFromNode(r.node) = <<r.id>>
    /\ \A t \in ToSet(answer.tops) :
         t.id # BlankNode => CanonicalIdFromNode(t.node) = t.id

Growth == Asked("growth") /\ answer' = GrowthIndicator(task.yearly, task.lifecycle)

(* Without a lifecycle that says so, a bundle grows only when its last year  *)
(* has more papers than the one before, and declines only with fewer        *)
(* (concepts.py:36).                                                        *)
GrowthTrue ==
  Answered("growth") /\ task.lifecycle = "stable" /\ answer # "stable" =>
    LET years == SetToSortSeq(DOMAIN task.yearly, <)
        last == task.yearly[years[Len(years)]]
        before == task.yearly[years[Len(years) - 1]]
    IN /\ Len(years) > 1
       /\ answer = "growing" => last > before
       /\ answer = "declining" => last < before

(***************************************************************************)
(* Semantic Scholar.                                                       *)
(***************************************************************************)
Corpus ==
  /\ Asked("corpus")
  /\ answer' =
       [all |-> Src!ChainReferences(task.db, task.api, task.id, Nothing),
        ids |-> Src!ChainReferenceIds(task.db, task.api, task.id),
        first |-> Src!GetReferences(task.db, task.id, task.limit),
        citing |-> Src!ChainCitations(task.db, task.api, task.id, task.limit),
        paper |-> Src!ChainPaper(task.db, task.api, task.id),
        found |-> Src!ChainResolveId(task.db, task.api, "DOI", "doi"),
        registry |-> Src!Register(Src!Register(<< >>, "corpus", 1), "api", 2)]

(* The short way to the cited papers agrees with the long one, which asks    *)
(* for names in chunks and through another table, whichever source answers;  *)
(* of a corpus that fails between two chunks the long way gives a part of    *)
(* the papers (s2_protocol.py:103, s2_sources.py:56, :200).                  *)
FastPathAgrees ==
  Answered("corpus") =>
    LET cited == {answer.all[n].cited : n \in DOMAIN answer.all}
    IN IF answer.all \in {Nothing, Invalid} THEN answer.ids = answer.all
       ELSE /\ cited \subseteq answer.ids
            /\ task.db = NoFile \/ "chunks" \notin DOMAIN task.db => answer.ids = cited

(* A limit never keeps an edge that is not influential and drops one that is *)
(* (s2_corpus_queries.py:54).                                               *)
InfluentialKept ==
  Answered("corpus") /\ answer.first \notin {Nothing, Invalid} =>
    LET all == Src!GetReferences(task.db, task.id, Nothing)
    IN (\E e \in ToSet(answer.first) : ~e.influential) =>
         \A e \in ToSet(all) : e.influential => e \in ToSet(answer.first)

FindPaper == Asked("paper") /\ answer' = [id |-> Src!FindPaper(task.api, task.entry)]

(* An entry without identifiers that the API knows gets a paper whose title  *)
(* is like its own when one is among the answers (s2_resolvers.py).         *)
SimilarTitleFirst ==
  Answered("paper") /\ task.entry.doi = Nothing /\ task.entry.arxiv = Nothing =>
    LET results == Src!LiveSearch(task.api, task.entry.title, 3)
        similar == {r \in ToSet(results) : Src!Similar(task.entry.title, r.title) /\ r.id # Nothing}
    IN similar # {} => answer.id \in {r.id : r \in similar}

Meta ==
  /\ Asked("meta")
  /\ answer' = [meta |-> Src!GetEntryS2Meta(task.papers, task.id, task.status, task.after),
                related |-> Src!GetRelatedS2Papers(task.papers, task.edges, "cited", task.limit)]

(* A paper is shown when, and only when, the entry has one the source knows, *)
(* before the sync or after it (entry_s2.py:54).                            *)
MetaHonest ==
  Answered("meta") =>
    LET known(i) == i # Nothing /\ task.papers[i] # Nothing
    IN /\ (answer.meta.sync_status = "synced") = (answer.meta.paper # Nothing)
       /\ known(task.id) => answer.meta.paper = task.papers[task.id]
       /\ ~known(task.id) /\ task.status \notin {"syncing", "no_match"} /\ known(task.after) =>
            answer.meta.paper = task.papers[task.after]
       /\ Len(answer.related) <= task.limit

(***************************************************************************)
(* The graph.                                                              *)
(***************************************************************************)
DrawGraph ==
  /\ Asked("graph")
  /\ LET center == Graph!ResolveCenter(task.entry, task.hasLocal, task.local)
         most == IF task.maxNodes > NodesCap THEN NodesCap ELSE task.maxNodes
     IN answer' = [graph |-> Graph!GetGraph(task.source, task.library, "e", task.entry,
                                            task.hasLocal, task.local, task.depth, task.maxNodes),
                   most |-> most,
                   edges |-> IF center = Nothing THEN << >>
                             ELSE Graph!Gathered(task.source, center, task.depth).edges]

Drawn == Answered("graph") /\ answer.graph.nodes # {}
Shown == {n.id : n \in answer.graph.nodes}
Weight(p) == Graph!Similarity(answer.edges, answer.graph.center, p)

(* The graph has as many papers as asked for at most, the center among them  *)
(* if the source knows it.  The others are like it; one that is left out has  *)
(* that many candidates before it, and none of those shown is less like the  *)
(* center than it is (graph_builder.py:130).                                *)
MostSimilarShown ==
  Drawn =>
    LET center == answer.graph.center
        candidates == Graph!CandidateIds(answer.edges, center)
        left == {q \in candidates \ Shown : task.source.papers[q] # Nothing /\ Graph!Positive(Weight(q))}
    IN /\ Cardinality(Shown) <= answer.most
       /\ task.source.papers[center] # Nothing => center \in Shown
       /\ \A p \in Shown \ {center} : Graph!Positive(Weight(p))
       /\ \A q \in left :
            /\ \A p \in Shown \ {center} : ~Graph!Below(Weight(p), Weight(q))
            /\ Cardinality({p \in candidates : p # q /\ ~Graph!Below(Weight(p), Weight(q))})
                 >= answer.most - 1

(* Edges join two papers that were selected, once in each direction; works   *)
(* in common are none of them (graph_builder.py:175, graph_aggregates.py).  *)
GraphClosed ==
  Drawn =>
    LET g == answer.graph
        ends == Shown \cup {p \in DOMAIN task.source.papers : task.source.papers[p] = Nothing}
    IN /\ \A e \in g.edges : {e.source, e.target} \subseteq ends
       /\ \A e, f \in g.edges : e.source = f.source /\ e.target = f.target => e = f
       /\ \A n \in DOMAIN g.similar : g.similar[n].ends \subseteq ends
       /\ \A n \in DOMAIN g.prior : g.prior[n].id \notin Shown
       /\ \A n \in DOMAIN g.derivative : g.derivative[n].id \notin Shown

(* The likeness of two papers does not depend on which one is asked, as the  *)
(* order of a pair is that of a Python set (graph_algorithms.py:24, :60).   *)
SimilaritySymmetric ==
  Drawn => \A p, q \in Shown :
             Graph!Similarity(answer.edges, p, q) = Graph!Similarity(answer.edges, q, p)

(***************************************************************************)
(* Lists and search.                                                       *)
(***************************************************************************)
\* A page after the first may find the rows of the tables in another order.
Shuffled(lib, page) == IF page % 2 = 1 THEN lib ELSE [t \in DOMAIN lib |-> Reverse(lib[t])]
NoFilters == [entry_type |-> Nothing, year_from |-> Nothing, year_to |-> Nothing,
              has_pdf |-> Nothing, read |-> Nothing]
Pages(Page(_, _)) ==
  [p \in 1..task.pages |-> Page(Shuffled(task.lib, p), (p - 1) * task.size)]

Lists ==
  LET by == task.by order == task.order size == task.size most == 100 lib == task.lib IN
  /\ Asked("lists")
  /\ answer' =
      [counted |->
         <<Pages(LAMBDA l, o : Search!ListAuthors(l, by, order, size, o)),
           Pages(LAMBDA l, o : Search!ListVenues(l, Nothing, by, order, size, o)),
           Pages(LAMBDA l, o : Search!ListTopics(l, by, order, size, o)),
           Pages(LAMBDA l, o : Search!ListSubjects(l, by, order, size, o))>>,
       details |->
         <<[n \in DOMAIN lib.authors |-> Search!GetAuthor(lib, lib.authors[n].id)],
           [n \in DOMAIN lib.venues |-> Search!GetVenue(lib, lib.venues[n].slug)],
           [n \in DOMAIN lib.topics |-> Search!GetTopic(lib, lib.topics[n].slug)],
           [n \in DOMAIN lib.subjects |-> Search!GetSubject(lib, lib.subjects[n].slug)]>>,
       behind |->
         <<[n \in DOMAIN lib.authors |->
              Search!GetAuthorEntries(lib, lib.authors[n].id, "year", order, most, 0)],
           [n \in DOMAIN lib.venues |->
              Search!GetVenueEntries(lib, lib.venues[n].slug, "year", order, most, 0)],
           [n \in DOMAIN lib.topics |->
              Search!GetTopicEntries(lib, lib.topics[n].slug, "year", order, most, 0)],
           [n \in DOMAIN lib.subjects |->
              Search!GetSubjectEntries(lib, lib.subjects[n].slug, "year", order, most, 0)]>>,
       entries |-> Pages(LAMBDA l, o :
         Search!ListEntries(l, NoFilters, "created_at", order, size, o).rows),
       entities |-> Pages(LAMBDA l, o :
         Search!ListEntities(l, Nothing, "name", order, size, o)),
       bundles |-> Pages(LAMBDA l, o : Search!ListBundles(l.bundles, size, o)),
       labels |-> Search!ListEntityLabels(lib),
       mentions |-> [n \in DOMAIN lib.entities |->
         Search!GetEntityEntries(lib, lib.entities[n].canonical_id, "year", order, most, 0)],
       facts |-> [n \in DOMAIN lib.entries |-> Search!GetEntryEntities(lib, lib.entries[n].id)],
       stats |-> Search!TrendsStats(lib.signals, lib.signals),
       emergence |-> Pages(LAMBDA l, o :
         Search!GetEmergence(l.signals, Nothing, Nothing, size, o)),
       flow |-> Pages(LAMBDA l, o :
         Search!GetFlow(l.signals, Nothing, Nothing, Nothing, 0, size, o)),
       nowhere |-> <<Search!GetEntry(lib, Nothing), Search!GetEntity(lib, Nothing),
                     Search!GetBundle(lib.bundles, Nothing)>>]

(* Where the sorted values are distinct the pages are a partition of the     *)
(* rows, though each is a query of its own and the rows lie as they please   *)
(* (entity_common.py:15, :34).                                              *)
PagesCover ==
  Answered("lists") =>
    LET Covers(pages, rows) == LET all == FlattenSeq(pages)
                               IN Len(all) = Len(rows) /\ Cardinality(ToSet(all)) = Len(rows)
    IN /\ Covers(answer.entries, task.lib.entries)
       /\ Covers(answer.entities, task.lib.entities)
       /\ Covers(answer.bundles, task.lib.bundles)
       /\ Covers(answer.emergence, task.lib.signals) /\ Covers(answer.flow, task.lib.signals)
       /\ task.by = "name" => /\ Covers(answer.counted[1], task.lib.authors)
                              /\ Covers(answer.counted[2], task.lib.venues)

(* A list sorted by its counts shows them in that order, those with none     *)
(* among them, though the query sorts NULL where it shows 0                 *)
(* (authors.py:34, entity_common.py:24).                                    *)
CountsSorted ==
  Answered("lists") /\ task.by = "entry_count" /\ task.pages = 1 =>
    \A k \in DOMAIN answer.counted :
      LET rows == answer.counted[k][1]
      IN \A i, j \in DOMAIN rows : i < j =>
           IF task.order = "desc" THEN rows[i].entry_count >= rows[j].entry_count
           ELSE rows[i].entry_count <= rows[j].entry_count

(* A list, the detail of a row and the entries behind it tell the same       *)
(* number; they are three queries (authors.py:28, :77, :106).  The entries  *)
(* of an author fail, but only when one of them has a venue                 *)
(* (entity_common.py:86); nothing else does.                                *)
CountsAgree ==
  Answered("lists") =>
    \A k \in DOMAIN answer.counted :
      /\ \A r \in ToSet(FlattenSeq(answer.counted[k])) :
           \E d \in ToSet(answer.details[k]) : d.id = r.id /\ d.entry_count = r.entry_count
      /\ \A n \in DOMAIN answer.details[k] :
           IF answer.behind[k][n] = Failed
           THEN k = 1 /\ \E e \in ToSet(Search!EntriesOfAuthor(task.lib, answer.details[k][n].id)) :
                            e.venue # Nothing
           ELSE answer.details[k][n].entry_count = Len(answer.behind[k][n])

(* The labels' counts are those of the lists they filter, and an entity is   *)
(* among an entry's exactly when the entry is among the entity's            *)
(* (routers/ner.py:84, :137, :192).                                         *)
LabelsAgree ==
  Answered("lists") =>
    /\ \A l \in ToSet(answer.labels) :
         l.entities = Len(Search!ListEntities(task.lib, l.label, "name", "asc", 100, 0))
    /\ \A m \in DOMAIN task.lib.entries : \A n \in DOMAIN task.lib.entities :
         (\E e \in ToSet(answer.mentions[n]) : e.id = task.lib.entries[m].id) =
         (\E f \in ToSet(answer.facts[m]) : f.id = task.lib.entities[n].id)

Documents == [n \in DOMAIN task.entries |-> Search!EntryToDocument(task.entries[n])]

SearchBoth ==
  /\ Asked("search")
  /\ answer' =
       IF ~Search!ValidFilters(task.query.filters) THEN Invalid
       ELSE LET meili == Search!MeiliSearch(Documents, task.query)
                database == Search!DatabaseSearch(task.entries, task.query)
            IN [request |-> Search!CompileMeili(task.query),
                statement |-> Search!CompileDatabase(task.query),
                shown |-> Search!SearchEntries(IF task.index THEN meili ELSE Failed,
                                               IF task.database THEN database ELSE Failed)]

(* What is asked of the index and what is asked of the database, the         *)
(* documents of the one being made of the rows of the other, are the same   *)
(* entries in the same order (search_backends.py:32, :55): two compilers    *)
(* of the same filters, of which one sees flags and one nullable columns.   *)
(* It says nothing of the database's answer: it refuses the statement.      *)
BackendsAgree ==
  Answered("search") /\ answer # Invalid =>
    /\ answer.request.sort = answer.statement.order
    /\ \A n \in DOMAIN task.entries :
         (\A c \in answer.request.filter : Search!Satisfies(Documents[n], c)) =
         (\A c \in answer.statement.where : Search!Holds(task.entries[n], c))

(* A search that the index does not answer says so: it shows no hits that    *)
(* could be taken for all there are, and it is not told as a success that   *)
(* found nothing (search_service.py:51).  As the database refuses the       *)
(* fallback's statement, that is every search without the index.            *)
DegradationTold ==
  Answered("search") /\ answer # Invalid =>
    /\ (answer.shown.source = "meilisearch") = (answer.shown.warnings = << >>)
    /\ (answer.shown.status = "ok") = task.index
    /\ ~task.index => answer.shown = Search!Unavailable(<<"meilisearch_unavailable",
                                                          "search_unavailable">>)

Health ==
  /\ Asked("health")
  /\ answer' = [public |-> Search!PublicStatus(task.services),
                admin |-> Search!AdminStatus(task.services)]

(* The public report is good only when the operator's is, and bad only when  *)
(* the operator's is (system_health.py:44, :51).                            *)
HealthAgrees ==
  Answered("health") /\ {"database", "search"} \subseteq DOMAIN task.services =>
    /\ answer.public = "ok" => answer.admin = "healthy"
    /\ answer.public = "unhealthy" => answer.admin = "unhealthy"

--------------------------------------------------------------------------------
Next ==
  \/ Glob \/ Brace \/ Sources \/ Entry \/ VenueOf \/ Subject
  \/ Statements \/ Facts \/ Bundles \/ Edges \/ Signals \/ Growth
  \/ Corpus \/ FindPaper \/ Meta \/ DrawGraph \/ Lists \/ SearchBoth \/ Health

Spec == Init /\ [][Next]_vars

(***************************************************************************)
(* The promises by subject, one for each part of the program.              *)
(***************************************************************************)

(* A file of the bibliography is found, read and ordered by the contract.    *)
FilesByContract ==
  GlobsMatch /\ BracesMatch /\ ContractKept /\ TopicsReplaced /\ CanonicalFirst

(* An entry is parsed into what its text says and survives an export.        *)
EntriesKept ==
  RoundTrip /\ FilePathNeverEmpty /\ AuthorsLinkedOnce /\ ExactAliasWins /\ SubjectsTold

(* The tables made of a release, and what is told from them, add up to its   *)
(* files, whatever the batches.                                              *)
ReleaseTold ==
  /\ ChunksFit /\ FactsAddUp /\ BundleIndexes
  /\ NodesLeadBack /\ NeighborsAgree /\ MoversAreLatest /\ GrowthTrue

(* Sources and resolvers answer as their protocol says.                      *)
SourcesAnswer == FastPathAgrees /\ InfluentialKept /\ SimilarTitleFirst /\ MetaHonest

(* A citation graph shows the papers and edges that it should.               *)
GraphDrawn == MostSimilarShown /\ GraphClosed /\ SimilaritySymmetric

(* Several queries for one thing give one answer.                            *)
ListsAgree == PagesCover /\ CountsSorted /\ CountsAgree /\ LabelsAgree

(* A search, or a report, with a part of the system away says so.            *)
SearchHonest == BackendsAgree /\ DegradationTold /\ HealthAgrees
================================================================================
