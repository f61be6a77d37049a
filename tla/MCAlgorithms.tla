------------------------------ MODULE MCAlgorithms ------------------------------
(* The questions TLC asks: small inputs of every kind, with the cases that     *)
(* each computation tells apart among them.                                    *)
EXTENDS Algorithms

Words(S, low, high) == UNION {[1..n -> S] : n \in low..high}

MCPlain(x) == IF x = "A" THEN "A." ELSE x
MCNormalized(x) == IF x \in {"a", "A."} THEN "a." ELSE x

(* Files of the bibliography. *)
MCGlobTasks ==
  [kind : {"glob"}, path : Words({"a", "b"}, 1, 3), pattern : Words({"a", "**", "*"}, 1, 3)]

MCBraceTasks ==
  {[kind |-> "brace", text |-> <<"{">> \o t] : t \in Words({"b", "q", "{", "}", "x"}, 0, 4)}

Rule(glob, role, subject, topics) ==
  [extraKeys |-> FALSE, glob |-> glob, role |-> role, exclude |-> {<<"conf", "tmp">>},
   subject |-> subject, topics |-> topics]
Canonical == Rule(<<"conf", "**">>, "canonical", "{parent}", << >>)
Curated == Rule(<<"**">>, "curated", "no subject", <<"t">>)
Archive == Rule(<<"*">>, "archive", "no subject", << >>)
Manifests ==
  {[version |-> v, rules |-> r] :
     v \in {1}, r \in {<<Canonical, Curated>>, <<Archive, Canonical, Curated>>, <<Curated>>,
                       <<Canonical>>, << >>, <<[Curated EXCEPT !.topics = BadType]>>,
                       <<[Archive EXCEPT !.topics = <<"t">>], Curated>>}}
    \cup {[version |-> 2, rules |-> <<Curated>>]}
Texts == {<<"x">>, <<"C", "{", "L", "}">>, <<"C", "{", "G", "}">>, <<"x", "C", "{", "L", "}">>,
          <<"%", "x", "n", "C", "{", "L", "}", "x">>, <<"C", "{", "L", "}", "C", "{", "L", "}">>}
Inlines ==
  {[role |-> "curated"], [role |-> "archive"], [role |-> "no role"], [topics |-> BadType],
   [topics |-> <<"u">>], [topics_append |-> <<"u">>], [role |-> "curated", topics |-> <<"u">>],
   [replace_topics |-> "true", topics_append |-> <<"u">>], [subject |-> "no subject"],
   [role |-> "archive", replace_topics |-> "true"],
   [role |-> "curated", topics |-> <<"u">>, subject |-> "no subject"]}
File(path, text, inline) == [path |-> path, text |-> text, inline |-> inline]
Files(text, inline) ==
  {<<File(<<"aa">>, <<"x">>, [role |-> "curated"]),
     File(<<"conf", "nips">>, text, inline), File(<<"conf", "tmp">>, <<"x">>, inline)>>,
   <<File(<<"aa">>, text, inline), File(<<"conf", "nips">>, <<"x">>, inline)>>}
MCSourceTasks ==
  UNION {{[kind |-> "sources", manifest |-> m, files |-> f, slugs |-> {"conf", "t", "u"}] :
            m \in Manifests, f \in Files(t, i)} : t \in Texts, i \in Inlines}

(* Entries. *)
Optional(k, values) == {[j \in {} |-> Nothing]} \cup {k :> v : v \in values}
MCEntryTasks ==
  {[kind |-> "entry",
    raw |-> ("ENTRYTYPE" :> t) @@ ("ID" :> i) @@ h @@ y @@ f @@ a @@ j] :
     t \in {"article", "online"}, i \in {"k", ""}, h \in Optional("title", {"t", ""}),
     y \in Optional("year", {<<2001>>, <<Bib!NotANumber>>, <<2001, 2002>>}),
     f \in Optional("file", {<<"">>, <<"", "p", "PDF">>, <<"", " ", "PDF">>, <<"p">>}),
     a \in Optional("author", {<<"A", "a">>, <<"A", " ", "B">>, <<"B", "a", "A", "C">>}),
     j \in Optional("journal", {<<"j">>})}

Aliases == [text : {<<"v">>, <<"v", "w">>, <<"w">>}, slug : {"s1", "s2"}]
MCVenueTasks ==
  {[kind |-> "venue", raw |-> b @@ j, aliases |-> a] :
     b \in Optional("booktitle", {<< >>, <<"v", "w">>, <<"u", "v", "w">>}),
     j \in Optional("journal", {<<"v">>, <<"w", "v">>, <<"u">>}),
     a \in {s \in Words(Aliases, 0, 2) : \A m, n \in DOMAIN s : m # n => s[m].text # s[n].text}}

MCSubjectTasks ==
  {[kind |-> "subject", slug |-> s, whole |-> <<"ml", "all">> :> <<"ML", "all">>,
    prefixes |-> "ml" :> <<"ML">>,
    subareas |-> (<<"theory">> :> <<"Theory">>) @@ (<<"self">> :> <<"ML">>)] :
     s \in Words({"ml", "theory", "self", "all", "x"}, 1, 3)}

(* A NER release. *)
MCChunkTasks ==
  {[kind |-> "chunks", values |-> [n \in 1..m |-> n], params |-> p] : m \in 0..8, p \in 0..9}

Key(name, dblp, surname, year) == [name |-> name, dblp |-> dblp, surname |-> surname, year |-> year]
Row1(k, s) == [key |-> k, source |-> s, year |-> 2001, entity |-> "a", confidence |-> Nothing,
               mentions |-> 2]
Stored == [key |-> Key("k", FALSE, "kim", 2001), source |-> <<"conferences", "x">>, year |-> 2001]
Other == [key |-> Key("l", FALSE, "kim", 2001),
          source |-> <<"", "home", "bibliography", "conferences", "x">>, year |-> 2001]
Dblp == Key("d", TRUE, "kim", 2001)
FactLines ==
  {Row1(Stored.key, <<"">>), Row1(Dblp, <<"", "bibliography", "bibliography", "conferences", "x">>),
   Row1(Dblp, <<"", "data", "conferences", "x">>), Row1(Key("e", TRUE, Nothing, 0), Stored.source),
   [Row1(Stored.key, <<"">>) EXCEPT !.entity = "c"],
   [key |-> Stored.key, source |-> <<"">>, year |-> Nothing,
    entities |-> <<[entity |-> "a", confidence |-> 3, mentions |-> Nothing],
                   [entity |-> "b", confidence |-> 1, mentions |-> 0]>>],
   Nothing, Invalid}
Atlas(id, label, hits, first, last, venues) ==
  [id |-> id, label |-> label, hits |-> hits, first |-> first, last |-> last, venues |-> venues]
MCFactTasks ==
  {[kind |-> "facts", lines |-> l, entries |-> e,
    atlas |-> <<Atlas("a", "m", Nothing, 2001, 0, <<"v">>), Atlas("", "m", 1, 0, 0, << >>),
                Atlas("a", "", 2, 2000, 2002, <<"w", "v">>), Atlas("b", "", 1, Nothing, 0, << >>)>>] :
     l \in Words(FactLines, 0, 3), e \in {{Stored}, {Stored, Other}}}

MCBundleTasks ==
  {[kind |-> "bundles", rows |-> r] :
     r \in Words([index : {Nothing, 1}, lifecycle : {"", "growing"}], 0, 4)}

Node(node, label, id) == [node |-> node, label |-> label, id |-> id]
EdgeRows ==
  {[left |-> e[1], right |-> e[2], papers |-> p, year |-> y] :
     e \in {<<Node(BlankNode, "m", "a"), Node(<<"m", "b">>, "", "b")>>,
            <<Node(<<"m", "b">>, "", "b"), Node(BlankNode, "", "a")>>,
            <<Node(BlankNode, "m", "c"), Node(<<"m", "b">>, "", "b")>>,
            <<Node(BlankNode, "m", "a"), Node(BlankNode, "", "")>>},
     p \in {Nothing, 1, 2}, y \in {Nothing, 1}}
MCEdgeTasks ==
  {[kind |-> "edges", rows |-> r, limit |-> l, year |-> y] :
     r \in Words(EdgeRows, 0, 2), l \in {1, 2}, y \in {Nothing, 1}}

SignalRow(id, label, node, y) ==
  [id |-> id, label |-> label, node |-> node, year |-> y, direction |-> "rise",
   source_year |-> y, target_year |-> Nothing]
SignalRows ==
  {SignalRow(i, l, n, y) : i \in {"a", ""}, l \in {"m", ""}, n \in {BlankNode, <<"m", "a">>},
                           y \in {Nothing, 2001}}
    \cup {SignalRow("b", "m", BlankNode, 2002)}
Tops == {Node(BlankNode, "", ""), Node(<<"m", "a">>, "", ""), Node(BlankNode, "m", "a"),
         Node(BlankNode, "", "a"), Node(<<"m", "a">>, "m", "a")}
MCSignalTasks ==
  {[kind |-> "signals", rows |-> r, flows |-> r, tops |-> <<t>>] :
     r \in Words(SignalRows, 0, 2), t \in Tops}

MCGrowthTasks ==
  {[kind |-> "growth", yearly |-> y, lifecycle |-> l] :
     y \in UNION {[Y -> {0, 1, 9, 10, 11, 12}] : Y \in SUBSET {2001, 2002, 2003}},
     l \in {"stable", "growing"}}

(* Semantic Scholar: the corpus knows the papers 1 to 3, by the names p, q, r. *)
Id(s, c, p) == [sha |-> s, corpusid |-> c, primary |-> p]
Cite(a, b, i) == [citing |-> a, cited |-> b, influential |-> i]
Citations == {s \in Words({Cite(1, 2, FALSE), Cite(1, 3, TRUE), Cite(2, 3, FALSE), Cite(1, 4, TRUE),
                           Cite(3, 1, TRUE)}, 0, 4) :
                \A m, n \in DOMAIN s : m < n => s[m] # s[n]}
Corpora ==
  {[paper_ids |-> <<Id("p", 1, TRUE), Id("p2", 1, FALSE), Id("q", 2, TRUE), Id("r", 3, TRUE)>>,
    citations |-> c,
    papers |-> <<[corpusid |-> 1, title |-> "t", citations |-> 1]>>,
    paper_authors |-> <<[corpusid |-> 1, name |-> "n", position |-> 2],
                        [corpusid |-> 1, name |-> "m", position |-> 1]>>,
    abstracts |-> << >>,
    paper_external_ids |-> <<[corpusid |-> 4, source |-> "DOI", id |-> "doi"],
                             [corpusid |-> 2, source |-> "DOI", id |-> "doi"]>>] : c \in Citations}
Failing(db, n) == db @@ [chunks |-> n]
WithCopies(db) ==
  db @@ [paper_ids_by_corpus |-> Reverse(db.paper_ids), citations_by_cited |-> Reverse(db.citations)]
End(p, i) == [paper |-> p, influential |-> i]
Found(i, title) == [id |-> i, title |-> title]
Api(ends, found) ==
  [papers |-> "p" :> [id |-> "p"], references |-> "p" :> ends, citations |-> "q" :> ends,
   ids |-> <<"DOI", "doi">> :> "q", found |-> {"u", "v", "w"} :> found]
Apis == {Api(e, << >>) : e \in {<< >>, <<End("q", FALSE), End(Nothing, TRUE), End("r", TRUE)>>,
                                <<End("s", FALSE)>>}}
MCCorpusTasks ==
  {[kind |-> "corpus", db |-> d, api |-> a, id |-> i, limit |-> l] :
     d \in Corpora \cup {WithCopies(db) : db \in Corpora} \cup {Failing(db, 1) : db \in Corpora}
             \cup {NoFile, [papers |-> << >>]},
     a \in Apis, i \in {"p", "x"}, l \in {Nothing, 1, 2}}

MCPaperTasks ==
  {[kind |-> "paper", api |-> Api(<< >>, f),
    entry |-> [doi |-> d, arxiv |-> a, title |-> {"u", "v", "w"}]] :
     f \in Words({Found(i, t) : i \in {"q", Nothing}, t \in {{"u", "v", "w"}, {"u", "v"}}}
                   \cup {Found("r", {"u", "v", "w"})}, 0, 4),
     d \in {Nothing, "doi", "other"}, a \in {Nothing, "arxiv"}}

MCMetaTasks ==
  {[kind |-> "meta", papers |-> ("p" :> [id |-> "p"]) @@ ("q" :> Nothing),
    id |-> i, status |-> s, after |-> f, edges |-> e, limit |-> l] :
     i \in {Nothing, "p", "q"}, s \in {"syncing", "no_match", "synced", "error"},
     f \in {Nothing, "p", "q"}, l \in 0..2,
     e \in {Nothing, <<[cited |-> "q", influential |-> TRUE], [cited |-> "p", influential |-> TRUE],
                       [cited |-> "p", influential |-> FALSE]>>}}

(* The graph around paper 1: of five papers the last one is not known.  Both   *)
(* ends of a citation are asked for it and may judge it differently.           *)
Pairs == {<<1, 2>>, <<1, 3>>, <<3, 1>>, <<4, 1>>, <<2, 3>>, <<4, 3>>, <<4, 5>>, <<2, 5>>, <<2, 4>>, <<5, 1>>}
MCSource(pairs) ==
  LET ends(S) == IF S = {} THEN Nothing
                 ELSE [n \in 1..Cardinality(S) |->
                         [id |-> SetToSortSeq(S, <)[n], influential |-> n = 1]]
  IN [papers |-> [p \in 1..5 |-> IF p = 5 THEN Nothing ELSE [id |-> p, citations |-> p]],
      refs |-> [p \in 1..5 |-> ends({q \in 1..5 : <<p, q>> \in pairs})],
      cites |-> [p \in 1..5 |-> ends({q \in 1..5 : <<q, p>> \in pairs})]]
Centers == {[s2Id |-> 1, doi |-> Nothing, arxiv |-> Nothing],
            [s2Id |-> Nothing, doi |-> "d", arxiv |-> "a"]}
MCGraphTasks ==
  {[kind |-> "graph", source |-> MCSource(s), library |-> ("e" :> 1) @@ ("f" :> 3),
    entry |-> c, hasLocal |-> h, local |-> ("d" :> Nothing) @@ ("a" :> 1),
    depth |-> d, maxNodes |-> n] :
     s \in SUBSET Pairs, d \in {1, 2}, n \in {2, 3},
     c \in {[s2Id |-> 1, doi |-> Nothing, arxiv |-> Nothing]}, h \in {TRUE}}
  \cup
  {[kind |-> "graph", source |-> MCSource(Pairs), library |-> ("e" :> 1) @@ ("f" :> 3),
    entry |-> c, hasLocal |-> h, local |-> ("d" :> Nothing) @@ ("a" :> 1),
    depth |-> 1, maxNodes |-> 4] : c \in Centers, h \in BOOLEAN}

(* Lists and search: four entries, two of them without a year. *)
LibEntry(i, year, venue, subject) ==
  [id |-> i, title |-> 10 - i, year |-> year, created_at |-> i, updated_at |-> i,
   entry_type |-> IF i = 1 THEN "book" ELSE "article",
   file_path |-> IF i = 2 THEN "p" ELSE Nothing, read |-> i > 2, venue |-> venue, subject |-> subject]
LibEntries == <<LibEntry(1, 2001, 1, Nothing), LibEntry(2, Nothing, 1, 2),
                LibEntry(3, 2003, 2, 2), LibEntry(4, Nothing, Nothing, 1)>>
Link(e, to) == [entry |-> e, to |-> to]
Tagged(n) == [i \in 1..n |-> [id |-> i, slug |-> 10 + i, name |-> 5 - i]]
Library ==
  [entries |-> LibEntries,
   authors |-> [i \in 1..4 |-> [id |-> i, name |-> 5 - i]],
   venues |-> [i \in 1..3 |-> [id |-> i, slug |-> 10 + i, name |-> i, category |-> "conference"]],
   topics |-> Tagged(3), subjects |-> Tagged(3),
   authorLinks |-> <<Link(1, 1), Link(2, 1), Link(3, 2), Link(2, 2), Link(4, 2), Link(4, 3)>>,
   topicLinks |-> <<Link(1, 3), Link(2, 3), Link(2, 2)>>,
   entities |-> [i \in 1..3 |-> [id |-> i, canonical_id |-> 20 + i, name |-> 5 - i, paper_hits |-> i,
                                 label |-> IF i = 2 THEN 1 ELSE 2,
                                 years_active |-> IF i = 1 THEN Nothing ELSE i]],
   facts |-> <<[entry |-> 1, to |-> 2, confidence |-> 3], [entry |-> 2, to |-> 2, confidence |-> 1],
               [entry |-> 1, to |-> 3, confidence |-> 3]>>,
   bundles |-> [i \in 1..3 |-> [index |-> i, size |-> IF i = 1 THEN 2 ELSE 1]],
   signals |-> [i \in 1..3 |-> [id |-> i % 2, venue |-> IF i = 1 THEN Nothing ELSE i, label |-> 1,
                                year |-> 2000 + i, score |-> i, from |-> 1, to |-> 2]]]
MCListTasks ==
  {[kind |-> "lists", lib |-> Library, by |-> b, order |-> o, size |-> p[1], pages |-> p[2]] :
     b \in {"name", "entry_count", "year"}, o \in {"asc", "desc"},
     p \in {<<1, 4>>, <<2, 2>>, <<3, 2>>, <<4, 1>>}}

MCSearchTasks ==
  {[kind |-> "search", entries |-> LibEntries,
    query |-> [filters |-> [entry_type |-> t, year_from |-> y, year_to |-> z, has_pdf |-> p,
                            read |-> r], sort |-> s, limit |-> l, offset |-> 0],
    index |-> x[1], database |-> x[2]] :
     t \in {Nothing, "book"}, y \in {Nothing, 2002}, z \in {Nothing, 2001, 2003},
     p \in BOOLEAN \cup {Nothing}, r \in BOOLEAN \cup {Nothing},
     s \in {Nothing, <<"year", "asc">>, <<"hits", "down">>}, l \in {1, 4},
     x \in {<<TRUE, TRUE>>, <<FALSE, TRUE>>, <<FALSE, FALSE>>}}

MCHealthTasks ==
  {[kind |-> "health", services |-> s] :
     s \in UNION {[S -> BOOLEAN] : S \in SUBSET {"database", "search", "corpus"}}}
================================================================================
