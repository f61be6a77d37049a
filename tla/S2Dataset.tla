------------------------------- MODULE S2Dataset -------------------------------
(***************************************************************************)
(* The pipeline that builds the local corpus from the releases of Semantic *)
(* Scholar (services/s2_ingest_*.py): a command downloads the shards of    *)
(* the datasets, another loads them into DuckDB and sorts the tables.  A   *)
(* command can be killed anywhere; the application reads the same file     *)
(* through S2Sources and, while it has it open, locks the commands out.    *)
(*                                                                         *)
(* Time is left out: links expire when they do.  Connecting to DuckDB,     *)
(* creating the tables and emptying those of the dataset are one step.     *)
(* The _meta.json and the rows of _meta, which nothing reads, are left out. *)
(***************************************************************************)
EXTENDS S2Sources

CONSTANTS
  Published,     \* what each release holds: dataset -> sequence of shards of rows
  MaxAttempts,   \* tries per shard and link, 3
  MaxCommands    \* bound: commands that are given

Datasets == <<"papers", "citations", "paper-ids">>
Releases == DOMAIN Published
ShardsOf(r, d) == DOMAIN Published[r][d]
RowsOf(d) ==
  UNION {UNION {ToSet(Published[r][d][i]) : i \in ShardsOf(r, d)} : r \in Releases}

(* The rows that the lists of a paper become.                                *)
Authors(p) == [n \in DOMAIN p.authors |->
                [corpusid |-> p.corpusid, name |-> p.authors[n], position |-> n - 1]]
Externals(p) == [n \in DOMAIN p.externals |->
                  [corpusid |-> p.corpusid, source |-> p.externals[n].source,
                   id |-> p.externals[n].id]]
ListRows == UNION {ToSet(Authors(p)) \cup ToSet(Externals(p)) : p \in RowsOf("papers")}

(* A corpus that has tables has all that are created, and perhaps copies.    *)
Tables == {"papers", "paper_authors", "paper_external_ids", "citations", "paper_ids"}
Copies == {"citations_by_cited", "paper_ids_by_corpus"}
CorpusRows == (UNION {RowsOf(d) : d \in ToSet(Datasets)}) \cup ListRows
CorporaWith(copies) == [Tables \cup copies -> Seq(CorpusRows)]

(* Releases are numbered in the order of their names; a shard is a list of   *)
(* rows, a row has the identifiers it is sorted by, a paper its lists.       *)
ASSUME DatasetAssumption ==
  /\ {MaxAttempts, MaxCommands} \subseteq Nat
  /\ \A copies \in SUBSET Copies : NoFile \notin CorporaWith(copies)
  /\ Releases \subseteq Nat /\ IsFiniteSet(Releases)
  /\ \A r \in Releases : \A d \in ToSet(Datasets) : Published[r][d] \in Seq(Seq(RowsOf(d)))
  /\ \A c \in RowsOf("citations") : c.citing \in Nat /\ c.cited \in Nat
  /\ \A n \in RowsOf("paper-ids") : n.corpusid \in Nat
  /\ \A p \in RowsOf("papers") :
       /\ p.corpusid \in Nat
       /\ p.authors \in Seq(ToSet(p.authors)) /\ p.externals \in Seq(ToSet(p.externals))

VARIABLES
  files,      \* files[r][d][i]: is shard i "none", in "part" or "whole" in place
  db,         \* the corpus
  app,        \* does the application have it open
  cli,        \* what the command is at
  commands,   \* how many were given
  loaded,     \* history: the <<release, shards>> whose load of a dataset came to its end
  reloaded    \* history: was a dataset loaded again that had a sorted copy

vars == <<files, db, app, cli, commands, loaded, reloaded>>
corpus == <<db, loaded, reloaded>>

Idle == [at |-> "idle"]
NoTables == [t \in {} |-> << >>]
CreateTables == [t \in Tables |-> << >>]
Created == IF db = NoFile \/ db = NoTables THEN CreateTables ELSE db

\* Mutant: only the table of the dataset's own rows is emptied.
ResetOwnTable(d) ==
  CASE d = "papers" -> {"papers"} [] d = "citations" -> {"citations"} [] OTHER -> {"paper_ids"}

(* What each dataset fills: the tables that are emptied first.               *)
ResetTables(d) ==
  CASE d = "papers" -> {"papers", "paper_authors", "paper_external_ids"}
    [] d = "citations" -> {"citations"}
    [] OTHER -> {"paper_ids"}

(* The statements of one shard, in their order: a table and its new rows.    *)
Statements(d, rows) ==
  CASE d = "papers" ->
         <<[table |-> "papers", rows |-> rows],
           [table |-> "paper_authors",
            rows |-> FlattenSeq([i \in DOMAIN rows |-> Authors(rows[i])])],
           [table |-> "paper_external_ids",
            rows |-> FlattenSeq([i \in DOMAIN rows |-> Externals(rows[i])])]>>
    [] d = "citations" -> <<[table |-> "citations", rows |-> rows]>>
    [] OTHER -> <<[table |-> "paper_ids", rows |-> rows]>>

Optimizations ==
  <<[table |-> "citations", source |-> "citations"],
    [table |-> "citations_by_cited", source |-> "citations"],
    [table |-> "paper_ids", source |-> "paper_ids"],
    [table |-> "paper_ids_by_corpus", source |-> "paper_ids"],
    [table |-> "paper_authors", source |-> "paper_authors"],
    [table |-> "paper_external_ids", source |-> "paper_external_ids"]>>

CopyOf(d) == CASE d = "citations" -> "citations_by_cited"
               [] d = "paper-ids" -> "paper_ids_by_corpus"
               [] OTHER -> "none"

SortKey(table, row) ==
  CASE table = "citations" -> row.citing
    [] table = "citations_by_cited" -> row.cited
    [] table \in {"paper_ids_by_corpus", "paper_authors"} -> row.corpusid
    [] OTHER -> 0

WithKey(table, rows, key) ==
  FlattenSeq([i \in DOMAIN rows |->
    IF SortKey(table, rows[i]) = key THEN <<rows[i]>> ELSE << >>])

\* Rows with equal keys stay as they are.
Sorted(table, rows) ==
  FlattenSeq([k \in 1..Max({0} \cup {SortKey(table, rows[i]) : i \in DOMAIN rows}) + 1 |->
    WithKey(table, rows, k - 1)])

(* The members of a finite set of numbers in their order.                    *)
Ascending(S) ==
  CHOOSE s \in [1..Cardinality(S) -> S] : \A m, n \in DOMAIN s : m < n => s[m] < s[n]

(* find_shards: those of the newest release that has any.                    *)
FindRelease(d) ==
  LET having == {r \in Releases : \E i \in ShardsOf(r, d) : files[r][d][i] # "none"}
  IN IF having = {} THEN None ELSE Max(having)
ShardsFound(d) ==
  LET r == FindRelease(d)
  IN Ascending({i \in ShardsOf(r, d) : files[r][d][i] # "none"})

--------------------------------------------------------------------------------
Init ==
  /\ files = [r \in Releases |->
               [d \in ToSet(Datasets) |-> [i \in ShardsOf(r, d) |-> "none"]]]
  /\ db = NoFile /\ app = FALSE
  /\ cli = Idle /\ commands = 0
  /\ loaded = [d \in ToSet(Datasets) |-> None] /\ reloaded = FALSE

(***************************************************************************)
(* Download.                                                               *)
(***************************************************************************)
Fetching(c, shard) ==
  [at |-> "fetch", release |-> c.release, todo |-> c.todo, shard |-> shard,
   attempts |-> 0, refreshed |-> FALSE]

\* A dataset that fails is logged, and the next one follows.
NextDownload(c) ==
  IF Tail(c.todo) = << >> THEN Idle
  ELSE [at |-> "links", release |-> c.release, todo |-> Tail(c.todo)]

Download(r) ==
  /\ cli = Idle /\ commands < MaxCommands
  /\ commands' = commands + 1
  /\ cli' = [at |-> "links", release |-> r, todo |-> Datasets]
  /\ UNCHANGED <<files, corpus, app>>

GetLinks ==
  /\ cli.at = "links"
  /\ cli' = Fetching(cli, 1)
  /\ UNCHANGED <<files, corpus, app, commands>>

Current == files[cli.release][Head(cli.todo)][cli.shard]
AtShard == cli.at = "fetch" /\ cli.shard \in ShardsOf(cli.release, Head(cli.todo))
Place(state) == [files EXCEPT ![cli.release][Head(cli.todo)][cli.shard] = state]

SkipShard ==
  /\ AtShard /\ Current # "none"
  /\ cli' = Fetching(cli, cli.shard + 1)
  /\ UNCHANGED <<files, corpus, app, commands>>

(* download_shard: the bytes go to a temporary file that is renamed when all *)
(* of them are there.  The answer tells their number; of one that does not   *)
(* the code would not see that it was cut short.                            *)
FetchShard ==
  /\ AtShard /\ Current = "none"
  /\ files' = Place("whole")
  /\ cli' = Fetching(cli, cli.shard + 1)
  /\ UNCHANGED <<corpus, app, commands>>

\* Mutant: what has arrived is under the final name already.
FetchFailsInPlace ==
  /\ AtShard /\ Current = "none"
  /\ files' = Place("part")
  /\ cli' = IF cli.attempts + 1 < MaxAttempts THEN [cli EXCEPT !.attempts = @ + 1]
            ELSE Fetching(cli, cli.shard + 1)
  /\ UNCHANGED <<corpus, app, commands>>

(* A try that fails or is cut short; after the last one the shard is given   *)
(* up, which the caller takes for a shard that was there already.           *)
FetchFails ==
  /\ AtShard /\ Current = "none"
  /\ cli' = IF cli.attempts + 1 < MaxAttempts THEN [cli EXCEPT !.attempts = @ + 1]
            ELSE Fetching(cli, cli.shard + 1)
  /\ UNCHANGED <<files, corpus, app, commands>>

\* Mutant: the links are refreshed as often as they expire.
LinkExpiresAgain ==
  /\ AtShard /\ Current = "none"
  /\ cli' = [cli EXCEPT !.attempts = 0]
  /\ UNCHANGED <<files, corpus, app, commands>>

(* Links are refreshed once per shard; a link that expires again costs it.   *)
LinkExpires ==
  /\ AtShard /\ Current = "none"
  /\ cli' = IF cli.refreshed THEN Fetching(cli, cli.shard + 1)
            ELSE [cli EXCEPT !.refreshed = TRUE, !.attempts = 0]
  /\ UNCHANGED <<files, corpus, app, commands>>

(* An error that no handler of the download names (a broken protocol, links  *)
(* that cannot be had) ends the dataset.                                    *)
DownloadRaises ==
  /\ cli.at \in {"links", "fetch"}
  /\ cli' = NextDownload(cli)
  /\ UNCHANGED <<files, corpus, app, commands>>

FinishDownload ==
  /\ cli.at = "fetch" /\ ~AtShard
  /\ cli' = NextDownload(cli)
  /\ UNCHANGED <<files, corpus, app, commands>>

(***************************************************************************)
(* Load.                                                                   *)
(***************************************************************************)
NextLoad(c) ==
  IF Tail(c.todo) # << >> THEN [at |-> "choose", todo |-> Tail(c.todo), index |-> c.index]
  ELSE IF c.index THEN [at |-> "index"] ELSE Idle

Ingest(index) ==
  /\ cli = Idle /\ commands < MaxCommands
  /\ commands' = commands + 1
  /\ cli' = [at |-> "choose", todo |-> Datasets, index |-> index]
  /\ UNCHANGED <<files, corpus, app>>

SkipDataset ==
  /\ cli.at = "choose" /\ FindRelease(Head(cli.todo)) = None
  /\ cli' = NextLoad(cli)
  /\ UNCHANGED <<files, corpus, app, commands>>

BeginLoad ==
  LET d == Head(cli.todo) IN
  /\ cli.at = "choose" /\ FindRelease(d) # None /\ ~app
  /\ db' = [t \in DOMAIN Created |-> IF t \in ResetTables(d) THEN << >> ELSE Created[t]]
  /\ loaded' = [loaded EXCEPT ![d] = None]
  /\ reloaded' = (reloaded \/ (db # NoFile /\ CopyOf(d) \in DOMAIN db))
  /\ cli' = [at |-> "load", todo |-> cli.todo, index |-> cli.index,
             release |-> FindRelease(d), shards |-> ShardsFound(d), next |-> 1]
  /\ UNCHANGED <<files, app, commands>>

\* The statements of all shards, one after the other.
AllStatements(d, release, shards) ==
  FlattenSeq([i \in DOMAIN shards |-> Statements(d, Published[release][d][shards[i]])])
Pending(c) == AllStatements(Head(c.todo), c.release, c.shards)

(* Each statement is a transaction of its own.                               *)
LoadStatement ==
  /\ cli.at = "load" /\ cli.next <= Len(Pending(cli))
  /\ LET s == Pending(cli)[cli.next]
     IN db' = [db EXCEPT ![s.table] = @ \o s.rows]
  /\ cli' = [cli EXCEPT !.next = @ + 1]
  /\ UNCHANGED <<files, app, commands, loaded, reloaded>>

EndLoad ==
  /\ cli.at = "load" /\ cli.next > Len(Pending(cli))
  /\ loaded' = [loaded EXCEPT ![Head(cli.todo)] = <<cli.release, ToSet(cli.shards)>>]
  /\ cli' = NextLoad(cli)
  /\ UNCHANGED <<files, app, commands, db, reloaded>>

(* The file is locked, or a statement fails: the next dataset follows.       *)
LoadRaises ==
  /\ \/ cli.at = "choose" /\ FindRelease(Head(cli.todo)) # None /\ app
     \/ cli.at = "load"
  /\ cli' = NextLoad(cli)
  /\ UNCHANGED <<files, corpus, app, commands>>

(***************************************************************************)
(* Sort.                                                                   *)
(***************************************************************************)

\* Mutant: the application's connection does not keep the command out.
BeginIndexShared ==
  /\ cli.at = "index"
  /\ db' = IF db = NoFile THEN NoTables ELSE db
  /\ cli' = [at |-> "sort", next |-> 1, existing |-> DOMAIN db']
  /\ UNCHANGED <<files, app, commands, loaded, reloaded>>

(* build_indexes: connecting makes the file when there is none; the names of *)
(* the tables are read once.                                                *)
BeginIndex ==
  /\ cli.at = "index"
  /\ IF app THEN cli' = Idle /\ db' = db
     ELSE /\ db' = IF db = NoFile THEN NoTables ELSE db
          /\ cli' = [at |-> "sort", next |-> 1, existing |-> DOMAIN db']
  /\ UNCHANGED <<files, app, commands, loaded, reloaded>>

\* Mutant: a copy is made of the primary rows of the first shard loaded only.
SortTableFirst ==
  LET o == Optimizations[cli.next]
      skipped == \/ o.source \notin cli.existing
                 \/ o.table # o.source /\ o.table \in cli.existing
  IN /\ cli.at = "sort" /\ cli.next <= Len(Optimizations)
     /\ db' = IF skipped \/ db[o.source] = << >> THEN db
              ELSE (o.table :> Sorted(o.table, IF o.table = o.source THEN db[o.source]
                                               ELSE Front(db[o.source]))) @@ db
     /\ cli' = [cli EXCEPT !.next = @ + 1]
     /\ UNCHANGED <<files, app, commands, loaded, reloaded>>

(* A copy that exists is kept, whatever its source holds by now.             *)
SortTable ==
  LET o == Optimizations[cli.next]
      skipped == \/ o.source \notin cli.existing
                 \/ o.table # o.source /\ o.table \in cli.existing
  IN /\ cli.at = "sort" /\ cli.next <= Len(Optimizations)
     /\ db' = IF skipped \/ db[o.source] = << >> THEN db
              ELSE [t \in DOMAIN db \cup {o.table} |->
                     IF t = o.table THEN Sorted(o.table, db[o.source]) ELSE db[t]]
     /\ cli' = [cli EXCEPT !.next = @ + 1]
     /\ UNCHANGED <<files, app, commands, loaded, reloaded>>

EndIndex ==
  /\ cli.at = "sort" /\ cli.next > Len(Optimizations)
  /\ cli' = Idle
  /\ UNCHANGED <<files, corpus, app, commands>>

(***************************************************************************)
(* The surroundings.                                                       *)
(***************************************************************************)
Connected == cli.at \in {"load", "sort"}

Kill ==
  /\ cli # Idle /\ cli' = Idle
  /\ UNCHANGED <<files, corpus, app, commands>>

(* get_connection: the application connects when it is first asked, and      *)
(* keeps the connection.                                                    *)
OpenApp ==
  /\ ~app /\ db # NoFile /\ ~Connected /\ app' = TRUE
  /\ UNCHANGED <<files, corpus, cli, commands>>
CloseApp == app /\ app' = FALSE /\ UNCHANGED <<files, corpus, cli, commands>>

Step ==
  \/ GetLinks \/ SkipShard \/ FetchShard \/ FetchFails \/ LinkExpires
  \/ DownloadRaises \/ FinishDownload
  \/ SkipDataset \/ BeginLoad \/ LoadStatement \/ EndLoad \/ LoadRaises
  \/ BeginIndex \/ SortTable \/ EndIndex

Next ==
  \/ \E r \in Releases : Download(r)
  \/ \E index \in BOOLEAN : Ingest(index)
  \/ Step \/ Kill \/ OpenApp \/ CloseApp

(* A command that runs goes on; nobody has to give one.                      *)
Spec == Init /\ [][Next]_vars /\ WF_vars(Step)

--------------------------------------------------------------------------------
(* Each variable holds what its comment says, and the application never has  *)
(* the corpus open while a command writes it.                               *)
DatasetTypeOK ==
  /\ DOMAIN files = Releases
  /\ \A r \in Releases :
       /\ DOMAIN files[r] = ToSet(Datasets)
       /\ \A d \in ToSet(Datasets) :
            files[r][d] \in [ShardsOf(r, d) -> {"none", "part", "whole"}]
  /\ db \in {NoFile, NoTables} \/ \E copies \in SUBSET Copies : db \in CorporaWith(copies)
  /\ app \in BOOLEAN /\ reloaded \in BOOLEAN /\ commands \in 0..MaxCommands
  /\ app => (~Connected /\ db # NoFile)

(* A shard under its final name is complete, wherever a download was cut or  *)
(* killed: the next one skips it, and a load reads it, on the strength of   *)
(* its name alone (s2_ingest_download.py:64).                               *)
ShardsWhole ==
  \A r \in Releases : \A d \in ToSet(Datasets) :
    \A i \in ShardsOf(r, d) : files[r][d][i] # "part"

BagOf(s) == [x \in ToSet(s) |-> Cardinality({i \in DOMAIN s : s[i] = x})]

\* What the statements add to a table.
RowsFor(t, all) ==
  FlattenSeq([n \in DOMAIN all |-> IF all[n].table = t THEN all[n].rows ELSE << >>])

(* A load that came to its end left each table of its dataset with exactly   *)
(* the rows of its shards, once, whatever earlier loads had left there      *)
(* when they were killed (s2_ingest_duckdb.py:76).                          *)
LoadedExactly ==
  \A d \in ToSet(Datasets) : loaded[d] # None =>
    LET all == AllStatements(d, loaded[d][1], Ascending(loaded[d][2]))
    IN \A n \in DOMAIN all : BagOf(db[all[n].table]) = BagOf(RowsFor(all[n].table, all))

Names == UNION {UNION {{Published[r]["paper-ids"][i][n].sha :
                          n \in DOMAIN Published[r]["paper-ids"][i]} :
                       i \in ShardsOf(r, "paper-ids")} : r \in Releases}
Ends(edges, side) ==
  IF edges \in {None, Raises} THEN {} ELSE {edges[n][side] : n \in DOMAIN edges}

(* What the corpus answers is the same from both ends of a citation, in the  *)
(* middle of a load too: its two queries read different tables, and names    *)
(* are looked up in a third (s2_corpus_queries.py:125, :130).                *)
TwoSided ==
  \A p \in Names, q \in Names :
    (q \in Ends(GetReferences(db, p, None), "cited")) <=>
    (p \in Ends(GetCitations(db, q, None), "citing"))

(* It is as long as no dataset with a sorted copy has been loaded again.     *)
TwoSidedAtFirst == ~reloaded => TwoSided

(* Each command ends, also when links expire over and over and every try     *)
(* fails (s2_ingest_download.py:71, :197).                                  *)
CommandsEnd == (cli # Idle) ~> (cli = Idle)

(* What is on disk and in the corpus is whole, as far as its name or the end *)
(* of its load says so.                                                      *)
CorpusWhole == DatasetTypeOK /\ ShardsWhole /\ LoadedExactly
================================================================================
