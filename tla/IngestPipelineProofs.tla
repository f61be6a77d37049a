-------------------------- MODULE IngestPipelineProofs --------------------------
(***************************************************************************)
(* What the ingests of a bibliography keep, proved for any number of       *)
(* writers, entries, files and faults and every size of a batch.           *)
(*                                                                         *)
(* A writer decides on what its session shows, which may be older than     *)
(* what is stored.  The argument is that what is stored is always a later  *)
(* version (Later) of what a session shows, and what a transaction has     *)
(* written a later version of what is stored: topics are only added, a     *)
(* canonical title stays one, an author that no file names does not come   *)
(* back.  Nobody else writes an entry that a transaction has written.      *)
(* Of an ingest that is alone more is said: what its session shows is what *)
(* its transaction has, and that is what its files say up to its row.      *)
(***************************************************************************)
EXTENDS IngestPipeline, FiniteSetTheorems, TLAPS

(***************************************************************************)
(* Versions of an entry.                                                   *)
(***************************************************************************)
Mine(k) == Sources(k, "canonical") \cup Sources(k, "curated")
Canon(k) == {c.title : c \in Sources(k, "canonical")}
Named(k) == UNION {ToSet(r.authors) : r \in Mine(k)}

\* The authors an entry has from before, of whom its files know nothing.
Forgotten(k) == IF Initial[k] = NoRow THEN {} ELSE Initial[k].authors \ Named(k)

Later(k, old, new) ==
  /\ new \in Entry
  /\ old.topics \subseteq new.topics
  /\ old.title \in Canon(k) => new.title \in Canon(k)
  /\ new.authors \cap Forgotten(k) \subseteq old.authors

AsParsed(k, e) ==
  \/ /\ Initial[k] # NoRow
     /\ e.title = Initial[k].title /\ e.authors = Initial[k].authors
  \/ /\ \E r \in Mine(k) : e.title = r.title
     /\ \E r \in Mine(k) : ToSet(r.authors) \subseteq e.authors
     /\ e.authors \subseteq Named(k)

\* A row of a file of this role is in the entry.
Holds(role, r, e) ==
  /\ e \in Entry
  /\ role = "curated" => ToSet(r.topics) \subseteq e.topics
  /\ role = "canonical" => e.title \in Canon(r.key)

Links(e) == e.authors \cup e.topics

\* A row is written over what is stored of its entry: the session shows `new` of
\* it from then on, and stored is `fl`.
Outcome(k, role, r, old, stored, new, fl) ==
  /\ new \in Entry /\ Later(k, stored, fl) /\ Later(k, new, fl) /\ AsParsed(k, fl)
  /\ Holds(role, r, fl)
  /\ role = "curated" => fl.title = stored.title /\ fl.authors = stored.authors
  /\ Links(new) \subseteq Links(old) \cup ToSet(r.authors) \cup ToSet(r.topics)
  /\ Links(fl) \subseteq Links(stored) \cup ToSet(r.authors) \cup ToSet(r.topics)

(***************************************************************************)
(* The invariant: what is committed, and what every writer knows.          *)
(***************************************************************************)
Shape ==
  /\ DOMAIN pc = Writers /\ DOMAIN at = Writers /\ DOMAIN needs = Writers
  /\ DOMAIN pending = Writers /\ DOMAIN work = Writers /\ DOMAIN context = Writers
  /\ DOMAIN session = Writers /\ DOMAIN batch = Writers /\ DOMAIN imported = Writers
  /\ DOMAIN phantoms = Writers /\ DOMAIN errors = Writers /\ DOMAIN runs = Writers
  /\ faults \in 0..MaxFaults

StoredInv ==
  /\ related \subseteq Related
  /\ \A k \in Keys :
       /\ entries[k] \in Entry \cup {NoRow}
       /\ Initial[k] # NoRow => entries[k] # NoRow
       /\ entries[k] # NoRow => Links(entries[k]) \subseteq related /\ AsParsed(k, entries[k])
  /\ events \subseteq Keys /\ events \subseteq Stored \cup UNION {phantoms[w] : w \in Writers}

\* The locks of the transactions.
LockInv == \A v, w \in Writers : v # w => DOMAIN work[v] \cap DOMAIN work[w] = {}

TypeInv(w) ==
  /\ pc[w] \in {"idle", "begin", "authors", "topics", "rows", "publish", "done", "failed"}
  /\ at[w] \in [file : Nat, row : Nat, next : Nat]
  /\ at[w].file \in DOMAIN Files[w] /\ at[w].row \in 1..Len(File(w).rows) + 1
  /\ needs[w] \subseteq Related /\ pending[w] \subseteq Related
  /\ DOMAIN work[w] \subseteq batch[w] /\ batch[w] \subseteq DOMAIN context[w]
  /\ DOMAIN context[w] \subseteq Keys /\ DOMAIN session[w] \subseteq Keys
  /\ \A k \in DOMAIN work[w] : work[w][k] \in Entry
  /\ \A k \in DOMAIN context[w] : context[w][k] \in Entry \cup {NoRow, Expired}
  /\ \A k \in DOMAIN session[w] : session[w][k] \in Entry \cup {Expired}
  /\ IsFiniteSet(batch[w]) /\ imported[w] \subseteq Keys /\ phantoms[w] \subseteq Keys
  /\ errors[w] \in Nat /\ runs[w] \in 0..MaxRuns

\* A transaction has something to it only where it is in one.
QuietInv(w) ==
  /\ pc[w] # "rows" => DOMAIN context[w] = {}
  /\ pc[w] \notin {"authors", "topics", "rows"} => pending[w] = {}

\* Where the writer is in its file, and that the names of its batch are there.
BatchInv(w) ==
  /\ pc[w] \in {"idle", "begin", "authors", "topics"} => at[w].next = at[w].row
  /\ pc[w] = "authors" => AuthorsOf(w) \subseteq related \cup pending[w] \cup needs[w]
  /\ pc[w] = "topics" => /\ AuthorsOf(w) \subseteq related \cup pending[w]
                         /\ TopicsOf(w) \subseteq related \cup pending[w] \cup needs[w]
  /\ pc[w] = "rows" =>
       /\ at[w].row <= at[w].next /\ at[w].next <= Len(File(w).rows) + 1
       /\ \A n \in at[w].row..at[w].next - 1 :
            ToSet(File(w).rows[n].authors) \cup ToSet(File(w).rows[n].topics)
              \subseteq related \cup pending[w]
  /\ pc[w] \in {"publish", "done"} => at[w].row = Len(File(w).rows) + 1

LinksInv(w) ==
  /\ \A k \in DOMAIN work[w] : Links(work[w][k]) \subseteq related \cup pending[w]
  /\ \A k \in DOMAIN context[w] :
       context[w][k] \in Entry => Links(context[w][k]) \subseteq related \cup pending[w]
  /\ \A k \in DOMAIN session[w] : session[w][k] \in Entry => Links(session[w][k]) \subseteq related

VersionInv(w) ==
  /\ \A k \in DOMAIN work[w] :
       /\ AsParsed(k, work[w][k])
       /\ entries[k] # NoRow =>
            /\ Later(k, entries[k], work[w][k])
            /\ File(w).role = "curated" =>
                 work[w][k].title = entries[k].title /\ work[w][k].authors = entries[k].authors
  /\ \A k \in DOMAIN context[w] :
       context[w][k] \in Entry => Later(k, context[w][k], Visible(w, k))
  /\ \A k \in DOMAIN session[w] :
       session[w][k] \in Entry => Later(k, session[w][k], entries[k])

CountInv(w) ==
  /\ imported[w] \subseteq Stored \cup phantoms[w]
  /\ batch[w] \subseteq Stored \cup DOMAIN work[w] \cup phantoms[w]

\* Without an error all rows up to this one are in.
DoneInv(w) ==
  errors[w] = 0 =>
    /\ \A k \in DOMAIN context[w] : context[w][k] \in Entry
    /\ pc[w] # "failed" =>
         /\ \A i \in 1..at[w].file - 1 : \A r \in ToSet(Files[w][i].rows) :
              r.key \in events /\ Holds(Files[w][i].role, r, Visible(w, r.key))
         /\ \A n \in 1..at[w].row - 1 :
              /\ File(w).rows[n].key \in imported[w] \cup batch[w]
              /\ Holds(File(w).role, File(w).rows[n], Visible(w, File(w).rows[n].key))
    /\ pc[w] = "done" => at[w].file = Len(Files[w]) /\ imported[w] \subseteq events

WriterInv(w) ==
  TypeInv(w) /\ QuietInv(w) /\ BatchInv(w) /\ LinksInv(w) /\ VersionInv(w) /\ CountInv(w)
    /\ DoneInv(w)

IInv == Shape /\ StoredInv /\ LockInv /\ \A w \in Writers : WriterInv(w)

(***************************************************************************)
(* Rows and entries.                                                       *)
(***************************************************************************)

(* What the assumption says of the files and of the initial entries.        *)
LEMMA FileTypes ==
  /\ \A w \in Writers : Files[w] \in Seq([role : {"canonical", "curated"}, rows : Seq(Parsed)])
  /\ \A w \in Writers : Files[w] # << >>
  /\ \A w \in Writers : \A i \in DOMAIN Files[w] :
       Files[w][i].role \in {"canonical", "curated"} /\ Files[w][i].rows \in Seq(Parsed)
  /\ BatchSize \in Nat \ {0} /\ MaxFaults \in Nat /\ MaxRuns \in Nat /\ NoKey \notin Keys
  /\ NoRow # Expired /\ NoRow \notin Entry /\ Expired \notin Entry
  /\ \A k \in Keys : Initial[k] \in Entry \cup {NoRow}
<1>1. \A w \in Writers : Files[w] \in Seq([role : {"canonical", "curated"}, rows : Seq(Parsed)])
  BY IngestAssumption DEF IngestAssumption
<1>2. \A w \in Writers : \A i \in DOMAIN Files[w] :
        Files[w][i].role \in {"canonical", "curated"} /\ Files[w][i].rows \in Seq(Parsed)
  <2>. SUFFICES ASSUME NEW w \in Writers, NEW i \in DOMAIN Files[w]
                PROVE  Files[w][i].role \in {"canonical", "curated"} /\ Files[w][i].rows \in Seq(Parsed)
    OBVIOUS
  <2>1. Files[w][i] \in [role : {"canonical", "curated"}, rows : Seq(Parsed)]
    <3>. DEFINE S == [role : {"canonical", "curated"}, rows : Seq(Parsed)]
    <3>1. Files[w] \in Seq(S)
      BY <1>1
    <3>. HIDE DEF S
    <3>2. Files[w][i] \in S
      BY <3>1
    <3>. QED
      BY <3>2 DEF S
  <2>. QED
    BY <2>1
<1>3. \A k \in Keys : Initial[k] \in Entry \cup {NoRow}
  BY IngestAssumption DEF IngestAssumption
<1>. QED
  BY <1>1, <1>2, <1>3, IngestAssumption DEF IngestAssumption

(* A row of a file is among the sources of its entry.                       *)
LEMMA RowIsSource ==
  ASSUME NEW w \in Writers, NEW i \in DOMAIN Files[w], NEW r \in ToSet(Files[w][i].rows)
  PROVE  r \in Sources(r.key, Files[w][i].role) /\ r \in Mine(r.key) /\ r \in Parsed
<1>1. r \in Sources(r.key, Files[w][i].role)
  BY DEF Sources
<1>2. Files[w][i].role \in {"canonical", "curated"} /\ Files[w][i].rows \in Seq(Parsed)
  BY FileTypes
<1>3. r \in Parsed
  BY <1>2 DEF ToSet
<1>. QED
  BY <1>1, <1>2, <1>3 DEF Mine

(* What is said of an entry by its files is of its type.                    *)
LEMMA SourceTypes ==
  ASSUME NEW k
  PROVE  /\ \A role : \A r \in Sources(k, role) : r \in Parsed /\ r.key = k
         /\ \A r \in Mine(k) : r \in Parsed /\ ToSet(r.authors) \subseteq Named(k)
<1>1. \A role : \A r \in Sources(k, role) : r \in Parsed /\ r.key = k
  <2>. SUFFICES ASSUME NEW role, NEW r \in Sources(k, role) PROVE r \in Parsed /\ r.key = k
    OBVIOUS
  <2>1. PICK w \in Writers : \E i \in DOMAIN Files[w] : r \in ToSet(Files[w][i].rows)
    BY DEF Sources
  <2>2. PICK i \in DOMAIN Files[w] : r \in ToSet(Files[w][i].rows)
    BY <2>1
  <2>. QED
    BY <2>2, RowIsSource DEF Sources
<1>. QED
  BY <1>1 DEF Mine, Named

(* The parts of an entry and of a parsed row.                               *)
LEMMA Parts ==
  /\ \A e \in Entry : /\ e.title \in Titles /\ e.authors \subseteq Related
                      /\ e.topics \subseteq Related /\ Links(e) \subseteq Related
                      /\ e = [title |-> e.title, authors |-> e.authors, topics |-> e.topics]
  /\ \A t \in Titles, a \in SUBSET Related, p \in SUBSET Related :
       [title |-> t, authors |-> a, topics |-> p] \in Entry
  /\ \A r \in Parsed : /\ r.key \in Keys \cup {NoKey} /\ r.title \in Titles
                       /\ ToSet(r.authors) \subseteq Related /\ ToSet(r.topics) \subseteq Related
<1>1. \A r \in Parsed : /\ r.key \in Keys \cup {NoKey} /\ r.title \in Titles
                        /\ r.authors \in Seq(Related) /\ r.topics \in Seq(Related)
  BY DEF Parsed
<1>2. \A s \in Seq(Related) : ToSet(s) \subseteq Related
  BY DEF ToSet
<1>. QED
  BY <1>1, <1>2 DEF Entry, Links

(* A row makes a new entry.                                                 *)
LEMMA NewEntry ==
  ASSUME NEW r \in Parsed, NEW role \in {"canonical", "curated"}
  PROVE  Applied(r, NewRow, role, TRUE) =
           [title |-> r.title, authors |-> ToSet(r.authors),
            topics |-> IF role = "curated" THEN ToSet(r.topics) ELSE {}]
BY DEF Applied, ApplyEntryFields, RebuildAuthorLinks, SyncTopicLinks, NewRow

(* A row of a canonical file gives an entry its title and authors, one of a *)
(* curated file adds its topics.                                            *)
LEMMA KnownEntry ==
  ASSUME NEW r \in Parsed, NEW e \in Entry
  PROVE  /\ Applied(r, e, "canonical", FALSE) =
              [title |-> r.title, authors |-> ToSet(r.authors), topics |-> e.topics]
         /\ Applied(r, e, "curated", FALSE) =
              [title |-> e.title, authors |-> e.authors, topics |-> e.topics \cup ToSet(r.topics)]
<1>1. e = [title |-> e.title, authors |-> e.authors, topics |-> e.topics]
  BY Parts
<1>. DEFINE t == e.title  a == e.authors  p == e.topics
<1>. HIDE DEF t, a, p
<1>2. e = [title |-> t, authors |-> a, topics |-> p]
  BY <1>1 DEF t, a, p
<1>. QED
  BY <1>2 DEF Applied, ApplyEntryFields, RebuildAuthorLinks, SyncTopicLinks

(* Versions are ordered.                                                    *)
LEMMA LaterOrder ==
  ASSUME NEW k
  PROVE  /\ \A e \in Entry : Later(k, e, e)
         /\ \A a, b, c : Later(k, a, b) /\ Later(k, b, c) => Later(k, a, c)
BY DEF Later

(* What a row is in, it is in the later versions of.                        *)
LEMMA HoldsLater ==
  ASSUME NEW role, NEW r, NEW a, NEW b, Holds(role, r, a), Later(r.key, a, b)
  PROVE  Holds(role, r, b)
BY DEF Holds, Later

(* A canonical row written over what the session shows: the entry has all   *)
(* of the row's authors, of those no file names none, and the row's title   *)
(* unless it had a canonical one and the session showed the row's.          *)
LEMMA CanonicalVersion ==
  ASSUME NEW k \in Keys, NEW r \in Sources(k, "canonical"), NEW old \in Entry, NEW stored \in Entry,
         Later(k, old, stored), AsParsed(k, stored), NEW new, NEW fl,
         new = Applied(r, old, "canonical", FALSE), fl = Flushed(stored, old, new),
         Kept("canonical", old, new) \subseteq stored.authors
  PROVE  Outcome(k, "canonical", r, old, stored, new, fl)
<1>1. r \in Parsed /\ r.key = k /\ r \in Mine(k) /\ ToSet(r.authors) \subseteq Named(k)
  BY SourceTypes DEF Mine
<1>2. r.title \in Titles /\ r.title \in Canon(k) /\ ToSet(r.authors) \subseteq Related
  BY <1>1, Parts DEF Canon
<1>3. /\ new = [title |-> r.title, authors |-> ToSet(r.authors), topics |-> old.topics]
      /\ new.title = r.title /\ new.authors = ToSet(r.authors) /\ new.topics = old.topics
  <2>1. new = [title |-> r.title, authors |-> ToSet(r.authors), topics |-> old.topics]
    BY <1>1, KnownEntry
  <2>. QED
    BY ONLY <2>1
<1>4. /\ fl.title = IF r.title # old.title THEN r.title ELSE stored.title
      /\ fl.authors = (stored.authors \ (old.authors \ new.authors)) \cup (new.authors \ old.authors)
      /\ fl.topics = stored.topics
      /\ fl = [title |-> fl.title, authors |-> fl.authors, topics |-> fl.topics]
  BY <1>3 DEF Flushed
<1>5. /\ old.topics \subseteq Related /\ stored.topics \subseteq Related
      /\ stored.authors \subseteq Related /\ stored.title \in Titles
  BY Parts
<1>6. new \in Entry
  BY <1>2, <1>3, <1>5, Parts
<1>7. fl.title \in Canon(k) /\ fl.title \in Titles
  BY <1>2, <1>4, <1>5 DEF Later
<1>8. fl.authors \subseteq Related
  BY <1>2, <1>3, <1>4, <1>5
<1>9. fl \in Entry
  <2>1. [title |-> fl.title, authors |-> fl.authors, topics |-> fl.topics] \in Entry
    BY <1>4, <1>5, <1>7, <1>8, Parts
  <2>. QED
    BY <1>4, <2>1
<1>10. fl.authors \cap Forgotten(k) = {}
  <2>1. stored.authors \cap Forgotten(k) \subseteq old.authors
    BY DEF Later
  <2>2. new.authors \cap Forgotten(k) = {}
    BY <1>1, <1>3 DEF Forgotten
  <2>. QED
    BY <1>4, <2>1, <2>2
<1>11. new.authors \subseteq fl.authors
  BY <1>4 DEF Kept
<1>12. fl.authors \subseteq Named(k)
  <2>1. stored.authors \subseteq Named(k) \cup Forgotten(k)
    BY DEF AsParsed, Forgotten
  <2>. QED
    BY <1>1, <1>3, <1>4, <1>10, <2>1
<1>13. AsParsed(k, fl)
  <2>1. \E s \in Mine(k) : fl.title = s.title
    BY <1>7 DEF Canon, Mine
  <2>. QED
    BY <1>1, <1>3, <1>11, <1>12, <2>1 DEF AsParsed
<1>14. Later(k, stored, fl) /\ Later(k, new, fl)
  <2>1. old.topics \subseteq stored.topics
    BY DEF Later
  <2>. QED
    BY <1>3, <1>4, <1>7, <1>9, <1>10, <2>1 DEF Later
<1>15. Holds("canonical", r, fl)
  BY <1>1, <1>7, <1>9 DEF Holds
<1>. QED
  BY <1>3, <1>4, <1>6, <1>13, <1>14, <1>15 DEF Links, Outcome

(* A curated row: only topics, and those of the row are in.                 *)
LEMMA CuratedVersion ==
  ASSUME NEW k \in Keys, NEW r \in Sources(k, "curated"), NEW old \in Entry, NEW stored \in Entry,
         Later(k, old, stored), AsParsed(k, stored), NEW new, NEW fl,
         new = Applied(r, old, "curated", FALSE), fl = Flushed(stored, old, new)
  PROVE  Outcome(k, "curated", r, old, stored, new, fl)
<1>1. r \in Parsed /\ r.key = k
  BY SourceTypes
<1>2. ToSet(r.topics) \subseteq Related
  BY <1>1, Parts
<1>3. /\ new = [title |-> old.title, authors |-> old.authors,
                topics |-> old.topics \cup ToSet(r.topics)]
      /\ new.title = old.title /\ new.authors = old.authors
      /\ new.topics = old.topics \cup ToSet(r.topics)
  <2>1. new = [title |-> old.title, authors |-> old.authors,
               topics |-> old.topics \cup ToSet(r.topics)]
    BY <1>1, KnownEntry
  <2>. QED
    BY ONLY <2>1
<1>4. /\ fl.title = stored.title
      /\ fl.authors = stored.authors
      /\ fl.topics = stored.topics \cup (ToSet(r.topics) \ old.topics)
      /\ fl = [title |-> fl.title, authors |-> fl.authors, topics |-> fl.topics]
  BY <1>3 DEF Flushed
<1>5. /\ old.topics \subseteq Related /\ stored.topics \subseteq Related
      /\ stored.authors \subseteq Related /\ stored.title \in Titles
      /\ old.authors \subseteq Related /\ old.title \in Titles
  BY Parts
<1>6. new \in Entry
  <2>1. old.topics \cup ToSet(r.topics) \subseteq Related
    BY <1>2, <1>5
  <2>2. [title |-> old.title, authors |-> old.authors,
         topics |-> old.topics \cup ToSet(r.topics)] \in Entry
    BY <1>5, <2>1, Parts
  <2>. QED
    BY <1>3, <2>2
<1>7. fl \in Entry
  <2>1. [title |-> fl.title, authors |-> fl.authors, topics |-> fl.topics] \in Entry
    <3>1. fl.topics \subseteq Related
      BY <1>2, <1>4, <1>5
    <3>. QED
      BY <1>4, <1>5, <3>1, Parts
  <2>. QED
    BY <1>4, <2>1
<1>8. old.topics \subseteq stored.topics
  BY DEF Later
<1>9. Later(k, stored, fl) /\ Later(k, new, fl)
  BY <1>3, <1>4, <1>7, <1>8 DEF Later
<1>10. AsParsed(k, fl)
  BY <1>4 DEF AsParsed
<1>11. Holds("curated", r, fl)
  BY <1>4, <1>7, <1>8 DEF Holds
<1>. QED
  BY <1>3, <1>4, <1>6, <1>9, <1>10, <1>11 DEF Links, Outcome

(* A row that changes nothing the session shows is in what is stored.       *)
LEMMA NothingToWrite ==
  ASSUME NEW k \in Keys, NEW role \in {"canonical", "curated"}, NEW r \in Sources(k, role),
         NEW old \in Entry, NEW stored, Later(k, old, stored), Applied(r, old, role, FALSE) = old
  PROVE  Holds(role, r, stored)
<1>1. r \in Parsed /\ r.key = k
  BY SourceTypes
<1>2. CASE role = "canonical"
  <2>1. old.title = r.title
    <3>1. old = [title |-> r.title, authors |-> ToSet(r.authors), topics |-> old.topics]
      BY <1>1, <1>2, KnownEntry
    <3>. QED
      BY <3>1
  <2>2. r.title \in Canon(k)
    BY <1>2 DEF Canon
  <2>. QED
    BY <1>1, <1>2, <2>1, <2>2 DEF Holds, Later
<1>3. CASE role = "curated"
  <2>1. ToSet(r.topics) \subseteq old.topics
    <3>1. old = [title |-> old.title, authors |-> old.authors,
                 topics |-> old.topics \cup ToSet(r.topics)]
      BY <1>1, <1>3, KnownEntry
    <3>2. old.topics = old.topics \cup ToSet(r.topics)
      BY <3>1
    <3>. QED
      BY <3>2
  <2>. QED
    BY <1>3, <2>1 DEF Holds, Later
<1>. QED
  BY <1>2, <1>3

(* A new entry is what its row says.                                        *)
LEMMA NewVersion ==
  ASSUME NEW k \in Keys, NEW role \in {"canonical", "curated"}, NEW r \in Sources(k, role),
         NEW new, new = Applied(r, NewRow, role, TRUE)
  PROVE  /\ new \in Entry /\ AsParsed(k, new) /\ Holds(role, r, new)
         /\ Links(new) \subseteq ToSet(r.authors) \cup ToSet(r.topics)
<1>1. r \in Parsed /\ r.key = k /\ r \in Mine(k) /\ ToSet(r.authors) \subseteq Named(k)
  BY SourceTypes DEF Mine
<1>2. /\ new.title = r.title /\ new.authors = ToSet(r.authors)
      /\ new.topics = IF role = "curated" THEN ToSet(r.topics) ELSE {}
      /\ new = [title |-> new.title, authors |-> new.authors, topics |-> new.topics]
  <2>1. new = [title |-> r.title, authors |-> ToSet(r.authors),
               topics |-> IF role = "curated" THEN ToSet(r.topics) ELSE {}]
    BY <1>1, NewEntry
  <2>. QED
    BY ONLY <2>1
<1>3. /\ new.title \in Titles /\ new.authors \subseteq Related /\ new.topics \subseteq Related
  BY <1>1, <1>2, Parts
<1>4. new \in Entry
  <2>1. [title |-> new.title, authors |-> new.authors, topics |-> new.topics] \in Entry
    BY <1>3, Parts
  <2>. QED
    BY <1>2, <2>1
<1>5. AsParsed(k, new)
  BY <1>1, <1>2 DEF AsParsed
<1>6. Holds(role, r, new)
  <2>1. role = "canonical" => new.title \in Canon(k)
    BY <1>2 DEF Canon
  <2>. QED
    BY <1>1, <1>2, <1>4, <2>1 DEF Holds
<1>. QED
  BY <1>2, <1>4, <1>5, <1>6 DEF Links

(***************************************************************************)
(* Steps of the other writers.                                             *)
(***************************************************************************)
Action(w) == Start(w) \/ WriterStep(w) \/ CommitFails(w) \/ Crash(w)

Same(w) ==
  /\ pc'[w] = pc[w] /\ at'[w] = at[w] /\ needs'[w] = needs[w] /\ pending'[w] = pending[w]
  /\ work'[w] = work[w] /\ context'[w] = context[w] /\ session'[w] = session[w]
  /\ batch'[w] = batch[w] /\ imported'[w] = imported[w] /\ phantoms'[w] = phantoms[w]
  /\ errors'[w] = errors[w] /\ runs'[w] = runs[w]

(* A writer's step leaves the variables of the others alone.                *)
LEMMA OthersSame ==
  ASSUME Shape, NEW v \in Writers, Action(v)
  PROVE  \A w \in Writers \ {v} : Same(w)
<1>. USE DEF Shape, Same
<1>1. CASE Start(v)
  BY <1>1 DEF Start
<1>2. CASE BeginBatch(v) \/ LoadTopics(v)
  BY <1>2 DEF BeginBatch, LoadTopics
<1>3. CASE InsertRelated(v)
  BY <1>3 DEF InsertRelated, Raise, Dropped
<1>4. CASE LoadEntries(v)
  BY <1>4 DEF LoadEntries
<1>5. CASE SkipRow(v)
  BY <1>5 DEF SkipRow, Advance
<1>6. ASSUME NEW k, Failed(v, k) PROVE \A w \in Writers \ {v} : Same(w)
  BY <1>6 DEF Failed, Advance
<1>7. ASSUME NEW k, NEW e, NEW s, Written(v, k, e, s), UNCHANGED phantoms
      PROVE  \A w \in Writers \ {v} : Same(w)
  BY <1>7 DEF Written, Advance
<1>8. CASE CreateEntry(v)
  BY <1>6, <1>7, <1>8 DEF CreateEntry
<1>9. CASE UpdateEntry(v)
  BY <1>6, <1>7, <1>9 DEF UpdateEntry
<1>10. CASE RepeatEntry(v)
  <2>1. CASE context[v][Row(v).key] = Expired
    BY <1>6, <1>10, <2>1 DEF RepeatEntry
  <2>2. CASE context[v][Row(v).key] # Expired
    BY <1>10, <2>2 DEF RepeatEntry, Written, Advance
  <2>. QED
    BY <2>1, <2>2
<1>11. CASE Commit(v)
  BY <1>11 DEF Commit, Dropped
<1>12. CASE Publish(v)
  BY <1>12 DEF Publish, Raise, Dropped
<1>13. CASE Deadlock(v)
  <2>1. CASE pc[v] = "rows"
    BY <1>6, <1>13, <2>1 DEF Deadlock
  <2>2. CASE pc[v] # "rows"
    BY <1>13, <2>2 DEF Deadlock, Raise, Dropped
  <2>. QED
    BY <2>1, <2>2
<1>14. CASE CommitFails(v)
  BY <1>14 DEF CommitFails, Dropped
<1>15. CASE Crash(v)
  BY <1>15 DEF Crash, Raise, Dropped
<1>. QED
  BY <1>1, <1>2, <1>3, <1>4, <1>5, <1>8, <1>9, <1>10, <1>11, <1>12, <1>13, <1>14, <1>15
  DEF Action, WriterStep

(* The tables as a step may leave them to a writer that has written the     *)
(* entries of `mine`: rows and names stay, entries come in later versions.  *)
Grown(mine) ==
  /\ related \subseteq related' /\ events \subseteq events'
  /\ \A k \in Keys : entries'[k] \in Entry \cup {NoRow}
  /\ \A k \in Keys : entries[k] # NoRow => Later(k, entries[k], entries'[k])
  /\ \A k \in mine : entries'[k] = entries[k]

(* What a writer knows stays true while the others write.                   *)
LEMMA OthersKept ==
  ASSUME NEW w \in Writers, WriterInv(w), StoredInv, Same(w), Grown(DOMAIN work[w])
  PROVE  WriterInv(w)'
<1>. USE DEF WriterInv
<1>1. TypeInv(w)'
  BY DEF TypeInv, Same, File
<1>2. QuietInv(w)'
  BY DEF QuietInv, Same
<1>3. BatchInv(w)'
  <2>1. File(w)' = File(w) /\ AuthorsOf(w)' = AuthorsOf(w) /\ TopicsOf(w)' = TopicsOf(w)
    BY DEF Same, File, AuthorsOf, TopicsOf, Batch
  <2>. QED
    BY <2>1 DEF BatchInv, Same, Grown
<1>4. LinksInv(w)'
  BY DEF LinksInv, Same, Grown
<1>5. DOMAIN work[w] \subseteq Keys /\ DOMAIN context[w] \subseteq Keys /\ DOMAIN session[w] \subseteq Keys
  BY DEF TypeInv
<1>6. \A k \in Keys : Visible(w, k) \in Entry => Later(k, Visible(w, k), Visible(w, k)')
  <2>. SUFFICES ASSUME NEW k \in Keys, Visible(w, k) \in Entry
                PROVE  Later(k, Visible(w, k), Visible(w, k)')
    OBVIOUS
  <2>1. CASE k \in DOMAIN work[w]
    BY <2>1, LaterOrder DEF Visible, Same
  <2>2. CASE k \notin DOMAIN work[w]
    BY <2>2, FileTypes DEF Visible, Same, Grown
  <2>. QED
    BY <2>1, <2>2
<1>7. VersionInv(w)'
  <2>1. \A k \in DOMAIN work'[w] :
          /\ AsParsed(k, work'[w][k])
          /\ entries'[k] # NoRow =>
               /\ Later(k, entries'[k], work'[w][k])
               /\ File(w)'.role = "curated" =>
                    work'[w][k].title = entries'[k].title /\ work'[w][k].authors = entries'[k].authors
    BY DEF VersionInv, Same, Grown, File
  <2>2. ASSUME NEW k \in DOMAIN context'[w], context'[w][k] \in Entry
        PROVE  Later(k, context'[w][k], Visible(w, k)')
    <3>1. Later(k, context'[w][k], Visible(w, k)) /\ Visible(w, k) \in Entry /\ k \in Keys
      BY <1>5, <2>2 DEF VersionInv, Same, Later
    <3>. QED
      BY <1>6, <3>1, LaterOrder
  <2>3. ASSUME NEW k \in DOMAIN session'[w], session'[w][k] \in Entry
        PROVE  Later(k, session'[w][k], entries'[k])
    <3>1. Later(k, session'[w][k], entries[k]) /\ entries[k] \in Entry /\ k \in Keys
      BY <1>5, <2>3 DEF VersionInv, Same, Later
    <3>2. Later(k, entries[k], entries'[k])
      BY <3>1, FileTypes DEF Grown
    <3>. QED
      BY <3>1, <3>2, LaterOrder
  <2>. QED
    BY <2>1, <2>2, <2>3 DEF VersionInv
<1>8. CountInv(w)'
  <2>1. Stored \subseteq Stored'
    BY FileTypes DEF Stored, Grown, Later
  <2>. QED
    BY <2>1 DEF CountInv, Same
<1>9. DoneInv(w)'
  <2>1. \A role, r : r.key \in Keys /\ Holds(role, r, Visible(w, r.key)) => Holds(role, r, Visible(w, r.key)')
    BY <1>6, HoldsLater DEF Holds
  <2>. SUFFICES ASSUME errors[w] = 0 PROVE DoneInv(w)'
    BY DEF DoneInv, Same
  <2>2. \A k \in DOMAIN context'[w] : context'[w][k] \in Entry
    BY DEF DoneInv, Same
  <2>3. ASSUME pc[w] # "failed", NEW i \in 1..at[w].file - 1, NEW r \in ToSet(Files[w][i].rows)
        PROVE  r.key \in events' /\ Holds(Files[w][i].role, r, Visible(w, r.key)')
    <3>1. r.key \in events /\ Holds(Files[w][i].role, r, Visible(w, r.key))
      BY <2>3 DEF DoneInv
    <3>2. r.key \in Keys
      BY <3>1 DEF StoredInv
    <3>. QED
      BY <2>1, <3>1, <3>2 DEF Grown
  <2>4. ASSUME pc[w] # "failed", NEW n \in 1..at[w].row - 1
        PROVE  /\ File(w).rows[n].key \in imported'[w] \cup batch'[w]
               /\ Holds(File(w).role, File(w).rows[n], Visible(w, File(w).rows[n].key)')
    <3>1. /\ File(w).rows[n].key \in imported[w] \cup batch[w]
          /\ Holds(File(w).role, File(w).rows[n], Visible(w, File(w).rows[n].key))
      BY <2>4 DEF DoneInv
    <3>2. File(w).rows[n].key \in Keys
      BY <3>1 DEF TypeInv
    <3>3. ASSUME NEW r, r = File(w).rows[n] PROVE Holds(File(w).role, r, Visible(w, r.key)')
      BY <2>1, <3>1, <3>2, <3>3
    <3>4. File(w)' = File(w)
      BY DEF File, Same
    <3>. QED
      BY <3>1, <3>3, <3>4 DEF Same
  <2>5. pc[w] = "done" => at'[w].file = Len(Files[w]) /\ imported'[w] \subseteq events'
    BY DEF DoneInv, Same, Grown
  <2>6. File(w)' = File(w) /\ at'[w] = at[w] /\ pc'[w] = pc[w]
    BY DEF File, Same
  <2>. QED
    BY <2>2, <2>3, <2>4, <2>5, <2>6 DEF DoneInv
<1>. QED
  BY <1>1, <1>2, <1>3, <1>4, <1>7, <1>8, <1>9

(***************************************************************************)
(* A writer's own rows.                                                    *)
(***************************************************************************)

(* The row a writer is at: its names were inserted with its batch.          *)
LEMMA RowFacts ==
  ASSUME NEW w \in Writers, WriterInv(w), NextRow(w)
  PROVE  /\ at[w].row \in 1..Len(File(w).rows) /\ Row(w) \in Parsed
         /\ File(w).role \in {"canonical", "curated"}
         /\ Row(w) \in Sources(Row(w).key, File(w).role)
         /\ ToSet(Row(w).authors) \cup ToSet(Row(w).topics) \subseteq related \cup pending[w]
<1>1. /\ at[w].file \in DOMAIN Files[w] /\ at[w].row \in Nat /\ at[w].next \in Nat /\ at[w].row >= 1
      /\ pc[w] = "rows" /\ at[w].row < at[w].next
  BY DEF WriterInv, TypeInv, NextRow
<1>2. File(w).role \in {"canonical", "curated"} /\ File(w).rows \in Seq(Parsed)
  BY <1>1, FileTypes DEF File
<1>3. at[w].next <= Len(File(w).rows) + 1
  BY <1>1 DEF WriterInv, BatchInv
<1>4. at[w].row \in 1..Len(File(w).rows)
  BY <1>1, <1>2, <1>3
<1>5. Row(w) \in ToSet(File(w).rows) /\ Row(w) \in Parsed
  BY <1>2, <1>4 DEF Row, ToSet
<1>6. Row(w) \in Sources(Row(w).key, File(w).role)
  BY <1>1, <1>5, RowIsSource DEF File
<1>7. ToSet(Row(w).authors) \cup ToSet(Row(w).topics) \subseteq related \cup pending[w]
  <2>1. at[w].row \in at[w].row..at[w].next - 1
    BY <1>1
  <2>. QED
    BY <1>1, <2>1 DEF WriterInv, BatchInv, Row
<1>. QED
  BY <1>2, <1>4, <1>5, <1>6, <1>7

(* The writer goes on to the next row.                                      *)
LEMMA Advanced ==
  ASSUME Shape, NEW w \in Writers, WriterInv(w), NextRow(w), Advance(w),
         UNCHANGED <<related, pc, pending, needs>>
  PROVE  /\ at'[w] \in [file : Nat, row : Nat, next : Nat]
         /\ at'[w].file = at[w].file /\ at'[w].row = at[w].row + 1 /\ at'[w].next = at[w].next
         /\ at'[w].row \in 1..Len(File(w).rows) + 1 /\ File(w)' = File(w)
         /\ BatchInv(w)' /\ QuietInv(w) /\ pc[w] = "rows"
<1>1. at[w].row \in 1..Len(File(w).rows) /\ File(w).rows \in Seq(Parsed) /\ pc[w] = "rows"
  BY RowFacts, FileTypes DEF WriterInv, TypeInv, NextRow, File
<1>2. at[w] \in [file : Nat, row : Nat, next : Nat] /\ at' = [at EXCEPT ![w].row = @ + 1]
  BY DEF WriterInv, TypeInv, Advance
<1>3. /\ at'[w].file = at[w].file /\ at'[w].row = at[w].row + 1 /\ at'[w].next = at[w].next
      /\ at'[w] \in [file : Nat, row : Nat, next : Nat]
  BY <1>2 DEF Shape
<1>4. File(w)' = File(w)
  BY <1>3 DEF File
<1>5. /\ at[w].row + 1 <= at[w].next /\ at[w].next <= Len(File(w).rows) + 1
      /\ \A n \in at[w].row..at[w].next - 1 :
           ToSet(File(w).rows[n].authors) \cup ToSet(File(w).rows[n].topics)
             \subseteq related \cup pending[w]
  BY <1>1, <1>2 DEF WriterInv, BatchInv, NextRow
<1>6. \A n \in at[w].row + 1..at[w].next - 1 : n \in at[w].row..at[w].next - 1
  BY <1>2
<1>7. BatchInv(w)'
  BY <1>1, <1>3, <1>4, <1>5, <1>6 DEF BatchInv
<1>8. at'[w].row \in 1..Len(File(w).rows) + 1
  BY <1>1, <1>3
<1>. QED
  BY <1>1, <1>3, <1>4, <1>7, <1>8 DEF WriterInv

(* A row that fails: what the session shows of its entry is gone.           *)
LEMMA RowFailed ==
  ASSUME Shape, StoredInv, NEW w \in Writers, WriterInv(w), NextRow(w), NEW k \in Keys, Failed(w, k)
  PROVE  WriterInv(w)'
<1>1. /\ errors'[w] = errors[w] + 1
      /\ context'[w] = [j \in DOMAIN context[w] \cup {k} |->
                          IF j # k THEN context[w][j]
                          ELSE IF k \in DOMAIN context[w] /\ context[w][k] # NoRow THEN Expired ELSE NoRow]
      /\ Advance(w)
      /\ UNCHANGED <<entries, related, events, pc, needs, pending, work, session, batch,
                     imported, phantoms, runs>>
  BY DEF Failed, Shape
<1>2. /\ at'[w] \in [file : Nat, row : Nat, next : Nat] /\ at'[w].file = at[w].file
      /\ at'[w].row \in 1..Len(File(w).rows) + 1 /\ File(w)' = File(w) /\ BatchInv(w)' /\ pc[w] = "rows"
  BY <1>1, Advanced
<1>3. DOMAIN context'[w] = DOMAIN context[w] \cup {k}
  BY <1>1
<1>4. \A j \in DOMAIN context'[w] : (context'[w][j] = context[w][j] /\ j \in DOMAIN context[w])
                                      \/ context'[w][j] \in {NoRow, Expired}
  BY <1>1
<1>5. errors'[w] \in Nat \ {0}
  BY <1>1 DEF WriterInv, TypeInv
<1>6. TypeInv(w)'
  BY <1>1, <1>2, <1>3, <1>4, <1>5 DEF WriterInv, TypeInv
<1>7. QuietInv(w)'
  BY <1>1, <1>2 DEF QuietInv
<1>8. LinksInv(w)'
  BY <1>1, <1>4, FileTypes DEF WriterInv, LinksInv
<1>9. VersionInv(w)'
  <2>1. \A j : Visible(w, j)' = Visible(w, j)
    BY <1>1 DEF Visible
  <2>. QED
    BY <1>1, <1>2, <1>4, <2>1, FileTypes DEF WriterInv, VersionInv
<1>10. CountInv(w)'
  BY <1>1 DEF WriterInv, CountInv, Stored
<1>11. DoneInv(w)'
  BY <1>5 DEF DoneInv
<1>. QED
  BY <1>2, <1>6, <1>7, <1>8, <1>9, <1>10, <1>11 DEF WriterInv

(* A row without a key is an error, too.                                    *)
LEMMA RowSkipped ==
  ASSUME Shape, StoredInv, NEW w \in Writers, WriterInv(w), SkipRow(w)
  PROVE  WriterInv(w)'
<1>1. /\ NextRow(w) /\ errors'[w] = errors[w] + 1 /\ Advance(w)
      /\ UNCHANGED <<entries, related, events, pc, needs, pending, work, context, session, batch,
                     imported, phantoms, runs>>
  BY DEF SkipRow, Shape
<1>2. /\ at'[w] \in [file : Nat, row : Nat, next : Nat] /\ at'[w].file = at[w].file
      /\ at'[w].row \in 1..Len(File(w).rows) + 1 /\ File(w)' = File(w) /\ BatchInv(w)' /\ pc[w] = "rows"
  BY <1>1, Advanced
<1>3. errors'[w] \in Nat \ {0}
  BY <1>1 DEF WriterInv, TypeInv
<1>4. TypeInv(w)'
  BY <1>1, <1>2, <1>3 DEF WriterInv, TypeInv
<1>5. QuietInv(w)' /\ LinksInv(w)' /\ CountInv(w)'
  BY <1>1 DEF WriterInv, QuietInv, LinksInv, CountInv, Stored
<1>6. VersionInv(w)'
  BY <1>1, <1>2 DEF WriterInv, VersionInv, Visible
<1>7. DoneInv(w)'
  BY <1>3 DEF DoneInv
<1>. QED
  BY <1>2, <1>4, <1>5, <1>6, <1>7 DEF WriterInv

(* A row that is written, or needs not be: what is stored of its entry is   *)
(* from then on a later version of what the session shows.                  *)
LEMMA RowWritten ==
  ASSUME Shape, StoredInv, NEW w \in Writers, WriterInv(w), NextRow(w),
         NEW k \in Keys, Row(w).key = k, NEW seen \in Entry \cup {NoRow}, NEW stored,
         Written(w, k, seen, stored),
         phantoms[w] \subseteq phantoms'[w], phantoms'[w] \subseteq Keys,
         NEW shown, shown = IF stored = NoRow THEN Visible(w, k) ELSE stored,
         stored # NoRow =>
           /\ stored \in Entry /\ AsParsed(k, stored) /\ Links(stored) \subseteq related \cup pending[w]
           /\ Visible(w, k) # NoRow =>
                /\ Later(k, Visible(w, k), stored)
                /\ File(w).role = "curated" =>
                     stored.title = Visible(w, k).title /\ stored.authors = Visible(w, k).authors,
         seen \in Entry => /\ Links(seen) \subseteq related \cup pending[w]
                           /\ Later(k, seen, shown) /\ Holds(File(w).role, Row(w), shown),
         seen = NoRow => errors[w] > 0 /\ stored = NoRow /\ k \in phantoms'[w]
  PROVE  WriterInv(w)'
<1>1. /\ context'[w] = [j \in DOMAIN context[w] \cup {k} |-> IF j = k THEN seen ELSE context[w][j]]
      /\ work'[w] = IF stored = NoRow THEN work[w]
                    ELSE [j \in DOMAIN work[w] \cup {k} |-> IF j = k THEN stored ELSE work[w][j]]
      /\ batch'[w] = batch[w] \cup {k}
      /\ Advance(w)
      /\ UNCHANGED <<entries, related, events, pc, needs, pending, session, imported, errors, runs>>
  BY DEF Written, Shape
<1>2. /\ at'[w] \in [file : Nat, row : Nat, next : Nat] /\ at'[w].file = at[w].file
      /\ at'[w].row = at[w].row + 1
      /\ at'[w].row \in 1..Len(File(w).rows) + 1 /\ File(w)' = File(w) /\ BatchInv(w)' /\ pc[w] = "rows"
  BY <1>1, Advanced
<1>3. /\ DOMAIN context'[w] = DOMAIN context[w] \cup {k} /\ context'[w][k] = seen
      /\ \A j \in DOMAIN context[w] \ {k} : context'[w][j] = context[w][j]
  BY <1>1
<1>4. /\ DOMAIN work'[w] = DOMAIN work[w] \cup (IF stored = NoRow THEN {} ELSE {k})
      /\ stored # NoRow => work'[w][k] = stored
      /\ \A j \in DOMAIN work[w] : j # k \/ stored = NoRow => work'[w][j] = work[w][j]
  BY <1>1
<1>5. TypeInv(w)'
  <2>1. IsFiniteSet(batch'[w])
    <3>1. IsFiniteSet(batch[w])
      BY DEF WriterInv, TypeInv
    <3>2. IsFiniteSet(batch[w] \cup {k})
      BY <3>1, FS_AddElement
    <3>. QED
      BY <1>1, <3>2
  <2>2. DOMAIN work'[w] \subseteq batch'[w] /\ batch'[w] \subseteq DOMAIN context'[w]
    BY <1>1, <1>3, <1>4 DEF WriterInv, TypeInv
  <2>3. \A j \in DOMAIN work'[w] : work'[w][j] \in Entry
    BY <1>4 DEF WriterInv, TypeInv
  <2>4. \A j \in DOMAIN context'[w] : context'[w][j] \in Entry \cup {NoRow, Expired}
    BY <1>3 DEF WriterInv, TypeInv
  <2>5. DOMAIN context'[w] \subseteq Keys
    BY <1>3 DEF WriterInv, TypeInv
  <2>. QED
    BY <1>1, <1>2, <2>1, <2>2, <2>3, <2>4, <2>5 DEF WriterInv, TypeInv
<1>6. QuietInv(w)'
  BY <1>1, <1>2 DEF QuietInv
<1>7. LinksInv(w)'
  <2>1. \A j \in DOMAIN work'[w] : Links(work'[w][j]) \subseteq related \cup pending[w]
    BY <1>4 DEF WriterInv, LinksInv
  <2>2. \A j \in DOMAIN context'[w] :
          context'[w][j] \in Entry => Links(context'[w][j]) \subseteq related \cup pending[w]
    BY <1>3 DEF WriterInv, LinksInv
  <2>. QED
    BY <1>1, <2>1, <2>2 DEF WriterInv, LinksInv
<1>8. Visible(w, k)' = shown /\ \A j : j # k => Visible(w, j)' = Visible(w, j)
  BY <1>1, <1>4 DEF Visible
<1>9. \A j \in Keys : Visible(w, j) \in Entry => Later(j, Visible(w, j), Visible(w, j)')
  <2>1. Visible(w, k) \in Entry => Later(k, Visible(w, k), shown)
    BY FileTypes, LaterOrder
  <2>2. ASSUME NEW j \in Keys, j # k, Visible(w, j) \in Entry PROVE Later(j, Visible(w, j), Visible(w, j)')
    BY <1>8, <2>2, LaterOrder
  <2>. QED
    BY <1>8, <2>1, <2>2
<1>10. VersionInv(w)'
  <2>1. ASSUME NEW j \in DOMAIN work'[w]
        PROVE  /\ AsParsed(j, work'[w][j])
               /\ entries[j] # NoRow =>
                    /\ Later(j, entries[j], work'[w][j])
                    /\ File(w).role = "curated" =>
                         work'[w][j].title = entries[j].title /\ work'[w][j].authors = entries[j].authors
    <3>1. CASE j # k \/ stored = NoRow
      BY <1>4, <2>1, <3>1 DEF WriterInv, VersionInv
    <3>2. CASE j = k /\ stored # NoRow /\ k \in DOMAIN work[w]
      <4>1. Visible(w, k) = work[w][k] /\ work[w][k] \in Entry
        BY <3>2 DEF Visible, WriterInv, TypeInv
      <4>2. entries[k] # NoRow =>
              /\ Later(k, entries[k], work[w][k])
              /\ File(w).role = "curated" =>
                   work[w][k].title = entries[k].title /\ work[w][k].authors = entries[k].authors
        BY <3>2 DEF WriterInv, VersionInv
      <4>3. /\ Later(k, work[w][k], stored) /\ AsParsed(k, stored) /\ work'[w][k] = stored
            /\ File(w).role = "curated" =>
                 stored.title = work[w][k].title /\ stored.authors = work[w][k].authors
        BY <1>4, <3>2, <4>1, FileTypes
      <4>4. entries[k] # NoRow => Later(k, entries[k], stored)
        BY <4>2, <4>3, LaterOrder
      <4>. QED
        BY <3>2, <4>2, <4>3, <4>4
    <3>3. CASE j = k /\ stored # NoRow /\ k \notin DOMAIN work[w]
      BY <1>4, <3>3 DEF Visible
    <3>. QED
      BY <3>1, <3>2, <3>3
  <2>2. ASSUME NEW j \in DOMAIN context'[w], context'[w][j] \in Entry
        PROVE  Later(j, context'[w][j], Visible(w, j)')
    <3>1. CASE j = k
      BY <1>3, <1>8, <2>2, <3>1
    <3>2. CASE j # k
      BY <1>3, <1>8, <2>2, <3>2 DEF WriterInv, VersionInv
    <3>. QED
      BY <3>1, <3>2
  <2>. QED
    BY <1>1, <1>2, <2>1, <2>2 DEF WriterInv, VersionInv
<1>11. CountInv(w)'
  <2>1. seen \in Entry => k \in Stored \cup DOMAIN work'[w]
    BY <1>4, FileTypes DEF Later, Visible, Stored
  <2>2. Stored' = Stored
    BY <1>1 DEF Stored
  <2>3. batch'[w] \subseteq Stored \cup DOMAIN work'[w] \cup phantoms'[w]
    BY <1>1, <1>4, <2>1 DEF WriterInv, CountInv
  <2>4. imported'[w] \subseteq Stored \cup phantoms'[w]
    BY <1>1 DEF WriterInv, CountInv
  <2>. QED
    BY <2>2, <2>3, <2>4 DEF CountInv
<1>12. DoneInv(w)'
  <2>. SUFFICES ASSUME errors[w] = 0 PROVE DoneInv(w)'
    BY <1>1 DEF DoneInv
  <2>1. seen \in Entry
    OBVIOUS
  <2>2. \A j \in DOMAIN context'[w] : context'[w][j] \in Entry
    BY <1>3, <2>1 DEF WriterInv, DoneInv
  <2>3. \A role, r : r.key \in Keys /\ Holds(role, r, Visible(w, r.key)) => Holds(role, r, Visible(w, r.key)')
    BY <1>9, HoldsLater DEF Holds
  <2>4. ASSUME NEW i \in 1..at[w].file - 1, NEW r \in ToSet(Files[w][i].rows)
        PROVE  r.key \in events /\ Holds(Files[w][i].role, r, Visible(w, r.key)')
    <3>1. r.key \in events /\ Holds(Files[w][i].role, r, Visible(w, r.key))
      BY <1>2, <2>4 DEF WriterInv, DoneInv
    <3>2. r.key \in Keys
      BY <3>1 DEF StoredInv
    <3>. QED
      BY <2>3, <3>1, <3>2
  <2>5. ASSUME NEW n \in 1..at'[w].row - 1, NEW r, r = File(w).rows[n]
        PROVE  r.key \in imported[w] \cup batch'[w] /\ Holds(File(w).role, r, Visible(w, r.key)')
    <3>1. at[w].row \in Nat
      BY DEF WriterInv, TypeInv
    <3>2. CASE n = at[w].row
      <4>1. r = Row(w) /\ r.key = k
        BY <2>5, <3>2 DEF Row
      <4>. QED
        BY <1>1, <1>8, <2>1, <4>1
    <3>3. CASE n \in 1..at[w].row - 1
      <4>1. r.key \in imported[w] \cup batch[w] /\ Holds(File(w).role, r, Visible(w, r.key))
        BY <1>2, <2>5, <3>3 DEF WriterInv, DoneInv
      <4>2. r.key \in Keys
        BY <4>1 DEF WriterInv, TypeInv
      <4>. QED
        BY <1>1, <2>3, <4>1, <4>2
    <3>. QED
      BY <1>2, <3>1, <3>2, <3>3
  <2>. QED
    BY <1>1, <1>2, <2>2, <2>4, <2>5 DEF DoneInv
<1>. QED
  BY <1>2, <1>5, <1>6, <1>7, <1>10, <1>11, <1>12 DEF WriterInv

(* What a writer can see of an entry.                                       *)
LEMMA VisibleFacts ==
  ASSUME StoredInv, NEW w \in Writers, WriterInv(w), NEW k \in Keys
  PROVE  /\ Visible(w, k) \in Entry \cup {NoRow}
         /\ Visible(w, k) # NoRow => /\ AsParsed(k, Visible(w, k))
                                     /\ Links(Visible(w, k)) \subseteq related \cup pending[w]
<1>1. CASE k \in DOMAIN work[w]
  BY <1>1 DEF Visible, WriterInv, TypeInv, VersionInv, LinksInv
<1>2. CASE k \notin DOMAIN work[w]
  BY <1>2 DEF Visible, StoredInv
<1>. QED
  BY <1>1, <1>2

(* A row that creates its entry.                                            *)
LEMMA RowCreates ==
  ASSUME Shape, StoredInv, NEW w \in Writers, WriterInv(w), CreateEntry(w)
  PROVE  WriterInv(w)'
<1>. DEFINE k == Row(w).key
            new == Applied(Row(w), NewRow, File(w).role, TRUE)
<1>1. NextRow(w) /\ k \in Keys \ DOMAIN context[w]
  BY DEF CreateEntry
<1>2. CASE Row(w).broken \/ entries[k] # NoRow
  <2>1. Failed(w, k)
    BY <1>2 DEF CreateEntry
  <2>. QED
    BY <1>1, <2>1, RowFailed
<1>3. CASE ~(Row(w).broken \/ entries[k] # NoRow)
  <2>1. Written(w, k, new, new) /\ UNCHANGED phantoms
    BY <1>3 DEF CreateEntry
  <2>2. /\ new \in Entry /\ AsParsed(k, new) /\ Holds(File(w).role, Row(w), new)
        /\ Links(new) \subseteq ToSet(Row(w).authors) \cup ToSet(Row(w).topics)
    BY <1>1, RowFacts, NewVersion
  <2>3. Links(new) \subseteq related \cup pending[w]
    BY <1>1, <2>2, RowFacts
  <2>4. Visible(w, k) = NoRow
    BY <1>1, <1>3 DEF Visible, WriterInv, TypeInv
  <2>5. new # NoRow /\ Later(k, new, new)
    BY <2>2, FileTypes, LaterOrder
  <2>6. phantoms[w] \subseteq phantoms'[w] /\ phantoms'[w] \subseteq Keys
    BY <2>1 DEF WriterInv, TypeInv
  <2>. HIDE DEF new, k
  <2>. QED
    BY <1>1, <2>1, <2>2, <2>3, <2>4, <2>5, <2>6, RowWritten DEF k
<1>. QED
  BY <1>2, <1>3

(* A row that updates its entry.                                            *)
LEMMA RowUpdates ==
  ASSUME Shape, StoredInv, NEW w \in Writers, WriterInv(w), UpdateEntry(w)
  PROVE  WriterInv(w)'
<1>. DEFINE k == Row(w).key
            old == context[w][k]
            role == File(w).role
            new == Applied(Row(w), old, role, FALSE)
            kept == Kept(role, old, new)
            stored == Visible(w, k)
            fl == Flushed(stored, old, new)
<1>1. NextRow(w) /\ k \in DOMAIN context[w] /\ old \notin {NoRow, Expired}
  BY DEF UpdateEntry
<1>2. k \in Keys /\ old \in Entry
  BY <1>1 DEF WriterInv, TypeInv
<1>3. Later(k, old, stored) /\ Links(old) \subseteq related \cup pending[w]
  BY <1>1, <1>2 DEF WriterInv, VersionInv, LinksInv
<1>4. stored \in Entry /\ stored # NoRow
  BY <1>3, FileTypes DEF Later
<1>5. AsParsed(k, stored) /\ Links(stored) \subseteq related \cup pending[w]
  BY <1>2, <1>4, VisibleFacts
<1>6. /\ Row(w) \in Sources(k, role) /\ role \in {"canonical", "curated"}
      /\ ToSet(Row(w).authors) \cup ToSet(Row(w).topics) \subseteq related \cup pending[w]
  BY <1>1, RowFacts
<1>7. phantoms[w] \subseteq Keys
  BY DEF WriterInv, TypeInv
<1>8. CASE new = old /\ kept = {}
  <2>1. Written(w, k, old, NoRow) /\ UNCHANGED phantoms
    BY <1>8 DEF UpdateEntry
  <2>2. Holds(role, Row(w), stored)
    BY <1>2, <1>3, <1>6, <1>8, NothingToWrite
  <2>3. old # NoRow
    BY <1>1
  <2>. HIDE DEF k, old, role, new, kept, stored, fl
  <2>. QED
    BY <1>1, <1>2, <1>3, <1>7, <2>1, <2>2, <2>3, RowWritten DEF k, stored, role
<1>9. CASE ~(new = old /\ kept = {})
  <2>1. CASE Row(w).broken \/ LinkExists(stored, old, new) \/ ~(kept \subseteq stored.authors)
    <3>1. Failed(w, k)
      BY <1>9, <2>1 DEF UpdateEntry
    <3>. QED
      BY <1>1, <1>2, <3>1, RowFailed
  <2>2. CASE ~(Row(w).broken \/ LinkExists(stored, old, new) \/ ~(kept \subseteq stored.authors))
    <3>1. Written(w, k, new, fl) /\ UNCHANGED phantoms
      BY <1>9, <2>2 DEF UpdateEntry
    <3>2. Outcome(k, role, Row(w), old, stored, new, fl)
      <4>. DEFINE row == Row(w)
      <4>0. /\ new = Applied(row, old, role, FALSE) /\ fl = Flushed(stored, old, new)
            /\ Kept(role, old, new) \subseteq stored.authors
            /\ row \in Sources(k, role)
        BY <1>6, <2>2
      <4>. HIDE DEF k, old, role, new, kept, stored, fl, row
      <4>1. CASE role = "canonical"
        BY <1>2, <1>3, <1>4, <1>5, <4>0, <4>1, CanonicalVersion DEF row
      <4>2. CASE role = "curated"
        BY <1>2, <1>3, <1>4, <1>5, <4>0, <4>2, CuratedVersion DEF row
      <4>. QED
        BY <1>6, <4>1, <4>2
    <3>3. fl \in Entry /\ fl # NoRow /\ new # NoRow
      BY <3>2, FileTypes DEF Outcome, Later
    <3>4. Links(new) \subseteq related \cup pending[w] /\ Links(fl) \subseteq related \cup pending[w]
      BY <1>3, <1>5, <1>6, <3>2 DEF Outcome
    <3>. HIDE DEF k, old, role, new, kept, stored, fl
    <3>. QED
      BY <1>1, <1>2, <1>7, <3>1, <3>2, <3>3, <3>4, RowWritten DEF k, stored, role, Outcome
  <2>. QED
    BY <2>1, <2>2
<1>. QED
  BY <1>8, <1>9

(* A row of an entry that failed before in its batch.                       *)
LEMMA RowRepeats ==
  ASSUME Shape, StoredInv, NEW w \in Writers, WriterInv(w), RepeatEntry(w)
  PROVE  WriterInv(w)'
<1>. DEFINE k == Row(w).key
<1>1. NextRow(w) /\ k \in DOMAIN context[w] /\ context[w][k] \in {NoRow, Expired} /\ k \in Keys
  BY DEF RepeatEntry, WriterInv, TypeInv
<1>2. CASE context[w][k] = Expired
  <2>1. Failed(w, k)
    BY <1>2 DEF RepeatEntry
  <2>. QED
    BY <1>1, <2>1, RowFailed
<1>3. CASE context[w][k] # Expired
  <2>1. Written(w, k, NoRow, NoRow) /\ phantoms' = [phantoms EXCEPT ![w] = @ \cup {k}]
    BY <1>3 DEF RepeatEntry
  <2>2. phantoms'[w] = phantoms[w] \cup {k} /\ phantoms[w] \subseteq Keys
    BY <2>1 DEF Shape, WriterInv, TypeInv
  <2>3. errors[w] > 0
    BY <1>1, FileTypes DEF WriterInv, TypeInv, DoneInv
  <2>4. NoRow \notin Entry
    BY FileTypes
  <2>. HIDE DEF k
  <2>. QED
    BY <1>1, <2>1, <2>2, <2>3, <2>4, RowWritten DEF k
<1>. QED
  BY <1>2, <1>3

(* The row of a writer that is told to give up its wait fails.              *)
LEMMA RowDeadlocked ==
  ASSUME Shape, StoredInv, NEW w \in Writers, WriterInv(w), Deadlock(w), pc[w] = "rows"
  PROVE  WriterInv(w)'
<1>1. PICK v \in Writers : WaitsFor(w, v)
  BY DEF Deadlock
<1>2. NextRow(w) /\ Row(w).key \in Keys
  BY <1>1 DEF WaitsFor, Inserts, Writes
<1>3. Failed(w, Row(w).key)
  BY DEF Deadlock
<1>. QED
  BY <1>2, <1>3, RowFailed

(***************************************************************************)
(* A writer's batches and files.                                           *)
(***************************************************************************)

(* Where there is no context there is no other trace of a transaction.      *)
LEMMA NoTransaction ==
  ASSUME NEW w \in Writers, WriterInv(w), pc[w] # "rows"
  PROVE  /\ DOMAIN context[w] = {} /\ batch[w] = {} /\ DOMAIN work[w] = {}
         /\ \A k : Visible(w, k) = entries[k]
<1>1. DOMAIN context[w] = {} /\ batch[w] = {} /\ DOMAIN work[w] = {}
  BY DEF WriterInv, QuietInv, TypeInv
<1>. QED
  BY <1>1 DEF Visible

(* An ingest that ends in an error keeps nothing of its transaction.        *)
LEMMA Raised ==
  ASSUME Shape, StoredInv, NEW w \in Writers, WriterInv(w), Raise(w)
  PROVE  WriterInv(w)'
<1>1. /\ pc'[w] = "failed" /\ pending'[w] = {} /\ work'[w] = Nowhere /\ context'[w] = Nowhere
      /\ batch'[w] = {} /\ needs'[w] = {}
      /\ UNCHANGED <<entries, related, events, at, session, imported, phantoms, errors, runs>>
  BY DEF Raise, Dropped, Shape
<1>2. DOMAIN Nowhere = {}
  BY DEF Nowhere
<1>3. File(w)' = File(w)
  BY <1>1 DEF File
<1>4. IsFiniteSet(batch'[w])
  BY <1>1, FS_EmptySet
<1>5. TypeInv(w)'
  BY <1>1, <1>2, <1>3, <1>4 DEF WriterInv, TypeInv
<1>6. QuietInv(w)' /\ BatchInv(w)'
  BY <1>1, <1>2 DEF QuietInv, BatchInv
<1>7. LinksInv(w)' /\ VersionInv(w)'
  BY <1>1, <1>2 DEF WriterInv, LinksInv, VersionInv
<1>8. CountInv(w)' /\ DoneInv(w)'
  BY <1>1, <1>2 DEF WriterInv, CountInv, Stored, DoneInv
<1>. QED
  BY <1>5, <1>6, <1>7, <1>8 DEF WriterInv

(* An ingest starts with nothing.                                           *)
LEMMA Started ==
  ASSUME Shape, StoredInv, NEW w \in Writers, WriterInv(w), Start(w)
  PROVE  WriterInv(w)'
<1>1. /\ pc[w] \in {"idle", "failed"} /\ runs[w] < MaxRuns
      /\ pc'[w] = "begin" /\ runs'[w] = runs[w] + 1 /\ at'[w] = [file |-> 1, row |-> 1, next |-> 1]
      /\ session'[w] = Nowhere /\ imported'[w] = {} /\ errors'[w] = 0
      /\ UNCHANGED <<entries, related, events, needs, pending, work, context, batch, phantoms>>
  BY DEF Start, Shape
<1>2. DOMAIN Nowhere = {}
  BY DEF Nowhere
<1>3. 1 \in DOMAIN Files[w] /\ Files[w][1].rows \in Seq(Parsed)
  BY FileTypes
<1>4. File(w)' = Files[w][1] /\ at'[w].file = 1 /\ at'[w].row = 1 /\ at'[w].next = 1
  BY <1>1 DEF File
<1>5. runs'[w] \in 0..MaxRuns
  <2>1. runs[w] \in 0..MaxRuns
    BY DEF WriterInv, TypeInv
  <2>2. MaxRuns \in Nat
    BY FileTypes
  <2>. QED
    BY <1>1, <2>1, <2>2
<1>6. TypeInv(w)'
  <2>1. at'[w] \in [file : Nat, row : Nat, next : Nat] /\ 1 \in 1..Len(Files[w][1].rows) + 1
    BY <1>1, <1>3
  <2>. QED
    BY <1>1, <1>2, <1>3, <1>4, <1>5, <2>1 DEF WriterInv, TypeInv
<1>7. QuietInv(w)' /\ BatchInv(w)'
  BY <1>1, <1>4 DEF WriterInv, QuietInv, BatchInv
<1>8. DOMAIN context'[w] = {} /\ DOMAIN work'[w] = {} /\ batch'[w] = {}
  BY <1>1, NoTransaction
<1>9. LinksInv(w)' /\ VersionInv(w)'
  BY <1>1, <1>2, <1>8 DEF LinksInv, VersionInv
<1>10. CountInv(w)' /\ DoneInv(w)'
  BY <1>1, <1>4, <1>8 DEF CountInv, DoneInv
<1>. QED
  BY <1>6, <1>7, <1>9, <1>10 DEF WriterInv

(* The rows of a batch are those of its file from where the writer is.      *)
LEMMA BatchFacts ==
  ASSUME NEW w \in Writers, WriterInv(w)
  PROVE  /\ File(w).rows \in Seq(Parsed) /\ Batch(w) \in Seq(Parsed)
         /\ at[w].row + Len(Batch(w)) <= Len(File(w).rows) + 1
         /\ \A n \in at[w].row..at[w].row + Len(Batch(w)) - 1 :
              n - at[w].row + 1 \in DOMAIN Batch(w) /\ Batch(w)[n - at[w].row + 1] = File(w).rows[n]
         /\ AuthorsOf(w) \cup TopicsOf(w) \subseteq Related
<1>. DEFINE rows == File(w).rows
            m == at[w].row
            a == m + BatchSize - 1
            n == Min({a, Len(rows)})
<1>1. rows \in Seq(Parsed) /\ m \in 1..Len(rows) + 1 /\ m \in Nat
  BY FileTypes DEF WriterInv, TypeInv, File
<1>2. a \in Nat /\ Len(rows) \in Nat /\ a >= m
  BY <1>1, FileTypes
<1>3. n \in {a, Len(rows)} /\ n <= a /\ n <= Len(rows)
  <2>1. \A x, y \in Nat : \E z \in {x, y} : \A u \in {x, y} : z <= u
    <3>. SUFFICES ASSUME NEW x \in Nat, NEW y \in Nat
                  PROVE  \E z \in {x, y} : \A u \in {x, y} : z <= u
      OBVIOUS
    <3>1. CASE x <= y
      BY <3>1
    <3>2. CASE y <= x
      BY <3>2
    <3>. QED
      BY <3>1, <3>2
  <2>2. \E z \in {a, Len(rows)} : \A u \in {a, Len(rows)} : z <= u
    BY <1>2, <2>1
  <2>. QED
    BY <2>2 DEF Min
<1>4. n \in Nat /\ m <= n + 1 /\ n <= Len(rows)
  BY <1>1, <1>2, <1>3
<1>5. /\ Batch(w) \in Seq(Parsed) /\ Len(Batch(w)) = n - m + 1
      /\ \A i \in 1..n - m + 1 : Batch(w)[i] = rows[m + i - 1]
  <2>1. Batch(w) = SubSeq(rows, m, n)
    BY DEF Batch
  <2>. HIDE DEF rows, m, n
  <2>. QED
    BY <1>1, <1>4, <2>1
<1>6. \A j \in m..m + Len(Batch(w)) - 1 :
        j - m + 1 \in DOMAIN Batch(w) /\ Batch(w)[j - m + 1] = rows[j]
  <2>. SUFFICES ASSUME NEW j \in m..m + Len(Batch(w)) - 1
                PROVE  j - m + 1 \in DOMAIN Batch(w) /\ Batch(w)[j - m + 1] = rows[j]
    OBVIOUS
  <2>. HIDE DEF rows, m, n
  <2>1. j - m + 1 \in 1..n - m + 1 /\ m + (j - m + 1) - 1 = j
    BY <1>1, <1>4, <1>5
  <2>2. j - m + 1 \in DOMAIN Batch(w)
    BY <1>5, <2>1
  <2>. QED
    BY <1>5, <2>1, <2>2
<1>7. AuthorsOf(w) \cup TopicsOf(w) \subseteq Related
  <2>1. \A i \in DOMAIN Batch(w) :
          ToSet(Batch(w)[i].authors) \subseteq Related /\ ToSet(Batch(w)[i].topics) \subseteq Related
    BY <1>5, Parts
  <2>. QED
    BY <2>1 DEF AuthorsOf, TopicsOf
<1>8. m + Len(Batch(w)) <= Len(rows) + 1
  <2>. HIDE DEF rows, m, n
  <2>. QED
    BY <1>1, <1>2, <1>4, <1>5
<1>. QED
  BY <1>1, <1>5, <1>6, <1>7, <1>8

(* A batch begins with the authors that are not there yet.                  *)
LEMMA BatchBegun ==
  ASSUME Shape, StoredInv, NEW w \in Writers, WriterInv(w), BeginBatch(w)
  PROVE  WriterInv(w)'
<1>1. /\ pc[w] = "begin" /\ pc'[w] = "authors" /\ needs'[w] = AuthorsOf(w) \ related
      /\ UNCHANGED <<entries, related, events, at, pending, work, context, session, batch,
                     imported, phantoms, errors, runs>>
  BY DEF BeginBatch, Shape
<1>2. File(w)' = File(w) /\ AuthorsOf(w)' = AuthorsOf(w)
  BY <1>1 DEF File, AuthorsOf, Batch
<1>3. AuthorsOf(w) \subseteq Related
  BY BatchFacts
<1>4. TypeInv(w)'
  BY <1>1, <1>2, <1>3 DEF WriterInv, TypeInv
<1>5. QuietInv(w)' /\ BatchInv(w)'
  BY <1>1, <1>2 DEF WriterInv, QuietInv, BatchInv
<1>6. LinksInv(w)' /\ VersionInv(w)'
  BY <1>1, <1>2 DEF WriterInv, LinksInv, VersionInv, Visible
<1>7. CountInv(w)' /\ DoneInv(w)'
  BY <1>1, <1>2 DEF WriterInv, CountInv, Stored, DoneInv, Visible
<1>. QED
  BY <1>4, <1>5, <1>6, <1>7 DEF WriterInv

(* Once its authors are there, it asks for the topics.                      *)
LEMMA TopicsLoaded ==
  ASSUME Shape, StoredInv, NEW w \in Writers, WriterInv(w), LoadTopics(w)
  PROVE  WriterInv(w)'
<1>1. /\ pc[w] = "authors" /\ needs[w] = {} /\ pc'[w] = "topics"
      /\ needs'[w] = TopicsOf(w) \ (related \cup pending[w])
      /\ UNCHANGED <<entries, related, events, at, pending, work, context, session, batch,
                     imported, phantoms, errors, runs>>
  BY DEF LoadTopics, Shape
<1>2. File(w)' = File(w) /\ AuthorsOf(w)' = AuthorsOf(w) /\ TopicsOf(w)' = TopicsOf(w)
  BY <1>1 DEF File, AuthorsOf, TopicsOf, Batch
<1>3. TopicsOf(w) \subseteq Related
  BY BatchFacts
<1>4. TypeInv(w)'
  BY <1>1, <1>2, <1>3 DEF WriterInv, TypeInv
<1>5. QuietInv(w)' /\ BatchInv(w)'
  BY <1>1, <1>2 DEF WriterInv, QuietInv, BatchInv
<1>6. LinksInv(w)' /\ VersionInv(w)'
  BY <1>1, <1>2 DEF WriterInv, LinksInv, VersionInv, Visible
<1>7. CountInv(w)' /\ DoneInv(w)'
  BY <1>1, <1>2 DEF WriterInv, CountInv, Stored, DoneInv, Visible
<1>. QED
  BY <1>4, <1>5, <1>6, <1>7 DEF WriterInv

(* A name is inserted, or ends the ingest.                                  *)
LEMMA RelatedInserted ==
  ASSUME Shape, StoredInv, NEW w \in Writers, WriterInv(w), InsertRelated(w)
  PROVE  WriterInv(w)'
<1>1. PICK n \in needs[w] :
        /\ Inserts(w, n)
        /\ \/ n \in related /\ Raise(w)
           \/ /\ pending' = [pending EXCEPT ![w] = @ \cup {n}]
              /\ needs' = [needs EXCEPT ![w] = @ \ {n}]
              /\ UNCHANGED <<entries, related, events, pc, at, work, context, session, batch,
                             imported, phantoms, errors, runs>>
  BY DEF InsertRelated
<1>2. CASE Raise(w)
  BY <1>2, Raised
<1>3. CASE ~Raise(w)
  <2>1. /\ pending'[w] = pending[w] \cup {n} /\ needs'[w] = needs[w] \ {n}
        /\ UNCHANGED <<entries, related, events, pc, at, work, context, session, batch,
                       imported, phantoms, errors, runs>>
    BY <1>1, <1>3 DEF Shape
  <2>2. n \in Related /\ pc[w] \in {"authors", "topics"}
    BY <1>1 DEF WriterInv, TypeInv, Inserts
  <2>3. File(w)' = File(w) /\ AuthorsOf(w)' = AuthorsOf(w) /\ TopicsOf(w)' = TopicsOf(w)
    BY <2>1 DEF File, AuthorsOf, TopicsOf, Batch
  <2>4. TypeInv(w)'
    BY <2>1, <2>2, <2>3 DEF WriterInv, TypeInv
  <2>5. QuietInv(w)' /\ BatchInv(w)'
    BY <2>1, <2>2, <2>3 DEF WriterInv, QuietInv, BatchInv
  <2>6. LinksInv(w)' /\ VersionInv(w)'
    BY <2>1, <2>3 DEF WriterInv, LinksInv, VersionInv, Visible
  <2>7. CountInv(w)' /\ DoneInv(w)'
    BY <2>1, <2>3 DEF WriterInv, CountInv, Stored, DoneInv, Visible
  <2>. QED
    BY <2>4, <2>5, <2>6, <2>7 DEF WriterInv
<1>. QED
  BY <1>2, <1>3

(* The context of a batch: what is stored of its entries, or what the       *)
(* session kept of them, which is no later version.                         *)
LEMMA EntriesLoaded ==
  ASSUME Shape, StoredInv, NEW w \in Writers, WriterInv(w), LoadEntries(w)
  PROVE  WriterInv(w)'
<1>. DEFINE keys == {Batch(w)[i].key : i \in DOMAIN Batch(w)} \cap Stored
            Seen(k) == IF k \in DOMAIN session[w] /\ session[w][k] # Expired
                       THEN session[w][k] ELSE entries[k]
<1>1. /\ pc[w] = "topics" /\ needs[w] = {} /\ pc'[w] = "rows"
      /\ context'[w] = [k \in keys |-> Seen(k)]
      /\ session'[w] = [k \in DOMAIN session[w] |-> IF k \in keys THEN Seen(k) ELSE session[w][k]]
      /\ at' = [at EXCEPT ![w].next = @ + Len(Batch(w))]
      /\ UNCHANGED <<entries, related, events, needs, pending, work, batch, imported,
                     phantoms, errors, runs>>
  BY DEF LoadEntries, Shape
<1>2. /\ at[w] \in [file : Nat, row : Nat, next : Nat] /\ at[w].next = at[w].row
      /\ at[w].row \in 1..Len(File(w).rows) + 1
      /\ AuthorsOf(w) \cup TopicsOf(w) \subseteq related \cup pending[w]
  BY <1>1 DEF WriterInv, TypeInv, BatchInv
<1>3. /\ Len(Batch(w)) \in Nat /\ at[w].row + Len(Batch(w)) <= Len(File(w).rows) + 1
      /\ File(w).rows \in Seq(Parsed)
  BY BatchFacts
<1>4. /\ at'[w].file = at[w].file /\ at'[w].row = at[w].row
      /\ at'[w].next = at[w].row + Len(Batch(w)) /\ at'[w] \in [file : Nat, row : Nat, next : Nat]
      /\ File(w)' = File(w)
  BY <1>1, <1>2, <1>3 DEF Shape, File
<1>5. keys \subseteq Keys /\ DOMAIN context'[w] = keys /\ DOMAIN session'[w] = DOMAIN session[w]
  BY <1>1 DEF Stored
<1>6. \A k \in keys :
        Seen(k) \in Entry /\ Later(k, Seen(k), entries[k]) /\ Links(Seen(k)) \subseteq related
  <2>. SUFFICES ASSUME NEW k \in keys
                PROVE  Seen(k) \in Entry /\ Later(k, Seen(k), entries[k]) /\ Links(Seen(k)) \subseteq related
    OBVIOUS
  <2>1. k \in Keys /\ entries[k] \in Entry /\ Links(entries[k]) \subseteq related
    BY DEF Stored, StoredInv
  <2>2. CASE k \in DOMAIN session[w] /\ session[w][k] # Expired
    BY <2>2 DEF WriterInv, TypeInv, VersionInv, LinksInv
  <2>3. CASE ~(k \in DOMAIN session[w] /\ session[w][k] # Expired)
    BY <2>1, <2>3, LaterOrder
  <2>. QED
    BY <2>2, <2>3
<1>7. \A k \in keys : context'[w][k] = Seen(k)
  BY <1>1
<1>8. \A k \in DOMAIN session'[w] : (k \in keys /\ session'[w][k] = Seen(k))
                                      \/ session'[w][k] = session[w][k]
  BY <1>1
<1>9. DOMAIN work[w] = {} /\ batch[w] = {} /\ \A k : Visible(w, k) = entries[k]
  BY <1>1, NoTransaction
<1>10. \A k : Visible(w, k)' = entries[k]
  BY <1>1, <1>9 DEF Visible
<1>. HIDE DEF keys, Seen
<1>11. TypeInv(w)'
  <2>1. \A k \in DOMAIN context'[w] : context'[w][k] \in Entry \cup {NoRow, Expired}
    BY <1>5, <1>6, <1>7
  <2>2. \A k \in DOMAIN session'[w] : session'[w][k] \in Entry \cup {Expired}
    BY <1>5, <1>6, <1>8 DEF WriterInv, TypeInv
  <2>. QED
    BY <1>1, <1>4, <1>5, <1>9, <2>1, <2>2 DEF WriterInv, TypeInv
<1>12. QuietInv(w)'
  BY <1>1 DEF QuietInv
<1>13. BatchInv(w)'
  <2>1. ASSUME NEW n \in at[w].row..at'[w].next - 1
        PROVE  ToSet(File(w).rows[n].authors) \cup ToSet(File(w).rows[n].topics)
                 \subseteq related \cup pending[w]
    <3>0. n \in at[w].row..at[w].row + Len(Batch(w)) - 1
      BY <1>4, <2>1
    <3>1. PICK i \in DOMAIN Batch(w) : Batch(w)[i] = File(w).rows[n]
      <4>1. n - at[w].row + 1 \in DOMAIN Batch(w) /\ Batch(w)[n - at[w].row + 1] = File(w).rows[n]
        BY <3>0, BatchFacts
      <4>. QED
        BY <4>1
    <3>2. ToSet(Batch(w)[i].authors) \subseteq AuthorsOf(w) /\ ToSet(Batch(w)[i].topics) \subseteq TopicsOf(w)
      BY DEF AuthorsOf, TopicsOf
    <3>. QED
      BY <1>2, <3>1, <3>2
  <2>2. at'[w].row <= at'[w].next /\ at'[w].next <= Len(File(w).rows) + 1
    BY <1>2, <1>3, <1>4
  <2>. QED
    BY <1>1, <1>4, <2>1, <2>2 DEF BatchInv
<1>14. LinksInv(w)'
  BY <1>1, <1>5, <1>6, <1>7, <1>8, <1>9 DEF WriterInv, LinksInv
<1>15. VersionInv(w)'
  BY <1>1, <1>5, <1>6, <1>7, <1>8, <1>9, <1>10 DEF WriterInv, VersionInv
<1>16. CountInv(w)'
  BY <1>1 DEF WriterInv, CountInv, Stored
<1>17. DoneInv(w)'
  BY <1>1, <1>4, <1>5, <1>6, <1>7, <1>9, <1>10 DEF WriterInv, DoneInv
<1>. QED
  BY <1>11, <1>12, <1>13, <1>14, <1>15, <1>16, <1>17 DEF WriterInv

(* What is committed is what the session showed, or a later version of it.  *)
LEMMA Committed ==
  ASSUME Shape, StoredInv, NEW w \in Writers, WriterInv(w), Commit(w)
  PROVE  /\ WriterInv(w)' /\ related' = related \cup pending[w] /\ events' = events
         /\ \A k \in Keys : entries'[k] = Visible(w, k)
<1>1. /\ pc[w] = "rows" /\ at[w].row = at[w].next
      /\ entries' = [k \in Keys |-> IF k \in DOMAIN work[w] THEN work[w][k] ELSE entries[k]]
      /\ related' = related \cup pending[w]
      /\ imported'[w] = imported[w] \cup batch[w]
      /\ pc'[w] = IF at[w].row > Len(File(w).rows) THEN "publish" ELSE "begin"
      /\ pending'[w] = {} /\ work'[w] = Nowhere /\ context'[w] = Nowhere /\ batch'[w] = {}
      /\ needs'[w] = {}
      /\ UNCHANGED <<events, at, phantoms, errors, runs>>
  BY DEF Commit, Dropped, Shape
<1>. DEFINE kept == {k \in batch[w] : context[w][k] # NoRow}
<1>2. session'[w] = [k \in DOMAIN session[w] \cup kept |->
                       IF k \in kept THEN context[w][k] ELSE session[w][k]]
  BY DEF Commit, Shape
<1>3. /\ DOMAIN session'[w] = DOMAIN session[w] \cup kept
      /\ \A k \in kept : session'[w][k] = context[w][k]
      /\ \A k \in DOMAIN session[w] \ kept : session'[w][k] = session[w][k]
      /\ \A k \in kept : k \in DOMAIN context[w] /\ k \in Keys /\ context[w][k] \in Entry \cup {Expired}
  BY <1>2 DEF WriterInv, TypeInv
<1>. HIDE DEF kept
<1>4. \A k \in Keys : entries'[k] = Visible(w, k)
  BY <1>1 DEF Visible
<1>5. DOMAIN Nowhere = {} /\ File(w)' = File(w)
  BY <1>1 DEF Nowhere, File
<1>6. \A k \in Keys : Visible(w, k)' = entries'[k]
  BY <1>1, <1>5 DEF Visible
<1>7. \A k \in Keys : entries[k] # NoRow => Later(k, entries[k], entries'[k])
  <2>. SUFFICES ASSUME NEW k \in Keys, entries[k] # NoRow PROVE Later(k, entries[k], entries'[k])
    OBVIOUS
  <2>1. CASE k \in DOMAIN work[w]
    BY <1>1, <2>1 DEF WriterInv, VersionInv
  <2>2. CASE k \notin DOMAIN work[w]
    BY <1>1, <2>2, LaterOrder DEF StoredInv
  <2>. QED
    BY <2>1, <2>2
<1>8. TypeInv(w)'
  <2>1. \A k \in DOMAIN session'[w] : session'[w][k] \in Entry \cup {Expired}
    BY <1>3 DEF WriterInv, TypeInv
  <2>2. imported'[w] \subseteq Keys /\ DOMAIN session'[w] \subseteq Keys
    BY <1>1, <1>3 DEF WriterInv, TypeInv
  <2>3. IsFiniteSet(batch'[w])
    BY <1>1, FS_EmptySet
  <2>. QED
    BY <1>1, <1>5, <2>1, <2>2, <2>3 DEF WriterInv, TypeInv
<1>9. QuietInv(w)'
  BY <1>1, <1>5 DEF QuietInv
<1>10. BatchInv(w)'
  <2>1. at[w].row \in 1..Len(File(w).rows) + 1 /\ File(w).rows \in Seq(Parsed)
    BY BatchFacts DEF WriterInv, TypeInv
  <2>. QED
    BY <1>1, <1>5, <2>1 DEF BatchInv
<1>11. LinksInv(w)'
  <2>1. ASSUME NEW k \in DOMAIN session'[w], session'[w][k] \in Entry
        PROVE  Links(session'[w][k]) \subseteq related'
    BY <1>1, <1>3, <2>1 DEF WriterInv, LinksInv
  <2>. QED
    BY <1>1, <1>5, <2>1 DEF LinksInv
<1>12. VersionInv(w)'
  <2>1. ASSUME NEW k \in DOMAIN session'[w], session'[w][k] \in Entry
        PROVE  Later(k, session'[w][k], entries'[k])
    <3>1. CASE k \in kept
      BY <1>3, <1>4, <2>1, <3>1 DEF WriterInv, VersionInv
    <3>2. CASE k \notin kept
      <4>1. Later(k, session'[w][k], entries[k]) /\ k \in Keys /\ entries[k] # NoRow
        BY <1>3, <2>1, <3>2, FileTypes DEF WriterInv, VersionInv, TypeInv, Later
      <4>. QED
        BY <1>7, <4>1, LaterOrder
    <3>. QED
      BY <3>1, <3>2
  <2>. QED
    BY <1>1, <1>5, <2>1 DEF VersionInv
<1>13. CountInv(w)'
  <2>1. Stored \cup DOMAIN work[w] \subseteq Stored'
    <3>1. DOMAIN work[w] \subseteq Keys /\ \A k \in DOMAIN work[w] : work[w][k] # NoRow
      BY FileTypes DEF WriterInv, TypeInv
    <3>. QED
      BY <1>1, <3>1 DEF Stored
  <2>. QED
    BY <1>1, <2>1 DEF WriterInv, CountInv
<1>14. DoneInv(w)'
  <2>. SUFFICES ASSUME errors[w] = 0 PROVE DoneInv(w)'
    BY <1>1 DEF DoneInv
  <2>1. ASSUME NEW i \in 1..at[w].file - 1, NEW r \in ToSet(Files[w][i].rows)
        PROVE  r.key \in events /\ Holds(Files[w][i].role, r, Visible(w, r.key)')
    <3>1. r.key \in events /\ Holds(Files[w][i].role, r, Visible(w, r.key))
      BY <1>1, <2>1 DEF WriterInv, DoneInv
    <3>. QED
      BY <1>4, <1>6, <3>1 DEF StoredInv
  <2>2. ASSUME NEW n \in 1..at[w].row - 1, NEW r, r = File(w).rows[n]
        PROVE  r.key \in imported'[w] /\ Holds(File(w).role, r, Visible(w, r.key)')
    <3>1. r.key \in imported[w] \cup batch[w] /\ Holds(File(w).role, r, Visible(w, r.key))
      BY <1>1, <2>2 DEF WriterInv, DoneInv
    <3>2. r.key \in Keys
      BY <3>1 DEF WriterInv, TypeInv
    <3>. QED
      BY <1>1, <1>4, <1>6, <3>1, <3>2
  <2>. QED
    BY <1>1, <1>5, <2>1, <2>2 DEF DoneInv
<1>. QED
  BY <1>1, <1>4, <1>8, <1>9, <1>10, <1>11, <1>12, <1>13, <1>14 DEF WriterInv

(* A commit that fails counts its batch as errors.                          *)
LEMMA CommitFailed ==
  ASSUME Shape, StoredInv, NEW w \in Writers, WriterInv(w), CommitFails(w)
  PROVE  WriterInv(w)'
<1>1. /\ pc[w] = "rows" /\ at[w].row = at[w].next
      /\ errors'[w] = errors[w] + Cardinality(batch[w])
      /\ session'[w] = [k \in DOMAIN session[w] |-> Expired]
      /\ pc'[w] = IF at[w].row > Len(File(w).rows) THEN "publish" ELSE "begin"
      /\ pending'[w] = {} /\ work'[w] = Nowhere /\ context'[w] = Nowhere /\ batch'[w] = {}
      /\ needs'[w] = {}
      /\ UNCHANGED <<entries, related, events, at, imported, phantoms, runs>>
  BY DEF CommitFails, Dropped, Shape
<1>2. DOMAIN Nowhere = {} /\ File(w)' = File(w)
  BY <1>1 DEF Nowhere, File
<1>3. /\ Cardinality(batch[w]) \in Nat /\ errors[w] \in Nat
      /\ Cardinality(batch[w]) = 0 => batch[w] = {}
  <2>1. IsFiniteSet(batch[w]) /\ errors[w] \in Nat
    BY DEF WriterInv, TypeInv
  <2>. QED
    BY <2>1, FS_CardinalityType, FS_EmptySet
<1>4. errors'[w] \in Nat /\ (errors'[w] = 0 => errors[w] = 0 /\ batch[w] = {})
  BY <1>1, <1>3
<1>5. TypeInv(w)'
  <2>1. IsFiniteSet(batch'[w])
    BY <1>1, FS_EmptySet
  <2>. QED
    BY <1>1, <1>2, <1>4, <2>1 DEF WriterInv, TypeInv
<1>6. QuietInv(w)'
  BY <1>1, <1>2 DEF QuietInv
<1>7. BatchInv(w)'
  <2>1. at[w].row \in 1..Len(File(w).rows) + 1 /\ File(w).rows \in Seq(Parsed)
    BY BatchFacts DEF WriterInv, TypeInv
  <2>. QED
    BY <1>1, <1>2, <2>1 DEF BatchInv
<1>8. LinksInv(w)' /\ VersionInv(w)'
  BY <1>1, <1>2, FileTypes DEF LinksInv, VersionInv
<1>9. CountInv(w)'
  BY <1>1 DEF WriterInv, CountInv, Stored
<1>10. DoneInv(w)'
  <2>. SUFFICES ASSUME errors'[w] = 0 PROVE DoneInv(w)'
    BY DEF DoneInv
  <2>1. errors[w] = 0 /\ batch[w] = {} /\ DOMAIN work[w] = {}
    BY <1>4 DEF WriterInv, TypeInv
  <2>2. \A k : Visible(w, k)' = Visible(w, k)
    BY <1>1, <1>2, <2>1 DEF Visible
  <2>3. ASSUME NEW n \in 1..at[w].row - 1, NEW r, r = File(w).rows[n]
        PROVE  r.key \in imported'[w] /\ Holds(File(w).role, r, Visible(w, r.key)')
    BY <1>1, <2>1, <2>2, <2>3 DEF WriterInv, DoneInv
  <2>4. ASSUME NEW i \in 1..at[w].file - 1, NEW r \in ToSet(Files[w][i].rows)
        PROVE  r.key \in events /\ Holds(Files[w][i].role, r, Visible(w, r.key)')
    BY <1>1, <2>1, <2>2, <2>4 DEF WriterInv, DoneInv
  <2>. QED
    BY <1>1, <1>2, <2>3, <2>4 DEF DoneInv
<1>. QED
  BY <1>5, <1>6, <1>7, <1>8, <1>9, <1>10 DEF WriterInv

(* A file that is done is published, and the next one begins.               *)
LEMMA Published ==
  ASSUME Shape, StoredInv, NEW w \in Writers, WriterInv(w), Publish(w)
  PROVE  WriterInv(w)' /\ UNCHANGED <<entries, related, phantoms>> /\ events' \in {events, events \cup imported[w]}
<1>1. pc[w] = "publish"
  BY DEF Publish
<1>2. CASE Raise(w)
  <2>2. UNCHANGED <<entries, related, events, phantoms>>
    BY <1>2 DEF Raise
  <2>. QED
    BY <1>2, <2>2, Raised
<1>3. CASE ~Raise(w)
  <2>1. /\ events' = events \cup imported[w]
        /\ UNCHANGED <<entries, related, needs, pending, work, context, batch, phantoms, errors, runs>>
    BY <1>3 DEF Publish
  <2>2. DOMAIN context[w] = {} /\ batch[w] = {} /\ DOMAIN work[w] = {} /\ pending[w] = {}
    BY <1>1, NoTransaction DEF WriterInv, QuietInv
  <2>3. \A k : Visible(w, k)' = Visible(w, k)
    BY <2>1 DEF Visible
  <2>4. /\ at[w] \in [file : Nat, row : Nat, next : Nat] /\ at[w].row = Len(File(w).rows) + 1
        /\ at[w].file \in DOMAIN Files[w] /\ File(w).rows \in Seq(Parsed)
    BY <1>1, BatchFacts DEF WriterInv, TypeInv, BatchInv
  <2>5. ASSUME at[w].file = Len(Files[w]) PROVE WriterInv(w)'
    <3>1. pc'[w] = "done" /\ UNCHANGED <<at, session, imported>>
      BY <1>3, <2>5 DEF Publish, Shape
    <3>2. File(w)' = File(w)
      BY <3>1 DEF File
    <3>3. TypeInv(w)'
      BY <2>1, <3>1, <3>2 DEF WriterInv, TypeInv
    <3>4. QuietInv(w)' /\ BatchInv(w)'
      BY <1>1, <2>1, <2>2, <2>4, <3>1, <3>2 DEF QuietInv, BatchInv
    <3>5. LinksInv(w)' /\ VersionInv(w)'
      BY <2>1, <2>2, <3>1, <3>2 DEF WriterInv, LinksInv, VersionInv
    <3>6. CountInv(w)'
      BY <2>1, <3>1 DEF WriterInv, CountInv, Stored
    <3>7. DoneInv(w)'
      <4>1. ASSUME errors[w] = 0, NEW n \in 1..at[w].row - 1, NEW r, r = File(w).rows[n]
            PROVE  r.key \in imported[w] \cup batch[w] /\ Holds(File(w).role, r, Visible(w, r.key)')
        BY <1>1, <2>3, <4>1 DEF WriterInv, DoneInv
      <4>2. ASSUME errors[w] = 0, NEW i \in 1..at[w].file - 1, NEW r \in ToSet(Files[w][i].rows)
            PROVE  r.key \in events /\ Holds(Files[w][i].role, r, Visible(w, r.key)')
        BY <1>1, <2>3, <4>2 DEF WriterInv, DoneInv
      <4>. QED
        BY <2>1, <2>2, <2>5, <3>1, <3>2, <4>1, <4>2 DEF DoneInv
    <3>. QED
      BY <3>3, <3>4, <3>5, <3>6, <3>7 DEF WriterInv
  <2>6. ASSUME at[w].file # Len(Files[w]) PROVE WriterInv(w)'
    <3>1. /\ pc'[w] = "begin" /\ imported'[w] = {} /\ session'[w] \in {session[w], Nowhere}
          /\ at'[w] = [file |-> at[w].file + 1, row |-> 1, next |-> 1]
      BY <1>3, <2>6 DEF Publish, Shape
    <3>2. /\ at'[w].file = at[w].file + 1 /\ at'[w].row = 1 /\ at'[w].next = 1
          /\ at'[w] \in [file : Nat, row : Nat, next : Nat]
      BY <2>4, <3>1
    <3>3. at[w].file + 1 \in DOMAIN Files[w]
      BY <2>4, <2>6, FileTypes
    <3>4. File(w)' = Files[w][at[w].file + 1] /\ Files[w][at[w].file + 1].rows \in Seq(Parsed)
      BY <3>2, <3>3, FileTypes DEF File
    <3>5. DOMAIN Nowhere = {}
      BY DEF Nowhere
    <3>6. TypeInv(w)'
      <4>1. 1 \in 1..Len(File(w)'.rows) + 1
        <5>1. \A rows \in Seq(Parsed) : 1 \in 1..Len(rows) + 1
          OBVIOUS
        <5>. QED
          BY <3>4, <5>1
      <4>2. DOMAIN session'[w] \subseteq Keys /\ \A k \in DOMAIN session'[w] : session'[w][k] \in Entry \cup {Expired}
        BY <3>1, <3>5 DEF WriterInv, TypeInv
      <4>. QED
        BY <2>1, <3>1, <3>2, <3>3, <4>1, <4>2 DEF WriterInv, TypeInv
    <3>7. QuietInv(w)' /\ BatchInv(w)'
      BY <2>1, <2>2, <3>1, <3>2 DEF QuietInv, BatchInv
    <3>8. LinksInv(w)' /\ VersionInv(w)'
      BY <2>1, <2>2, <3>1, <3>5 DEF WriterInv, LinksInv, VersionInv
    <3>9. CountInv(w)'
      BY <2>1, <2>2, <3>1 DEF CountInv
    <3>10. DoneInv(w)'
      <4>1. ASSUME errors[w] = 0, NEW i \in 1..at[w].file, NEW r \in ToSet(Files[w][i].rows)
            PROVE  r.key \in events' /\ Holds(Files[w][i].role, r, Visible(w, r.key)')
        <5>1. CASE i \in 1..at[w].file - 1
          BY <1>1, <2>1, <2>3, <4>1, <5>1 DEF WriterInv, DoneInv
        <5>2. CASE i = at[w].file
          <6>1. PICK n \in 1..at[w].row - 1 : r = File(w).rows[n]
            BY <2>4, <4>1, <5>2 DEF ToSet, File
          <6>2. r.key \in imported[w] \cup batch[w] /\ Holds(File(w).role, r, Visible(w, r.key))
            BY <1>1, <4>1, <6>1 DEF WriterInv, DoneInv
          <6>. QED
            BY <2>1, <2>2, <2>3, <5>2, <6>2 DEF File
        <5>. QED
          BY <2>4, <4>1, <5>1, <5>2
      <4>. QED
        BY <2>1, <2>2, <2>4, <3>1, <3>2, <4>1 DEF DoneInv
    <3>. QED
      BY <3>6, <3>7, <3>8, <3>9, <3>10 DEF WriterInv
  <2>7. WriterInv(w)'
    BY <2>5, <2>6
  <2>. QED
    BY <2>1, <2>7
<1>. QED
  BY <1>2, <1>3

(***************************************************************************)
(* All steps.                                                              *)
(***************************************************************************)

(* A writer keeps what it knows through its own steps.                      *)
LEMMA OwnKept ==
  ASSUME Shape, StoredInv, NEW w \in Writers, WriterInv(w), Action(w)
  PROVE  WriterInv(w)'
<1>1. CASE Start(w)
  BY <1>1, Started
<1>2. CASE BeginBatch(w)
  BY <1>2, BatchBegun
<1>3. CASE LoadTopics(w)
  BY <1>3, TopicsLoaded
<1>4. CASE InsertRelated(w)
  BY <1>4, RelatedInserted
<1>5. CASE LoadEntries(w)
  BY <1>5, EntriesLoaded
<1>6. CASE SkipRow(w)
  BY <1>6, RowSkipped
<1>7. CASE CreateEntry(w)
  BY <1>7, RowCreates
<1>8. CASE UpdateEntry(w)
  BY <1>8, RowUpdates
<1>9. CASE RepeatEntry(w)
  BY <1>9, RowRepeats
<1>10. CASE Commit(w)
  BY <1>10, Committed
<1>11. CASE Publish(w)
  BY <1>11, Published
<1>12. CASE Deadlock(w)
  <2>1. CASE pc[w] = "rows"
    BY <1>12, <2>1, RowDeadlocked
  <2>2. CASE pc[w] # "rows"
    BY <1>12, <2>2, Raised DEF Deadlock
  <2>. QED
    BY <2>1, <2>2
<1>13. CASE CommitFails(w)
  BY <1>13, CommitFailed
<1>14. CASE Crash(w)
  BY <1>14, Raised DEF Crash
<1>. QED
  BY <1>1, <1>2, <1>3, <1>4, <1>5, <1>6, <1>7, <1>8, <1>9, <1>10, <1>11, <1>12, <1>13, <1>14
  DEF Action, WriterStep

(* Only a commit writes entries, and only the end of a file publishes.      *)
LEMMA TablesSame ==
  ASSUME Shape, NEW v \in Writers, Action(v), ~Commit(v), ~Publish(v)
  PROVE  /\ UNCHANGED <<entries, related, events>>
         /\ phantoms[v] \subseteq phantoms'[v]
<1>. USE DEF Shape
<1>1. CASE Start(v)
  BY <1>1 DEF Start
<1>2. CASE BeginBatch(v) \/ LoadTopics(v)
  BY <1>2 DEF BeginBatch, LoadTopics
<1>3. CASE InsertRelated(v)
  BY <1>3 DEF InsertRelated, Raise
<1>4. CASE LoadEntries(v)
  BY <1>4 DEF LoadEntries
<1>5. CASE SkipRow(v)
  BY <1>5 DEF SkipRow
<1>6. CASE CreateEntry(v)
  BY <1>6 DEF CreateEntry, Failed, Written
<1>7. CASE UpdateEntry(v)
  BY <1>7 DEF UpdateEntry, Failed, Written
<1>8. CASE RepeatEntry(v)
  BY <1>8 DEF RepeatEntry, Failed, Written
<1>9. CASE Deadlock(v)
  BY <1>9 DEF Deadlock, Raise, Failed
<1>10. CASE CommitFails(v)
  BY <1>10 DEF CommitFails
<1>11. CASE Crash(v)
  BY <1>11 DEF Crash, Raise
<1>. QED
  BY <1>1, <1>2, <1>3, <1>4, <1>5, <1>6, <1>7, <1>8, <1>9, <1>10, <1>11 DEF Action, WriterStep

(* A transaction writes no entry that another one has written.              *)
LEMMA Locked ==
  ASSUME Shape, NEW v \in Writers, Action(v)
  PROVE  \A k \in DOMAIN work'[v] : k \in DOMAIN work[v] \/ ~Held(v, k)
<1>. USE DEF Shape
<1>1. DOMAIN Nowhere = {}
  BY DEF Nowhere
<1>2. ASSUME work'[v] = work[v] \/ work'[v] = Nowhere
      PROVE  \A k \in DOMAIN work'[v] : k \in DOMAIN work[v] \/ ~Held(v, k)
  BY <1>1, <1>2
<1>3. ASSUME NEW k, NEW e, NEW s, Written(v, k, e, s), s = NoRow \/ ~Held(v, k)
      PROVE  \A j \in DOMAIN work'[v] : j \in DOMAIN work[v] \/ ~Held(v, j)
  <2>1. work'[v] = IF s = NoRow THEN work[v]
                   ELSE [j \in DOMAIN work[v] \cup {k} |-> IF j = k THEN s ELSE work[v][j]]
    BY <1>3 DEF Written
  <2>. QED
    BY <1>3, <2>1
<1>4. ASSUME NEW k, Failed(v, k) PROVE work'[v] = work[v]
  BY <1>4 DEF Failed
<1>5. CASE Start(v)
  BY <1>2, <1>5 DEF Start
<1>6. CASE BeginBatch(v) \/ LoadTopics(v)
  BY <1>2, <1>6 DEF BeginBatch, LoadTopics
<1>7. CASE InsertRelated(v)
  BY <1>2, <1>7 DEF InsertRelated, Raise, Dropped
<1>8. CASE LoadEntries(v)
  BY <1>2, <1>8 DEF LoadEntries
<1>9. CASE SkipRow(v)
  BY <1>2, <1>9 DEF SkipRow
<1>10. CASE CreateEntry(v)
  BY <1>2, <1>3, <1>4, <1>10 DEF CreateEntry
<1>11. CASE UpdateEntry(v)
  BY <1>2, <1>3, <1>4, <1>11 DEF UpdateEntry
<1>12. CASE RepeatEntry(v)
  BY <1>2, <1>3, <1>4, <1>12 DEF RepeatEntry
<1>13. CASE Commit(v)
  BY <1>2, <1>13 DEF Commit, Dropped
<1>14. CASE Publish(v)
  BY <1>2, <1>14 DEF Publish, Raise, Dropped
<1>15. CASE Deadlock(v)
  BY <1>2, <1>4, <1>15 DEF Deadlock, Raise, Dropped
<1>16. CASE CommitFails(v)
  BY <1>2, <1>16 DEF CommitFails, Dropped
<1>17. CASE Crash(v)
  BY <1>2, <1>17 DEF Crash, Raise, Dropped
<1>. QED
  BY <1>5, <1>6, <1>7, <1>8, <1>9, <1>10, <1>11, <1>12, <1>13, <1>14, <1>15, <1>16, <1>17
  DEF Action, WriterStep

(* The shape of the state.                                                  *)
LEMMA ShapeKept ==
  ASSUME Shape, NEW v \in Writers, Action(v)
  PROVE  Shape'
<1>. USE DEF Shape
<1>0. MaxFaults \in Nat
  BY FileTypes
<1>1. CASE Start(v)
  BY <1>1 DEF Start
<1>2. CASE BeginBatch(v) \/ LoadTopics(v)
  BY <1>2 DEF BeginBatch, LoadTopics
<1>3. ASSUME Raise(v), faults' \in 0..MaxFaults PROVE Shape'
  BY <1>3 DEF Raise, Dropped
<1>4. ASSUME NEW k, Failed(v, k) PROVE Shape'
  BY <1>4 DEF Failed, Advance
<1>5. ASSUME NEW k, NEW e, NEW s, Written(v, k, e, s), DOMAIN phantoms' = Writers PROVE Shape'
  BY <1>5 DEF Written, Advance
<1>6. CASE InsertRelated(v)
  <2>1. CASE Raise(v)
    BY <1>3, <1>6, <2>1 DEF InsertRelated
  <2>2. CASE ~Raise(v)
    BY <1>6, <2>2 DEF InsertRelated
  <2>. QED
    BY <2>1, <2>2
<1>7. CASE LoadEntries(v)
  BY <1>7 DEF LoadEntries
<1>8. CASE SkipRow(v)
  BY <1>8 DEF SkipRow, Advance
<1>9. CASE CreateEntry(v)
  BY <1>4, <1>5, <1>9 DEF CreateEntry
<1>10. CASE UpdateEntry(v)
  BY <1>4, <1>5, <1>10 DEF UpdateEntry
<1>11. CASE RepeatEntry(v)
  BY <1>4, <1>5, <1>11 DEF RepeatEntry
<1>12. CASE Commit(v)
  BY <1>12 DEF Commit, Dropped
<1>13. CASE Publish(v)
  <2>1. CASE Raise(v)
    BY <1>3, <1>13, <2>1 DEF Publish
  <2>2. CASE ~Raise(v)
    BY <1>13, <2>2 DEF Publish
  <2>. QED
    BY <2>1, <2>2
<1>14. CASE Deadlock(v)
  BY <1>3, <1>4, <1>14 DEF Deadlock
<1>15. CASE CommitFails(v)
  <2>1. faults' \in 0..MaxFaults
    BY <1>0, <1>15 DEF CommitFails
  <2>. QED
    BY <1>15, <2>1 DEF CommitFails, Dropped
<1>16. CASE Crash(v)
  <2>1. faults' \in 0..MaxFaults
    BY <1>0, <1>16 DEF Crash
  <2>. QED
    BY <1>3, <1>16, <2>1 DEF Crash
<1>. QED
  BY <1>1, <1>2, <1>6, <1>7, <1>8, <1>9, <1>10, <1>11, <1>12, <1>13, <1>14, <1>15, <1>16
  DEF Action, WriterStep

(* What is committed stays as it is, or gives way to later versions, and    *)
(* never what another transaction has written.                              *)
LEMMA TablesKept ==
  ASSUME IInv, NEW v \in Writers, Action(v)
  PROVE  /\ StoredInv' /\ Grown({})
         /\ \A w \in Writers \ {v} : Grown(DOMAIN work[w])
<1>. USE DEF IInv
<1>1. WriterInv(v) /\ Shape /\ StoredInv /\ \A w \in Writers \ {v} : Same(w)
  BY OthersSame
<1>2. \A k \in Keys : entries[k] # NoRow => Later(k, entries[k], entries[k])
  BY LaterOrder DEF StoredInv
<1>3. CASE Commit(v)
  <2>1. /\ related' = related \cup pending[v] /\ events' = events
        /\ \A k \in Keys : entries'[k] = Visible(v, k)
        /\ UNCHANGED phantoms
    BY <1>1, <1>3, Committed DEF Commit
  <2>2. \A k \in Keys : /\ Visible(v, k) \in Entry \cup {NoRow}
                        /\ entries[k] # NoRow => Later(k, entries[k], Visible(v, k))
    <3>. SUFFICES ASSUME NEW k \in Keys
                  PROVE  /\ Visible(v, k) \in Entry \cup {NoRow}
                         /\ entries[k] # NoRow => Later(k, entries[k], Visible(v, k))
      OBVIOUS
    <3>1. CASE k \in DOMAIN work[v]
      BY <1>1, <3>1 DEF Visible, WriterInv, TypeInv, VersionInv
    <3>2. CASE k \notin DOMAIN work[v]
      BY <1>2, <3>2 DEF Visible, StoredInv
    <3>. QED
      BY <3>1, <3>2
  <2>3. \A w \in Writers \ {v} : \A k \in DOMAIN work[w] : k \in Keys /\ k \notin DOMAIN work[v]
    BY DEF LockInv, WriterInv, TypeInv
  <2>4. \A w \in Writers \ {v} : \A k \in DOMAIN work[w] : entries'[k] = entries[k]
    BY <2>1, <2>3 DEF Visible
  <2>5. \A k \in Keys : entries[k] # NoRow => entries'[k] # NoRow
    BY <2>1, <2>2, FileTypes DEF Later
  <2>6. ASSUME NEW k \in Keys
        PROVE  /\ entries'[k] \in Entry \cup {NoRow}
               /\ Initial[k] # NoRow => entries'[k] # NoRow
               /\ entries'[k] # NoRow => Links(entries'[k]) \subseteq related' /\ AsParsed(k, entries'[k])
    BY <1>1, <2>1, <2>2, <2>5, VisibleFacts DEF StoredInv
  <2>7. related' \subseteq Related /\ Stored \subseteq Stored'
    BY <1>1, <2>1, <2>5 DEF StoredInv, WriterInv, TypeInv, Stored
  <2>8. StoredInv'
    BY <2>1, <2>6, <2>7 DEF StoredInv
  <2>. QED
    BY <2>1, <2>2, <2>4, <2>8 DEF Grown
<1>4. CASE Publish(v)
  <2>1. UNCHANGED <<entries, related, phantoms>> /\ events' \in {events, events \cup imported[v]}
    BY <1>1, <1>4, Published
  <2>2. imported[v] \subseteq Stored \cup phantoms[v] /\ imported[v] \subseteq Keys
    BY <1>1 DEF WriterInv, CountInv, TypeInv
  <2>3. StoredInv'
    BY <2>1, <2>2 DEF StoredInv, Stored
  <2>. QED
    BY <1>2, <2>1, <2>3 DEF Grown, StoredInv
<1>5. CASE ~Commit(v) /\ ~Publish(v)
  <2>1. UNCHANGED <<entries, related, events>> /\ phantoms[v] \subseteq phantoms'[v]
    BY <1>1, <1>5, TablesSame
  <2>2. \A w \in Writers : phantoms[w] \subseteq phantoms'[w]
    BY <1>1, <2>1 DEF Same
  <2>3. StoredInv'
    BY <2>1, <2>2 DEF StoredInv, Stored
  <2>. QED
    BY <1>2, <2>1, <2>3 DEF Grown, StoredInv
<1>. QED
  BY <1>3, <1>4, <1>5

(* Every step keeps the invariant.                                          *)
LEMMA NextKept ==
  ASSUME IInv, [IngestNext]_ingestVars
  PROVE  IInv'
<1>1. ASSUME NEW v \in Writers, Action(v) PROVE IInv'
  <2>1. Shape /\ StoredInv /\ LockInv /\ \A w \in Writers : WriterInv(w)
    BY DEF IInv
  <2>2. Shape' /\ StoredInv' /\ \A w \in Writers \ {v} : Grown(DOMAIN work[w])
    BY <1>1, <2>1, ShapeKept, TablesKept
  <2>3. \A w \in Writers \ {v} : Same(w)
    BY <1>1, <2>1, OthersSame
  <2>4. WriterInv(v)'
    BY <1>1, <2>1, OwnKept
  <2>5. ASSUME NEW w \in Writers \ {v} PROVE WriterInv(w)'
    BY <2>1, <2>2, <2>3, <2>5, OthersKept
  <2>6. LockInv'
    <3>1. \A w \in Writers \ {v} : work'[w] = work[w]
      BY <2>3 DEF Same
    <3>2. \A w \in Writers \ {v} : DOMAIN work'[v] \cap DOMAIN work[w] = {}
      BY <1>1, <2>1, Locked DEF Held, LockInv
    <3>. QED
      BY <2>1, <3>1, <3>2 DEF LockInv
  <2>7. \A w \in Writers : WriterInv(w)'
    BY <2>4, <2>5
  <2>. QED
    BY <2>2, <2>6, <2>7 DEF IInv
<1>2. CASE UNCHANGED ingestVars
  <2>. USE <1>2 DEF ingestVars
  <2>1. Shape' /\ StoredInv' /\ LockInv'
    BY DEF IInv, Shape, StoredInv, Stored, LockInv
  <2>2. ASSUME NEW w \in Writers PROVE WriterInv(w)'
    <3>1. Same(w)
      BY DEF Same
    <3>2. Grown(DOMAIN work[w])
      BY LaterOrder DEF Grown, IInv, StoredInv
    <3>. QED
      BY <3>1, <3>2, OthersKept DEF IInv
  <2>. QED
    BY <2>1, <2>2 DEF IInv
<1>3. CASE IngestNext
  BY <1>1, <1>3 DEF IngestNext, Action
<1>. QED
  BY <1>2, <1>3

(* It holds before anything is ingested.                                    *)
LEMMA InitiallySo ==
  ASSUME IngestInit
  PROVE  IInv
<1>. DEFINE first == [file |-> 1, row |-> 1, next |-> 1]
<1>1. /\ entries = Initial /\ events = {} /\ faults = 0
      /\ related = UNION {Initial[k].authors \cup Initial[k].topics :
                            k \in {j \in Keys : Initial[j] # NoRow}}
  BY DEF IngestInit
<1>2. \A w \in Writers :
        /\ pc[w] = "idle" /\ at[w] = first /\ needs[w] = {} /\ pending[w] = {} /\ work[w] = Nowhere
        /\ context[w] = Nowhere /\ session[w] = Nowhere /\ batch[w] = {} /\ imported[w] = {}
        /\ phantoms[w] = {} /\ errors[w] = 0 /\ runs[w] = 0
  BY DEF IngestInit
<1>3. Shape
  BY FileTypes DEF IngestInit, Shape
<1>4. DOMAIN Nowhere = {}
  BY DEF Nowhere
<1>5. StoredInv
  <2>1. ASSUME NEW k \in Keys, Initial[k] # NoRow
        PROVE  Initial[k] \in Entry /\ Links(Initial[k]) \subseteq related /\ AsParsed(k, Initial[k])
    <3>1. Initial[k] \in Entry
      BY <2>1, FileTypes
    <3>2. Links(Initial[k]) \subseteq related
      BY <1>1, <2>1 DEF Links
    <3>. QED
      BY <2>1, <3>1, <3>2 DEF AsParsed
  <2>2. related \subseteq Related
    <3>. SUFFICES ASSUME NEW n \in related PROVE n \in Related
      OBVIOUS
    <3>1. PICK k \in Keys : Initial[k] # NoRow /\ n \in Initial[k].authors \cup Initial[k].topics
      BY <1>1
    <3>. QED
      BY <2>1, <3>1, Parts
  <2>. QED
    BY <1>1, <2>1, <2>2, FileTypes DEF StoredInv
<1>6. LockInv
  BY <1>2, <1>4 DEF LockInv
<1>7. ASSUME NEW w \in Writers PROVE WriterInv(w)
  <2>1. /\ at[w].file = 1 /\ at[w].row = 1 /\ at[w].next = 1
        /\ at[w] \in [file : Nat, row : Nat, next : Nat]
    BY <1>2
  <2>2. 1 \in DOMAIN Files[w] /\ File(w) = Files[w][1] /\ Files[w][1].rows \in Seq(Parsed)
    BY <2>1, FileTypes DEF File
  <2>3. 1 \in 1..Len(File(w).rows) + 1
    <3>1. \A rows \in Seq(Parsed) : 1 \in 1..Len(rows) + 1
      OBVIOUS
    <3>. QED
      BY <2>2, <3>1
  <2>4. IsFiniteSet(batch[w]) /\ runs[w] \in 0..MaxRuns
    <3>1. MaxRuns \in Nat
      BY FileTypes
    <3>2. 0 \in 0..MaxRuns
      BY ONLY <3>1
    <3>. QED
      BY <1>2, <3>2, FS_EmptySet
  <2>5. TypeInv(w)
    BY <1>2, <1>4, <2>1, <2>2, <2>3, <2>4 DEF TypeInv
  <2>6. QuietInv(w) /\ BatchInv(w)
    BY <1>2, <1>4, <2>1 DEF QuietInv, BatchInv
  <2>7. LinksInv(w) /\ VersionInv(w)
    BY <1>2, <1>4 DEF LinksInv, VersionInv
  <2>8. CountInv(w) /\ DoneInv(w)
    BY <1>2, <1>4, <2>1 DEF CountInv, DoneInv
  <2>. QED
    BY <2>5, <2>6, <2>7, <2>8 DEF WriterInv
<1>. QED
  BY <1>3, <1>5, <1>6, <1>7 DEF IInv

(***************************************************************************)
(* The theorems.                                                           *)
(***************************************************************************)

(* The invariant, in every state the ingests can reach.                     *)
THEOREM Invariant == IngestSpec => []IInv
<1>1. IngestInit => IInv
  BY InitiallySo
<1>2. IInv /\ [IngestNext]_ingestVars => IInv'
  BY NextKept
<1>. QED
  BY <1>1, <1>2, PTL DEF IngestSpec

(* What an ingest counts, announces and has done is so: what it counts as   *)
(* imported and what its events name is committed, but for entries whose    *)
(* insert had failed in the same batch, and an ingest that ends without an  *)
(* error has stored and published every row of its files, whatever other    *)
(* ingests, failed commits and crashes there were.                          *)
THEOREM AccountsAreTrue == IngestSpec => []AccountsTrue
<1>1. ASSUME IInv PROVE IngestTypeOK
  <2>1. \A k \in Stored : entries[k].authors \cup entries[k].topics \subseteq related
    BY <1>1 DEF IInv, StoredInv, Stored, Links
  <2>2. ASSUME NEW w \in Writers
        PROVE  /\ pc[w] \in {"idle", "begin", "authors", "topics", "rows", "publish", "done", "failed"}
               /\ DOMAIN work[w] \cup DOMAIN context[w] \cup DOMAIN session[w] \subseteq Keys
               /\ batch[w] \subseteq DOMAIN context[w]
               /\ errors[w] \in Nat /\ runs[w] \in 0..MaxRuns
    BY <1>1 DEF IInv, WriterInv, TypeInv
  <2>. QED
    BY <1>1, <2>1, <2>2 DEF IInv, Shape, StoredInv, IngestTypeOK
<1>2. ASSUME IInv PROVE CountsTrue
  <2>1. \A w \in Writers : phantoms[w] \subseteq UNION Range(phantoms)
    BY <1>1, <1>2 DEF IInv, Shape, Range
  <2>. QED
    BY <1>2, <2>1 DEF IInv, WriterInv, CountInv, StoredInv, CountsTrue
<1>3. ASSUME IInv PROVE DoneIsComplete
  <2>. SUFFICES ASSUME NEW w \in Writers, pc[w] = "done", errors[w] = 0,
                       NEW i \in DOMAIN Files[w], NEW r \in ToSet(Files[w][i].rows)
                PROVE  /\ r.key \in Stored /\ r.key \in events
                       /\ Files[w][i].role = "curated" => ToSet(r.topics) \subseteq entries[r.key].topics
                       /\ Files[w][i].role = "canonical" =>
                            entries[r.key].title \in {c.title : c \in Sources(r.key, "canonical")}
    BY DEF DoneIsComplete
  <2>1. WriterInv(w) /\ StoredInv
    BY <1>3 DEF IInv
  <2>2. /\ at[w].file = Len(Files[w]) /\ at[w].row = Len(File(w).rows) + 1 /\ imported[w] \subseteq events
        /\ batch[w] = {} /\ \A k : Visible(w, k) = entries[k]
    BY <2>1, NoTransaction DEF WriterInv, BatchInv, DoneInv
  <2>3. r.key \in events /\ Holds(Files[w][i].role, r, Visible(w, r.key))
    <3>1. CASE i \in 1..at[w].file - 1
      BY <2>1, <3>1 DEF WriterInv, DoneInv
    <3>2. CASE i = at[w].file
      <4>1. File(w).rows \in Seq(Parsed) /\ r \in ToSet(File(w).rows)
        BY <2>1, <3>2, BatchFacts DEF File
      <4>2. PICK n \in 1..at[w].row - 1 : r = File(w).rows[n]
        BY <2>2, <4>1 DEF ToSet
      <4>3. r.key \in imported[w] \cup batch[w] /\ Holds(File(w).role, r, Visible(w, r.key))
        BY <2>1, <4>2 DEF WriterInv, DoneInv
      <4>. QED
        BY <2>2, <3>2, <4>3 DEF File
    <3>3. i \in 1..Len(Files[w]) /\ Len(Files[w]) \in Nat
      BY FileTypes
    <3>. QED
      BY <2>2, <3>1, <3>2, <3>3
  <2>4. r.key \in Keys /\ entries[r.key] # NoRow
    BY <2>1, <2>2, <2>3, FileTypes DEF StoredInv, Holds
  <2>. QED
    BY <2>2, <2>3, <2>4 DEF Holds, Canon, Stored
<1>4. IInv => AccountsTrue
  BY <1>1, <1>2, <1>3 DEF AccountsTrue
<1>. QED
  BY <1>4, Invariant, PTL

(* An entry is as it was before, or made of what the files say of it.       *)
THEOREM AuthorsAreParsed == IngestSpec => []AuthorsAsParsed
<1>1. IInv => AuthorsAsParsed
  BY DEF IInv, StoredInv, Stored, AuthorsAsParsed, AsParsed, Mine, Named
<1>. QED
  BY <1>1, Invariant, PTL

(* A stored entry loses no topic, and only a canonical file changes its     *)
(* title or its authors.                                                    *)
THEOREM CuratedKeeps == IngestSpec => CuratedKeepsCanonical
<1>. DEFINE A == \A k \in Stored :
                   /\ entries[k].topics \subseteq entries'[k].topics
                   /\ (entries'[k].title # entries[k].title \/ entries'[k].authors # entries[k].authors)
                        => \E w \in Writers : pc[w] = "rows" /\ pc'[w] # "rows" /\ File(w).role = "canonical"
<1>1. ASSUME IInv, IngestNext PROVE A
  <2>1. PICK v \in Writers : Action(v)
    BY <1>1 DEF IngestNext, Action
  <2>2. WriterInv(v) /\ Shape /\ StoredInv
    BY <1>1 DEF IInv
  <2>3. \A k \in Stored : entries[k].topics \subseteq entries'[k].topics
    BY <1>1, <2>1, TablesKept DEF Grown, Later, Stored
  <2>4. CASE Commit(v)
    <3>1. /\ \A k \in Keys : entries'[k] = Visible(v, k)
          /\ pc[v] = "rows" /\ pc'[v] # "rows"
      BY <2>2, <2>4, Committed DEF Commit, Shape
    <3>2. File(v).role \in {"canonical", "curated"}
      BY <2>2, FileTypes DEF WriterInv, TypeInv, File
    <3>3. CASE File(v).role = "canonical"
      BY <2>3, <3>1, <3>3
    <3>4. CASE File(v).role = "curated"
      <4>1. \A k \in Stored : entries'[k].title = entries[k].title /\ entries'[k].authors = entries[k].authors
        BY <2>2, <3>1, <3>4 DEF Visible, WriterInv, VersionInv, Stored
      <4>. QED
        BY <2>3, <4>1
    <3>. QED
      BY <3>2, <3>3, <3>4
  <2>5. CASE Publish(v)
    BY <2>2, <2>3, <2>5, Published
  <2>6. CASE ~Commit(v) /\ ~Publish(v)
    BY <2>1, <2>2, <2>3, <2>6, TablesSame
  <2>. QED
    BY <2>4, <2>5, <2>6
<1>2. IInv /\ [IngestNext]_ingestVars => [A]_ingestVars
  BY <1>1
<1>3. IngestSpec => [][A]_ingestVars
  BY <1>2, Invariant, PTL DEF IngestSpec
<1>. QED
  BY <1>3 DEF CuratedKeepsCanonical

(***************************************************************************)
(* An ingest that is alone.  What its session shows of an entry is what    *)
(* its transaction has of it, and that is what the files say up to the row *)
(* it is at; a second run finds the entries of a first one that failed,    *)
(* and takes all its rows again.                                           *)
(***************************************************************************)
At(w) == <<at[w].file, at[w].row>>
Taken(w, k) == {p \in Places(w, k) : pc[w] # "failed" /\ Before(p, At(w))}

\* An entry into which these of its rows have been taken, and maybe, in a run
\* before, others.
SoFar(w, k, e, places) ==
  /\ e = NoRow => places = {} /\ Initial[k] = NoRow
  /\ e # NoRow =>
       /\ InitialTopics(k) \cup TopicsAt(w, places) \subseteq e.topics
       /\ e.topics \subseteq InitialTopics(k) \cup TopicsAt(w, Places(w, k))
       /\ CanonPlaces(w, k) = {} =>
            IF Initial[k] = NoRow THEN IsOfFirst(w, e, Places(w, k))
            ELSE e.title = Initial[k].title /\ e.authors = Initial[k].authors
       /\ CanonPlaces(w, k) \cap places # {} => IsOfLast(w, e, CanonPlaces(w, k) \cap places)

\* The entries of its batch are in the context, if they are stored.
ContextFull(w) ==
  pc[w] = "rows" =>
    \A n \in at[w].row..at[w].next - 1 :
      File(w).rows[n].key \in Stored => File(w).rows[n].key \in DOMAIN context[w]

\* Of an entry that none of its files names, of any, and of one that is not broken.
Untouched(w, k) == k \notin DOMAIN context[w] /\ entries[k] = Initial[k]
Honest(w, k) ==
  /\ k \in DOMAIN context[w] => context[w][k] = Visible(w, k) /\ context[w][k] # NoRow
  /\ k \in DOMAIN session[w] => session[w][k] = entries[k]
Exact(w, k) ==
  /\ Places(w, k) = {} => Untouched(w, k)
  /\ ~Broken(w, k) => Honest(w, k) /\ SoFar(w, k, Visible(w, k), Taken(w, k))

ExactInv(w) ==
  /\ pc[w] = "done" => at[w].file = Len(Files[w])
  /\ Alone(w) => ContextFull(w) /\ \A k \in Keys : Exact(w, k)

(***************************************************************************)
(* Places of an entry in the files of a writer.                            *)
(***************************************************************************)

(* What a place is.                                                         *)
LEMMA PlaceFacts ==
  ASSUME NEW w \in Writers, NEW k \in Keys
  PROVE  /\ \A p \in Places(w, k) :
              /\ p[1] \in Nat /\ p[2] \in Nat /\ p = <<p[1], p[2]>>
              /\ p[1] >= 1 /\ p[2] >= 1 /\ p[1] \in DOMAIN Files[w]
              /\ p[2] <= Len(Files[w][p[1]].rows)
              /\ RowAt(w, p) \in Parsed /\ RowAt(w, p).key = k
              /\ RoleAt(w, p) \in {"canonical", "curated"}
         /\ \A i \in DOMAIN Files[w] : \A n \in DOMAIN Files[w][i].rows :
              Files[w][i].rows[n].key = k => <<i, n>> \in Places(w, k)
<1>1. ASSUME NEW p \in Places(w, k)
      PROVE  /\ p[1] \in Nat /\ p[2] \in Nat /\ p = <<p[1], p[2]>>
             /\ p[1] >= 1 /\ p[2] >= 1 /\ p[1] \in DOMAIN Files[w]
             /\ p[2] <= Len(Files[w][p[1]].rows)
             /\ RowAt(w, p) \in Parsed /\ RowAt(w, p).key = k
             /\ RoleAt(w, p) \in {"canonical", "curated"}
  <2>1. PICK i \in DOMAIN Files[w] :
          p \in {<<i, n>> : n \in {m \in DOMAIN Files[w][i].rows : Files[w][i].rows[m].key = k}}
    BY <1>1 DEF Places
  <2>2. PICK n \in DOMAIN Files[w][i].rows : p = <<i, n>> /\ Files[w][i].rows[n].key = k
    BY <2>1
  <2>3. Files[w][i].role \in {"canonical", "curated"} /\ Files[w][i].rows \in Seq(Parsed)
    BY FileTypes
  <2>4. i \in Nat /\ i >= 1
    <3>1. Files[w] \in Seq([role : {"canonical", "curated"}, rows : Seq(Parsed)])
      BY FileTypes
    <3>. QED
      BY <3>1
  <2>5. n \in Nat /\ n >= 1 /\ n <= Len(Files[w][i].rows) /\ Files[w][i].rows[n] \in Parsed
    BY <2>3
  <2>6. p[1] = i /\ p[2] = n
    BY <2>2
  <2>. QED
    BY <2>2, <2>3, <2>4, <2>5, <2>6 DEF RowAt, RoleAt
<1>2. ASSUME NEW i \in DOMAIN Files[w], NEW n \in DOMAIN Files[w][i].rows, Files[w][i].rows[n].key = k
      PROVE  <<i, n>> \in Places(w, k)
  BY <1>2 DEF Places
<1>. QED
  BY <1>1, <1>2

(* Places are in order.                                                     *)
LEMMA PlaceOrder ==
  ASSUME NEW w \in Writers, NEW k \in Keys, NEW p \in Places(w, k), NEW q \in Places(w, k)
  PROVE  /\ ~Before(p, p) /\ (Before(p, q) => ~Before(q, p))
         /\ p # q => Before(p, q) \/ Before(q, p)
<1>1. /\ p[1] \in Nat /\ p[2] \in Nat /\ p = <<p[1], p[2]>>
      /\ q[1] \in Nat /\ q[2] \in Nat /\ q = <<q[1], q[2]>>
  BY PlaceFacts
<1>2. p # q => p[1] # q[1] \/ p[2] # q[2]
  BY <1>1
<1>. QED
  BY <1>1, <1>2 DEF Before

(* The next row of an entry, taken into what is there of it.                *)
LEMMA RowTaken ==
  ASSUME NEW w \in Writers, NEW k \in Keys, NEW p \in Places(w, k), NEW places,
         places = {q \in Places(w, k) : Before(q, p)},
         NEW e \in Entry \cup {NoRow}, SoFar(w, k, e, places), NEW new,
         new = IF e = NoRow THEN Applied(RowAt(w, p), NewRow, RoleAt(w, p), TRUE)
               ELSE Applied(RowAt(w, p), e, RoleAt(w, p), FALSE)
  PROVE  new \in Entry /\ SoFar(w, k, new, places \cup {p})
<1>. DEFINE r == RowAt(w, p)
            role == RoleAt(w, p)
            canon == CanonPlaces(w, k)
            all == Places(w, k)
<1>1. r \in Parsed /\ r.key = k /\ role \in {"canonical", "curated"}
  BY PlaceFacts
<1>2. r.title \in Titles /\ ToSet(r.authors) \subseteq Related /\ ToSet(r.topics) \subseteq Related
  BY <1>1, Parts
<1>3. places \subseteq all /\ p \in all /\ p \notin places
  BY PlaceOrder
<1>4. /\ TopicsAt(w, places \cup {p}) =
           TopicsAt(w, places) \cup (IF role = "curated" THEN ToSet(r.topics) ELSE {})
      /\ TopicsAt(w, places \cup {p}) \subseteq TopicsAt(w, all)
  BY <1>3 DEF TopicsAt
<1>5. canon \subseteq all /\ (p \in canon <=> role = "canonical")
  BY DEF CanonPlaces
<1>6. role = "canonical" => canon \cap (places \cup {p}) = (canon \cap places) \cup {p}
  BY <1>5
<1>7. role = "curated" => canon \cap (places \cup {p}) = canon \cap places
  BY <1>5
<1>8. ASSUME role = "canonical", NEW f, IsOf(f, r)
      PROVE  IsOfLast(w, f, canon \cap (places \cup {p}))
  <2>1. \A q \in places \cup {p} : ~Before(p, q)
    BY <1>3, PlaceOrder
  <2>2. p \in canon \cap (places \cup {p})
    BY <1>5, <1>8
  <2>. QED
    BY <1>8, <2>1, <2>2 DEF IsOfLast
<1>9. CASE e = NoRow
  <2>1. new = [title |-> r.title, authors |-> ToSet(r.authors),
               topics |-> IF role = "curated" THEN ToSet(r.topics) ELSE {}]
    BY <1>1, <1>9, NewEntry
  <2>2. /\ new.title = r.title /\ new.authors = ToSet(r.authors)
        /\ new.topics = IF role = "curated" THEN ToSet(r.topics) ELSE {}
    BY ONLY <2>1
  <2>3. new \in Entry /\ new # NoRow
    <3>1. new \in Entry
      <4>. DEFINE a == ToSet(r.authors)  t == IF role = "curated" THEN ToSet(r.topics) ELSE {}
      <4>1. a \in SUBSET Related /\ t \in SUBSET Related
        BY <1>2
      <4>2. new = [title |-> r.title, authors |-> a, topics |-> t]
        BY <2>1
      <4>3. r.title \in Titles
        BY <1>2
      <4>. HIDE DEF a, t, r
      <4>4. [title |-> r.title, authors |-> a, topics |-> t] \in Entry
        BY ONLY <4>1, <4>3 DEF Entry
      <4>. QED
        BY ONLY <4>2, <4>4
    <3>. QED
      BY <3>1, FileTypes
  <2>4. places = {} /\ Initial[k] = NoRow /\ InitialTopics(k) = {}
    BY <1>9 DEF SoFar, InitialTopics
  <2>5. IsOf(new, r)
    BY <2>2 DEF IsOf
  <2>6. TopicsAt(w, places) = {}
    BY <2>4 DEF TopicsAt
  <2>7. IsOfFirst(w, new, all)
    <3>1. \A q \in all : ~Before(q, p)
      BY <2>4
    <3>. QED
      BY <1>3, <2>5, <3>1 DEF IsOfFirst
  <2>8. canon \cap (places \cup {p}) # {} => IsOfLast(w, new, canon \cap (places \cup {p}))
    <3>1. CASE role = "canonical"
      BY <1>8, <2>5, <3>1
    <3>2. CASE role = "curated"
      BY <1>7, <2>4, <3>2
    <3>. QED
      BY <1>1, <3>1, <3>2
  <2>9. /\ InitialTopics(k) \cup TopicsAt(w, places \cup {p}) \subseteq new.topics
        /\ new.topics \subseteq InitialTopics(k) \cup TopicsAt(w, all)
    BY <1>4, <2>2, <2>4, <2>6
  <2>. QED
    BY <2>3, <2>4, <2>7, <2>8, <2>9 DEF SoFar
<1>10. CASE e # NoRow
  <2>1. e \in Entry
    BY <1>10
  <2>2. /\ e.title \in Titles /\ e.authors \subseteq Related /\ e.topics \subseteq Related
        /\ InitialTopics(k) \cup TopicsAt(w, places) \subseteq e.topics
        /\ e.topics \subseteq InitialTopics(k) \cup TopicsAt(w, all)
        /\ canon = {} => IF Initial[k] = NoRow THEN IsOfFirst(w, e, all)
                         ELSE e.title = Initial[k].title /\ e.authors = Initial[k].authors
        /\ canon \cap places # {} => IsOfLast(w, e, canon \cap places)
    BY <1>10, <2>1, Parts DEF SoFar
  <2>3. CASE role = "canonical"
    <3>1. new = [title |-> r.title, authors |-> ToSet(r.authors), topics |-> e.topics]
      BY <1>1, <1>10, <2>1, <2>3, KnownEntry
    <3>2. new.title = r.title /\ new.authors = ToSet(r.authors) /\ new.topics = e.topics
      BY ONLY <3>1
    <3>3. new \in Entry /\ new # NoRow
      <4>. DEFINE a == ToSet(r.authors)  t == e.topics
      <4>1. /\ a \in SUBSET Related /\ t \in SUBSET Related
            /\ new = [title |-> r.title, authors |-> a, topics |-> t]
        BY <1>2, <2>2, <3>1
      <4>2. r.title \in Titles
        BY <1>2
      <4>. HIDE DEF a, t, r
      <4>3. [title |-> r.title, authors |-> a, topics |-> t] \in Entry
        BY ONLY <4>1, <4>2 DEF Entry
      <4>4. new = [title |-> r.title, authors |-> a, topics |-> t]
        BY ONLY <4>1
      <4>5. new \in Entry
        BY ONLY <4>3, <4>4
      <4>. QED
        BY <4>5, FileTypes
    <3>4. IsOfLast(w, new, canon \cap (places \cup {p}))
      BY <1>8, <2>3, <3>2 DEF IsOf
    <3>5. canon # {}
      BY <1>5, <2>3
    <3>6. TopicsAt(w, places \cup {p}) = TopicsAt(w, places)
      BY <1>4, <2>3
    <3>. QED
      BY <2>2, <3>2, <3>3, <3>4, <3>5, <3>6 DEF SoFar
  <2>4. CASE role = "curated"
    <3>1. new = [title |-> e.title, authors |-> e.authors, topics |-> e.topics \cup ToSet(r.topics)]
      BY <1>1, <1>10, <2>1, <2>4, KnownEntry
    <3>2. new.title = e.title /\ new.authors = e.authors /\ new.topics = e.topics \cup ToSet(r.topics)
      BY ONLY <3>1
    <3>3. new \in Entry /\ new # NoRow
      <4>. DEFINE a == e.authors  t == e.topics \cup ToSet(r.topics)
      <4>1. /\ a \in SUBSET Related /\ t \in SUBSET Related
            /\ new = [title |-> e.title, authors |-> a, topics |-> t]
        BY <1>2, <2>2, <3>1
      <4>. HIDE DEF a, t
      <4>2. new \in Entry
        BY <2>2, <4>1, Parts
      <4>. QED
        BY <4>2, FileTypes
    <3>4. \A q : IsOf(new, q) <=> IsOf(e, q)
      BY <3>2 DEF IsOf
    <3>5. /\ canon = {} => IF Initial[k] = NoRow THEN IsOfFirst(w, new, all)
                           ELSE new.title = Initial[k].title /\ new.authors = Initial[k].authors
          /\ canon \cap (places \cup {p}) # {} => IsOfLast(w, new, canon \cap (places \cup {p}))
      BY <1>7, <2>2, <2>4, <3>2, <3>4 DEF IsOfFirst, IsOfLast
    <3>6. /\ InitialTopics(k) \cup TopicsAt(w, places \cup {p}) \subseteq new.topics
          /\ new.topics \subseteq InitialTopics(k) \cup TopicsAt(w, all)
      BY <1>4, <2>2, <2>4, <3>2
    <3>. QED
      BY <3>3, <3>5, <3>6 DEF SoFar
  <2>. QED
    BY <1>1, <2>3, <2>4
<1>. QED
  BY <1>9, <1>10

(* Of which rows are taken when the writer has gone on to the next one.     *)
LEMMA TakenOn ==
  ASSUME Shape, NEW w \in Writers, WriterInv(w), NextRow(w), Advance(w), pc' = pc
  PROVE  /\ \A k \in Keys : k # Row(w).key => Taken(w, k)' = Taken(w, k)
         /\ \A k \in Keys : k = Row(w).key =>
              /\ At(w) \in Places(w, k)
              /\ RowAt(w, At(w)) = Row(w) /\ RoleAt(w, At(w)) = File(w).role
              /\ Taken(w, k) = {q \in Places(w, k) : Before(q, At(w))}
              /\ Taken(w, k)' = Taken(w, k) \cup {At(w)}
<1>. DEFINE i == at[w].file
            n == at[w].row
<1>1. /\ at[w] \in [file : Nat, row : Nat, next : Nat] /\ i \in DOMAIN Files[w]
      /\ at' = [at EXCEPT ![w].row = @ + 1] /\ pc[w] = "rows"
  BY DEF WriterInv, TypeInv, Advance, NextRow
<1>2. at'[w].file = i /\ at'[w].row = n + 1 /\ i \in Nat /\ n \in Nat
  BY <1>1 DEF Shape
<1>3. At(w)[1] = i /\ At(w)[2] = n /\ At(w)' = <<i, n + 1>> /\ At(w)'[1] = i /\ At(w)'[2] = n + 1
  BY <1>2 DEF At
<1>4. Row(w) = Files[w][i].rows[n] /\ n \in DOMAIN Files[w][i].rows
  <2>1. n \in 1..Len(File(w).rows) /\ Files[w][i].rows \in Seq(Parsed)
    BY <1>1, RowFacts, FileTypes
  <2>. QED
    BY <2>1 DEF File, Row
<1>. HIDE DEF i, n
<1>5. ASSUME NEW k \in Keys, NEW q \in Places(w, k)
      PROVE  Before(q, At(w)') <=> Before(q, At(w)) \/ q = At(w)
  <2>1. q[1] \in Nat /\ q[2] \in Nat /\ q = <<q[1], q[2]>>
    BY PlaceFacts
  <2>2. q = At(w) <=> q[1] = i /\ q[2] = n
    BY <1>3, <2>1 DEF At, i, n
  <2>. QED
    BY <1>2, <1>3, <2>1, <2>2 DEF Before
<1>6. ASSUME NEW k \in Keys, At(w) \in Places(w, k) PROVE Row(w).key = k
  <2>1. RowAt(w, At(w)) = Row(w)
    BY <1>3, <1>4 DEF RowAt
  <2>. QED
    BY <1>6, <2>1, PlaceFacts
<1>7. \A k \in Keys : /\ Taken(w, k) = {q \in Places(w, k) : Before(q, At(w))}
                      /\ Taken(w, k)' = {q \in Places(w, k) : Before(q, At(w)')}
  BY <1>1 DEF Taken
<1>8. ASSUME NEW k \in Keys, k # Row(w).key PROVE Taken(w, k)' = Taken(w, k)
  BY <1>5, <1>6, <1>7, <1>8
<1>9. ASSUME NEW k \in Keys, k = Row(w).key
      PROVE  /\ At(w) \in Places(w, k)
             /\ RowAt(w, At(w)) = Row(w) /\ RoleAt(w, At(w)) = File(w).role
             /\ Taken(w, k)' = Taken(w, k) \cup {At(w)}
  <2>1. At(w) \in Places(w, k)
    <3>1. <<i, n>> \in Places(w, k)
      BY <1>1, <1>4, <1>9, PlaceFacts DEF i
    <3>. QED
      BY <3>1 DEF At, i, n
  <2>2. RowAt(w, At(w)) = Row(w) /\ RoleAt(w, At(w)) = File(w).role
    BY <1>3, <1>4 DEF RowAt, RoleAt, File, i
  <2>3. Taken(w, k)' = Taken(w, k) \cup {At(w)}
    BY <1>5, <1>7, <2>1
  <2>. QED
    BY <2>1, <2>2, <2>3
<1>. QED
  BY <1>7, <1>8, <1>9

(***************************************************************************)
(* The steps of an ingest that is alone.                                   *)
(***************************************************************************)
AllExact(w) == ContextFull(w) /\ \A k \in Keys : Exact(w, k)

(* An entry of which nothing changes is as exact as before.                 *)
LEMMA ExactSame ==
  ASSUME NEW w \in Writers, NEW k \in Keys, Exact(w, k),
         k \in DOMAIN context'[w] <=> k \in DOMAIN context[w],
         k \in DOMAIN context[w] => context'[w][k] = context[w][k],
         Visible(w, k)' = Visible(w, k), UNCHANGED <<entries, session>>,
         Taken(w, k)' = Taken(w, k)
  PROVE  Exact(w, k)'
<1>1. Untouched(w, k) => Untouched(w, k)'
  BY DEF Untouched
<1>2. Honest(w, k) => Honest(w, k)'
  BY DEF Honest
<1>3. SoFar(w, k, Visible(w, k), Taken(w, k)) => SoFar(w, k, Visible(w, k), Taken(w, k))'
  <2>. DEFINE e == Visible(w, k)  t == Taken(w, k)
  <2>1. e' = e /\ t' = t
    OBVIOUS
  <2>. HIDE DEF e, t
  <2>2. SoFar(w, k, e, t) => SoFar(w, k, e, t)'
    BY <2>1 DEF SoFar, IsOfFirst, IsOfLast, IsOf, TopicsAt
  <2>. QED
    BY <2>2 DEF e, t
<1>. QED
  BY <1>1, <1>2, <1>3 DEF Exact, Broken

(* A row is taken, or is of an entry that is broken.                        *)
LEMMA RowExact ==
  ASSUME Shape, NEW w \in Writers, WriterInv(w), NextRow(w), Advance(w), AllExact(w),
         NEW k \in Keys, Row(w).key = k, UNCHANGED <<entries, pc, session>>,
         DOMAIN context'[w] = DOMAIN context[w] \cup {k},
         \A j \in DOMAIN context[w] \ {k} : context'[w][j] = context[w][j],
         \A j \in Keys \ {k} : Visible(w, j)' = Visible(w, j),
         NEW e, Visible(w, k)' = e,
         ~Broken(w, k) => /\ context'[w][k] = e /\ e # NoRow
                          /\ SoFar(w, k, e, Taken(w, k) \cup {At(w)})
  PROVE  AllExact(w)'
<1>1. /\ \A j \in Keys : j # k => Taken(w, j)' = Taken(w, j)
      /\ At(w) \in Places(w, k) /\ Taken(w, k)' = Taken(w, k) \cup {At(w)}
  <2>1. pc' = pc
    OBVIOUS
  <2>. QED
    BY <2>1, TakenOn
<1>2. /\ at'[w].row = at[w].row + 1 /\ at'[w].next = at[w].next /\ File(w)' = File(w)
      /\ at[w].row \in Nat /\ at[w].next \in Nat /\ pc[w] = "rows"
  <2>1. at[w] \in [file : Nat, row : Nat, next : Nat] /\ at' = [at EXCEPT ![w].row = @ + 1]
    BY DEF WriterInv, TypeInv, Advance
  <2>2. at'[w] = [at[w] EXCEPT !.row = @ + 1]
    BY <2>1 DEF Shape
  <2>. QED
    BY <2>1, <2>2 DEF File, NextRow
<1>3. ContextFull(w)'
  <2>1. Stored' = Stored
    BY DEF Stored
  <2>2. \A n \in at'[w].row..at'[w].next - 1 : n \in at[w].row..at[w].next - 1
    BY <1>2
  <2>. QED
    BY <1>2, <2>1, <2>2 DEF AllExact, ContextFull
<1>4. ASSUME NEW j \in Keys, j # k PROVE Exact(w, j)'
  BY <1>1, <1>4, ExactSame DEF AllExact
<1>5. Exact(w, k)'
  <2>1. Places(w, k) # {}
    BY <1>1
  <2>2. ASSUME ~Broken(w, k) PROVE Honest(w, k)' /\ SoFar(w, k, Visible(w, k), Taken(w, k))'
    <3>1. Honest(w, k)'
      BY <2>2 DEF Honest, AllExact, Exact
    <3>2. SoFar(w, k, Visible(w, k), Taken(w, k))'
      <4>. DEFINE v == Visible(w, k)  t == Taken(w, k)  u == t \cup {At(w)}
      <4>1. v' = e /\ t' = u /\ SoFar(w, k, e, u)
        BY <1>1, <2>2
      <4>. HIDE DEF v, t, u
      <4>2. SoFar(w, k, v, t)'
        BY <4>1 DEF SoFar, IsOfFirst, IsOfLast, IsOf, TopicsAt
      <4>. QED
        BY <4>2 DEF v, t
    <3>. QED
      BY <3>1, <3>2
  <2>. QED
    BY <2>1, <2>2 DEF Exact, Broken
<1>. QED
  BY <1>3, <1>4, <1>5 DEF AllExact

(* Of an entry with a broken row nothing is said.                           *)
LEMMA BrokenExact ==
  ASSUME Shape, NEW w \in Writers, WriterInv(w), NextRow(w), Advance(w), AllExact(w),
         NEW k \in Keys, Row(w).key = k, UNCHANGED <<entries, pc, session>>,
         DOMAIN context'[w] = DOMAIN context[w] \cup {k},
         \A j \in DOMAIN context[w] \ {k} : context'[w][j] = context[w][j],
         \A j \in Keys \ {k} : Visible(w, j)' = Visible(w, j), Broken(w, k)
  PROVE  AllExact(w)'
<1>1. PICK e : e = Visible(w, k)'
  OBVIOUS
<1>. QED
  BY <1>1, RowExact

(* A row without a citation key.                                            *)
LEMMA SkipExact ==
  ASSUME Shape, NEW w \in Writers, WriterInv(w), AllExact(w), SkipRow(w)
  PROVE  AllExact(w)'
<1>1. /\ NextRow(w) /\ Advance(w) /\ Row(w).key \notin Keys
      /\ UNCHANGED <<entries, pc, work, context, session>>
  BY FileTypes DEF SkipRow
<1>2. \A k \in Keys : Taken(w, k)' = Taken(w, k)
  <2>1. pc' = pc
    BY <1>1
  <2>. QED
    BY <1>1, <2>1, TakenOn
<1>3. \A k \in Keys : Exact(w, k)'
  <2>1. \A k : Visible(w, k)' = Visible(w, k)
    BY <1>1 DEF Visible
  <2>. QED
    BY <1>1, <1>2, <2>1, ExactSame DEF AllExact
<1>4. ContextFull(w)'
  <2>1. at[w] \in [file : Nat, row : Nat, next : Nat] /\ at' = [at EXCEPT ![w].row = @ + 1]
    BY <1>1 DEF WriterInv, TypeInv, Advance
  <2>2. at'[w] = [at[w] EXCEPT !.row = @ + 1]
    BY <2>1 DEF Shape
  <2>3. /\ at'[w].row = at[w].row + 1 /\ at'[w].next = at[w].next /\ File(w)' = File(w)
        /\ at[w].row \in Nat /\ at[w].next \in Nat
    BY <2>1, <2>2 DEF File
  <2>4. Stored' = Stored
    BY <1>1 DEF Stored
  <2>5. \A n \in at'[w].row..at'[w].next - 1 : n \in at[w].row..at[w].next - 1
    BY <2>3
  <2>. QED
    BY <1>1, <2>3, <2>4, <2>5 DEF AllExact, ContextFull
<1>. QED
  BY <1>3, <1>4 DEF AllExact

(* A row fails only if its entry has a broken one.                          *)
LEMMA FailedExact ==
  ASSUME Shape, StoredInv, NEW w \in Writers, WriterInv(w), NextRow(w), AllExact(w),
         NEW k \in Keys, Row(w).key = k, Failed(w, k), Broken(w, k)
  PROVE  AllExact(w)'
<1>1. /\ context'[w] = [j \in DOMAIN context[w] \cup {k} |->
                          IF j # k THEN context[w][j]
                          ELSE IF k \in DOMAIN context[w] /\ context[w][k] # NoRow THEN Expired ELSE NoRow]
      /\ Advance(w) /\ UNCHANGED <<entries, pc, work, session>>
  BY DEF Failed, Shape
<1>2. \A j : Visible(w, j)' = Visible(w, j)
  BY <1>1 DEF Visible
<1>3. /\ DOMAIN context'[w] = DOMAIN context[w] \cup {k}
      /\ \A j \in DOMAIN context[w] \ {k} : context'[w][j] = context[w][j]
  BY <1>1
<1>. QED
  BY <1>1, <1>2, <1>3, BrokenExact

(* A row is taken into what the session and the transaction have of its     *)
(* entry, which is the same.                                                *)
LEMMA WrittenExact ==
  ASSUME Shape, NEW w \in Writers, WriterInv(w), NextRow(w), AllExact(w),
         NEW k \in Keys, Row(w).key = k, NEW e \in Entry, NEW stored, Written(w, k, e, stored),
         stored = e \/ stored = NoRow, stored = NoRow => Visible(w, k) = e,
         ~Broken(w, k) => SoFar(w, k, e, Taken(w, k) \cup {At(w)})
  PROVE  AllExact(w)'
<1>1. /\ context'[w] = [j \in DOMAIN context[w] \cup {k} |-> IF j = k THEN e ELSE context[w][j]]
      /\ work'[w] = IF stored = NoRow THEN work[w]
                    ELSE [j \in DOMAIN work[w] \cup {k} |-> IF j = k THEN stored ELSE work[w][j]]
      /\ Advance(w) /\ UNCHANGED <<entries, pc, session>>
  BY DEF Written, Shape
<1>2. /\ DOMAIN context'[w] = DOMAIN context[w] \cup {k} /\ context'[w][k] = e
      /\ \A j \in DOMAIN context[w] \ {k} : context'[w][j] = context[w][j]
  BY <1>1
<1>3. e # NoRow
  BY FileTypes
<1>4. Visible(w, k)' = e /\ \A j \in Keys \ {k} : Visible(w, j)' = Visible(w, j)
  <2>1. CASE stored = NoRow
    BY <1>1, <2>1 DEF Visible
  <2>2. CASE stored # NoRow
    BY <1>1, <2>2 DEF Visible
  <2>. QED
    BY <2>1, <2>2
<1>. QED
  BY <1>1, <1>2, <1>3, <1>4, RowExact

(* The places before the row of the writer, and that row.                   *)
LEMMA ThisRow ==
  ASSUME NEW w \in Writers, WriterInv(w), NextRow(w), NEW k \in Keys, Row(w).key = k
  PROVE  /\ At(w) \in Places(w, k) /\ RowAt(w, At(w)) = Row(w) /\ RoleAt(w, At(w)) = File(w).role
         /\ Taken(w, k) = {q \in Places(w, k) : Before(q, At(w))}
         /\ Row(w).broken => Broken(w, k)
<1>1. /\ at[w].file \in DOMAIN Files[w] /\ at[w].row \in DOMAIN Files[w][at[w].file].rows
      /\ Row(w) = Files[w][at[w].file].rows[at[w].row] /\ pc[w] = "rows"
  <2>1. at[w].file \in DOMAIN Files[w] /\ at[w].row \in 1..Len(File(w).rows)
    BY RowFacts DEF WriterInv, TypeInv
  <2>2. Files[w][at[w].file].rows \in Seq(Parsed)
    BY <2>1, FileTypes
  <2>. QED
    BY <2>1, <2>2 DEF File, Row, NextRow
<1>2. At(w) \in Places(w, k)
  BY <1>1, PlaceFacts DEF At
<1>3. RowAt(w, At(w)) = Row(w) /\ RoleAt(w, At(w)) = File(w).role
  BY <1>1 DEF RowAt, RoleAt, At, File
<1>. QED
  BY <1>1, <1>2, <1>3 DEF Taken, Broken

(* A new entry: one that is stored is in the context.                       *)
LEMMA CreateExact ==
  ASSUME Shape, StoredInv, NEW w \in Writers, WriterInv(w), AllExact(w), CreateEntry(w)
  PROVE  AllExact(w)'
<1>1. PICK k \in Keys : k = Row(w).key /\ k \notin DOMAIN context[w] /\ NextRow(w)
  BY DEF CreateEntry
<1>2. entries[k] = NoRow /\ Visible(w, k) = NoRow
  <2>1. at[w].row \in at[w].row..at[w].next - 1 /\ pc[w] = "rows"
    BY <1>1 DEF NextRow, WriterInv, TypeInv
  <2>2. k \notin Stored
    BY <1>1, <2>1 DEF AllExact, ContextFull, Row
  <2>3. k \notin DOMAIN work[w]
    BY <1>1 DEF WriterInv, TypeInv
  <2>. QED
    BY <1>1, <2>2, <2>3 DEF Stored, Visible
<1>3. CASE Row(w).broken
  <2>1. Failed(w, k)
    BY <1>1, <1>3 DEF CreateEntry
  <2>. QED
    BY <1>1, <1>3, <2>1, ThisRow, FailedExact
<1>4. CASE ~Row(w).broken
  <2>. DEFINE new == Applied(Row(w), NewRow, File(w).role, TRUE)
  <2>1. Written(w, k, new, new)
    BY <1>1, <1>2, <1>4 DEF CreateEntry
  <2>2. new \in Entry
    <3>1. Row(w) \in Sources(k, File(w).role) /\ File(w).role \in {"canonical", "curated"}
      BY <1>1, RowFacts
    <3>. QED
      BY <3>1, NewVersion
  <2>3. ASSUME ~Broken(w, k) PROVE SoFar(w, k, new, Taken(w, k) \cup {At(w)})
    <3>1. SoFar(w, k, NoRow, Taken(w, k))
      BY <1>2, <2>3 DEF AllExact, Exact
    <3>2. new = Applied(RowAt(w, At(w)), NewRow, RoleAt(w, At(w)), TRUE)
      BY <1>1, ThisRow
    <3>. HIDE DEF new
    <3>. QED
      BY <1>1, <3>1, <3>2, ThisRow, RowTaken
  <2>4. new # NoRow
    BY <2>2, FileTypes
  <2>. HIDE DEF new
  <2>. QED
    BY <1>1, <2>1, <2>2, <2>3, <2>4, WrittenExact
<1>. QED
  BY <1>3, <1>4

(* A change to what is there; unless the entry has a broken row, no link    *)
(* stands in its way.                                                       *)
LEMMA UpdateExact ==
  ASSUME Shape, StoredInv, NEW w \in Writers, WriterInv(w), AllExact(w), UpdateEntry(w)
  PROVE  AllExact(w)'
<1>1. PICK k \in Keys : k = Row(w).key /\ k \in DOMAIN context[w] /\ NextRow(w)
                          /\ context[w][k] \in Entry
  BY DEF UpdateEntry, WriterInv, TypeInv
<1>. DEFINE old == context[w][k]
            role == File(w).role
            new == Applied(Row(w), old, role, FALSE)
            kept == Kept(role, old, new)
            stored == Visible(w, k)
            fl == Flushed(stored, old, new)
<1>2. \/ new = old /\ kept = {} /\ Written(w, k, old, NoRow)
      \/ /\ Row(w).broken \/ LinkExists(stored, old, new) \/ ~(kept \subseteq stored.authors)
         /\ Failed(w, k)
      \/ ~Row(w).broken /\ Written(w, k, new, fl)
  BY <1>1 DEF UpdateEntry
<1>3. old \in Entry /\ old # NoRow
  BY <1>1, FileTypes
<1>4. new \in Entry
  <2>1. Row(w) \in Parsed /\ role \in {"canonical", "curated"}
    BY <1>1, RowFacts
  <2>2. /\ old.title \in Titles /\ old.authors \subseteq Related /\ old.topics \subseteq Related
        /\ Row(w).title \in Titles /\ ToSet(Row(w).authors) \subseteq Related
        /\ ToSet(Row(w).topics) \subseteq Related
    BY <1>3, <2>1, Parts
  <2>. DEFINE a == ToSet(Row(w).authors)  t == old.topics \cup ToSet(Row(w).topics)
  <2>3. a \in SUBSET Related /\ t \in SUBSET Related
    BY <2>2
  <2>4. \/ new = [title |-> Row(w).title, authors |-> a, topics |-> old.topics]
        \/ new = [title |-> old.title, authors |-> old.authors, topics |-> t]
    BY <1>3, <2>1, KnownEntry
  <2>. HIDE DEF new, old, role, a, t
  <2>. QED
    BY <2>2, <2>3, <2>4, Parts
<1>5. CASE Broken(w, k)
  <2>1. CASE Failed(w, k)
    BY <1>1, <1>5, <2>1, FailedExact
  <2>2. ASSUME NEW e \in Entry, NEW s, Written(w, k, e, s) PROVE AllExact(w)'
    <3>1. /\ context'[w] = [j \in DOMAIN context[w] \cup {k} |-> IF j = k THEN e ELSE context[w][j]]
          /\ work'[w] = IF s = NoRow THEN work[w]
                        ELSE [j \in DOMAIN work[w] \cup {k} |-> IF j = k THEN s ELSE work[w][j]]
          /\ Advance(w) /\ UNCHANGED <<entries, pc, session>>
      BY <2>2 DEF Written, Shape
    <3>2. /\ DOMAIN context'[w] = DOMAIN context[w] \cup {k}
          /\ \A j \in DOMAIN context[w] \ {k} : context'[w][j] = context[w][j]
          /\ \A j \in Keys \ {k} : Visible(w, j)' = Visible(w, j)
      BY <3>1 DEF Visible
    <3>. QED
      BY <1>1, <1>5, <3>1, <3>2, BrokenExact
  <2>. QED
    BY <1>2, <1>3, <1>4, <2>1, <2>2
<1>6. CASE ~Broken(w, k)
  <2>1. stored = old /\ SoFar(w, k, old, Taken(w, k))
    BY <1>1, <1>6 DEF AllExact, Exact, Honest
  <2>2. ~Row(w).broken
    BY <1>1, <1>6, ThisRow
  <2>3. ~LinkExists(stored, old, new) /\ kept \subseteq stored.authors /\ fl = new
    <3>1. kept \subseteq old.authors
      BY DEF Kept
    <3>2. ~LinkExists(old, old, new)
      BY DEF LinkExists
    <3>3. Flushed(old, old, new) = new
      <4>1. new = [title |-> new.title, authors |-> new.authors, topics |-> new.topics]
        BY <1>4, Parts
      <4>2. /\ (old.authors \ (old.authors \ new.authors)) \cup (new.authors \ old.authors) = new.authors
            /\ (old.topics \ (old.topics \ new.topics)) \cup (new.topics \ old.topics) = new.topics
        OBVIOUS
      <4>. HIDE DEF new, old
      <4>. QED
        BY <4>1, <4>2 DEF Flushed
    <3>. QED
      BY <2>1, <3>1, <3>2, <3>3
  <2>4. SoFar(w, k, new, Taken(w, k) \cup {At(w)})
    <3>1. new = Applied(RowAt(w, At(w)), old, RoleAt(w, At(w)), FALSE)
      BY <1>1, ThisRow
    <3>. HIDE DEF new, old
    <3>. QED
      BY <1>1, <1>3, <2>1, <3>1, ThisRow, RowTaken
  <2>5. \/ new = old /\ Written(w, k, old, NoRow)
        \/ Written(w, k, new, new)
    BY <1>2, <2>2, <2>3
  <2>. HIDE DEF old, role, new, kept, stored, fl
  <2>6. new # NoRow
    BY <1>4, FileTypes
  <2>7. CASE new = old /\ Written(w, k, old, NoRow)
    BY <1>1, <1>3, <2>1, <2>4, <2>7, WrittenExact DEF stored
  <2>8. CASE Written(w, k, new, new)
    BY <1>1, <1>4, <2>4, <2>6, <2>8, WrittenExact
  <2>. QED
    BY <2>5, <2>7, <2>8
<1>. QED
  BY <1>5, <1>6

(* Only an entry with a broken row fails, and comes again after it failed.  *)
LEMMA RepeatExact ==
  ASSUME Shape, StoredInv, NEW w \in Writers, WriterInv(w), AllExact(w), RepeatEntry(w)
  PROVE  AllExact(w)'
<1>1. PICK k \in Keys : k = Row(w).key /\ k \in DOMAIN context[w] /\ NextRow(w)
                          /\ context[w][k] \in {NoRow, Expired}
  BY DEF RepeatEntry, WriterInv, TypeInv
<1>2. Broken(w, k)
  <2>1. Visible(w, k) \notin {NoRow, Expired} \/ Visible(w, k) = NoRow
    BY VisibleFacts, FileTypes
  <2>2. Honest(w, k) => context[w][k] = Visible(w, k) /\ context[w][k] # NoRow
    BY <1>1 DEF Honest
  <2>. QED
    BY <1>1, <2>1, <2>2 DEF AllExact, Exact
<1>3. CASE Failed(w, k)
  BY <1>1, <1>2, <1>3, FailedExact
<1>4. CASE Written(w, k, NoRow, NoRow)
  <2>1. /\ context'[w] = [j \in DOMAIN context[w] \cup {k} |-> IF j = k THEN NoRow ELSE context[w][j]]
        /\ work'[w] = work[w]
        /\ Advance(w) /\ UNCHANGED <<entries, pc, session>>
    BY <1>4 DEF Written, Shape
  <2>2. /\ DOMAIN context'[w] = DOMAIN context[w] \cup {k}
        /\ \A j \in DOMAIN context[w] \ {k} : context'[w][j] = context[w][j]
        /\ \A j \in Keys \ {k} : Visible(w, j)' = Visible(w, j)
    BY <2>1 DEF Visible
  <2>. QED
    BY <1>1, <1>2, <2>1, <2>2, BrokenExact
<1>. QED
  BY <1>1, <1>3, <1>4 DEF RepeatEntry

(* No rows taken, or those that were.                                       *)
LEMMA NoneTaken ==
  ASSUME NEW w, NEW k, NEW e, NEW places, SoFar(w, k, e, places)
  PROVE  SoFar(w, k, e, {})
BY DEF SoFar, TopicsAt

(* Out of a batch: what is stored is what the transaction had, and so is    *)
(* what the session keeps.                                                  *)
LEMMA SettledExact ==
  ASSUME NEW w \in Writers, WriterInv(w), AllExact(w), pc'[w] # "rows",
         DOMAIN context'[w] = {}, DOMAIN work'[w] = {},
         \A k \in Keys : entries'[k] = Visible(w, k),
         \A k \in DOMAIN session'[w] : k \in Keys /\ (~Broken(w, k) => session'[w][k] = Visible(w, k)),
         \A k \in Keys : Taken(w, k)' \in {Taken(w, k), {}}
  PROVE  AllExact(w)'
<1>1. ContextFull(w)'
  BY DEF ContextFull
<1>2. ASSUME NEW k \in Keys PROVE Exact(w, k)'
  <2>1. Visible(w, k)' = Visible(w, k)
    BY DEF Visible
  <2>2. ASSUME Places(w, k) = {} PROVE Untouched(w, k)'
    <3>1. k \notin DOMAIN work[w] /\ entries[k] = Initial[k]
      BY <2>2 DEF AllExact, Exact, Untouched, WriterInv, TypeInv
    <3>. QED
      BY <3>1 DEF Untouched, Visible
  <2>3. ASSUME ~Broken(w, k) PROVE Honest(w, k)' /\ SoFar(w, k, Visible(w, k), Taken(w, k))'
    <3>1. Honest(w, k)'
      BY <2>3 DEF Honest
    <3>2. SoFar(w, k, Visible(w, k), Taken(w, k))'
      <4>. DEFINE v == Visible(w, k)  t == Taken(w, k)
      <4>1. SoFar(w, k, v, t) /\ v' = v /\ t' \in {t, {}}
        BY <2>1, <2>3 DEF AllExact, Exact
      <4>2. SoFar(w, k, v, {})
        BY <4>1, NoneTaken
      <4>3. PICK u : u = t' /\ SoFar(w, k, v, u)
        BY <4>1, <4>2
      <4>. HIDE DEF v, t
      <4>4. SoFar(w, k, v, t)'
        BY <4>1, <4>3 DEF SoFar, IsOfFirst, IsOfLast, IsOf, TopicsAt
      <4>. QED
        BY <4>4 DEF v, t
    <3>. QED
      BY <3>1, <3>2
  <2>. QED
    BY <2>2, <2>3 DEF Exact, Broken
<1>. QED
  BY <1>1, <1>2 DEF AllExact

(* Before the batch, and at the start.                                      *)
LEMMA QuietExact ==
  ASSUME Shape, NEW w \in Writers, WriterInv(w), AllExact(w), pc[w] # "rows", pc'[w] # "rows",
         entries' = entries, context'[w] \in {context[w], Nowhere}, work'[w] \in {work[w], Nowhere},
         session'[w] \in {session[w], Nowhere},
         \A k \in Keys : Taken(w, k)' \in {Taken(w, k), {}}
  PROVE  AllExact(w)'
<1>1. /\ DOMAIN context[w] = {} /\ DOMAIN work[w] = {} /\ DOMAIN Nowhere = {}
      /\ \A k : Visible(w, k) = entries[k]
  BY NoTransaction DEF Nowhere
<1>2. DOMAIN context'[w] = {} /\ DOMAIN work'[w] = {}
  BY <1>1
<1>3. \A k \in DOMAIN session'[w] :
        k \in Keys /\ (~Broken(w, k) => session'[w][k] = Visible(w, k))
  <2>1. \A k \in DOMAIN session[w] : k \in Keys /\ (~Broken(w, k) => session[w][k] = Visible(w, k))
    BY <1>1 DEF WriterInv, TypeInv, AllExact, Exact, Honest
  <2>. QED
    BY <1>1, <2>1
<1>. QED
  BY <1>1, <1>2, <1>3, SettledExact

(* Which rows are taken depends on where the writer is.                     *)
LEMMA TakenSame ==
  ASSUME NEW w \in Writers, at'[w].file = at[w].file, at'[w].row = at[w].row, pc[w] # "failed"
  PROVE  \A k \in Keys : Taken(w, k)' \in {Taken(w, k), {}}
BY DEF Taken, At

(* It is at the first row, or has failed.                                   *)
LEMMA TakenNone ==
  ASSUME NEW w \in Writers, pc'[w] = "failed" \/ (at'[w].file = 1 /\ at'[w].row = 1)
  PROVE  \A k \in Keys : Taken(w, k)' = {}
<1>1. ASSUME NEW k \in Keys, NEW p \in Places(w, k), at'[w].file = 1, at'[w].row = 1
      PROVE  ~Before(p, At(w)')
  <2>1. At(w)'[1] = 1 /\ At(w)'[2] = 1
    BY <1>1 DEF At
  <2>2. p[1] \in Nat /\ p[2] \in Nat /\ p[1] >= 1 /\ p[2] >= 1
    BY PlaceFacts
  <2>. QED
    BY <2>1, <2>2 DEF Before
<1>. QED
  BY <1>1 DEF Taken

(* The batch is loaded: the session keeps no other version of an entry.     *)
LEMMA LoadExact ==
  ASSUME Shape, StoredInv, NEW w \in Writers, WriterInv(w), AllExact(w), LoadEntries(w)
  PROVE  AllExact(w)'
<1>. DEFINE keys == {Batch(w)[i].key : i \in DOMAIN Batch(w)} \cap Stored
            Seen(k) == IF k \in DOMAIN session[w] /\ session[w][k] # Expired
                       THEN session[w][k] ELSE entries[k]
<1>1. /\ pc[w] = "topics" /\ pc'[w] = "rows"
      /\ context'[w] = [k \in keys |-> Seen(k)]
      /\ session'[w] = [k \in DOMAIN session[w] |-> IF k \in keys THEN Seen(k) ELSE session[w][k]]
      /\ at' = [at EXCEPT ![w].next = @ + Len(Batch(w))]
      /\ UNCHANGED <<entries, work>>
  BY DEF LoadEntries, Shape
<1>2. at[w] \in [file : Nat, row : Nat, next : Nat] /\ at[w].next = at[w].row
  BY <1>1 DEF WriterInv, TypeInv, BatchInv
<1>3. /\ at'[w].file = at[w].file /\ at'[w].row = at[w].row
      /\ at'[w].next = at[w].row + Len(Batch(w)) /\ File(w)' = File(w)
  <2>1. at'[w] = [at[w] EXCEPT !.next = @ + Len(Batch(w))]
    BY <1>1 DEF Shape
  <2>. QED
    BY <1>2, <2>1 DEF File
<1>4. DOMAIN context[w] = {} /\ \A k : Visible(w, k) = entries[k] /\ Visible(w, k)' = entries[k]
  <2>1. DOMAIN context[w] = {} /\ DOMAIN work[w] = {}
    BY <1>1, NoTransaction
  <2>. QED
    BY <1>1, <2>1 DEF Visible
<1>5. \A k \in Keys : ~Broken(w, k) => Seen(k) = entries[k]
  BY DEF AllExact, Exact, Honest
<1>6. /\ DOMAIN context'[w] = keys /\ \A k \in keys : context'[w][k] = Seen(k)
      /\ DOMAIN session'[w] = DOMAIN session[w]
      /\ \A k \in DOMAIN session[w] : session'[w][k] = IF k \in keys THEN Seen(k) ELSE session[w][k]
      /\ keys \subseteq Stored
  BY <1>1
<1>7. \A n \in at'[w].row..at'[w].next - 1 :
        \E i \in DOMAIN Batch(w) : Batch(w)[i] = File(w).rows[n]
  <2>. SUFFICES ASSUME NEW n \in at'[w].row..at'[w].next - 1
                PROVE  \E i \in DOMAIN Batch(w) : Batch(w)[i] = File(w).rows[n]
    OBVIOUS
  <2>. HIDE DEF keys, Seen
  <2>0. n \in at[w].row..at[w].row + Len(Batch(w)) - 1
    <3>1. at'[w].row = at[w].row /\ at'[w].next = at[w].row + Len(Batch(w))
      BY <1>3
    <3>2. at[w].row \in Nat /\ Len(Batch(w)) \in Nat
      BY <1>2, BatchFacts
    <3>. QED
      BY <3>1, <3>2
  <2>1. n - at[w].row + 1 \in DOMAIN Batch(w) /\ Batch(w)[n - at[w].row + 1] = File(w).rows[n]
    BY <2>0, BatchFacts
  <2>. QED
    BY <2>1
<1>8. \A k \in keys : Places(w, k) # {}
  <2>. SUFFICES ASSUME NEW k \in keys PROVE Places(w, k) # {}
    OBVIOUS
  <2>1. PICK i \in DOMAIN Batch(w) : Batch(w)[i].key = k
    OBVIOUS
  <2>2. k \in Keys
    BY DEF Stored
  <2>3. PICK n \in 1..Len(File(w).rows) : File(w).rows[n] = Batch(w)[i]
    <3>1. i \in Nat /\ i >= 1 /\ i <= Len(Batch(w)) /\ Len(Batch(w)) \in Nat
      BY BatchFacts
    <3>2. at[w].row \in Nat /\ at[w].row >= 1 /\ Len(File(w).rows) \in Nat
      BY BatchFacts DEF WriterInv, TypeInv
    <3>. DEFINE n == at[w].row + i - 1
    <3>3. n \in at[w].row..at[w].row + Len(Batch(w)) - 1 /\ n - at[w].row + 1 = i
      BY <3>1, <3>2
    <3>. HIDE DEF n
    <3>4. Batch(w)[n - at[w].row + 1] = File(w).rows[n]
      BY <3>3, BatchFacts
    <3>5. at[w].row + Len(Batch(w)) <= Len(File(w).rows) + 1
      BY BatchFacts
    <3>6. \A m, b, l \in Nat : \A j \in m..m + b - 1 : m >= 1 /\ m + b <= l + 1 => j \in 1..l
      OBVIOUS
    <3>7. n \in 1..Len(File(w).rows)
      BY <3>1, <3>2, <3>3, <3>5, <3>6
    <3>. QED
      BY <3>3, <3>4, <3>7
  <2>4. at[w].file \in DOMAIN Files[w] /\ n \in DOMAIN Files[w][at[w].file].rows
    BY BatchFacts DEF WriterInv, TypeInv, File
  <2>5. <<at[w].file, n>> \in Places(w, k)
    BY <2>1, <2>2, <2>3, <2>4, PlaceFacts DEF File
  <2>. QED
    BY <2>5
<1>9. ContextFull(w)'
  <2>1. Stored' = Stored
    BY <1>1 DEF Stored
  <2>. QED
    BY <1>3, <1>6, <1>7, <2>1 DEF ContextFull
<1>. HIDE DEF keys, Seen
<1>10. ASSUME NEW k \in Keys PROVE Exact(w, k)'
  <2>1. Places(w, k) = {} => Untouched(w, k)'
    BY <1>1, <1>6, <1>8 DEF AllExact, Exact, Untouched
  <2>2. ASSUME ~Broken(w, k) PROVE Honest(w, k)'
    <3>1. entries[k] = Seen(k) /\ (k \in DOMAIN session[w] => session[w][k] = entries[k])
      BY <1>5, <2>2 DEF AllExact, Exact, Honest
    <3>2. k \in keys => entries[k] # NoRow
      BY <1>6 DEF Stored
    <3>. QED
      BY <1>1, <1>4, <1>6, <3>1, <3>2 DEF Honest
  <2>3. ASSUME ~Broken(w, k) PROVE SoFar(w, k, Visible(w, k), Taken(w, k))'
    <3>. DEFINE v == Visible(w, k)  t == Taken(w, k)
    <3>1. SoFar(w, k, v, t) /\ v' = v
      BY <1>4, <2>3 DEF AllExact, Exact
    <3>2. t' = t
      BY <1>1, <1>3 DEF Taken, At
    <3>. HIDE DEF v, t
    <3>3. SoFar(w, k, v, t)'
      BY <3>1, <3>2 DEF SoFar, IsOfFirst, IsOfLast, IsOf, TopicsAt
    <3>. QED
      BY <3>3 DEF v, t
  <2>. QED
    BY <2>1, <2>2, <2>3 DEF Exact, Broken
<1>. QED
  BY <1>9, <1>10 DEF AllExact

(* The batch is committed.                                                  *)
LEMMA CommitExact ==
  ASSUME Shape, StoredInv, NEW w \in Writers, WriterInv(w), AllExact(w), Commit(w)
  PROVE  AllExact(w)'
<1>. DEFINE kept == {k \in batch[w] : context[w][k] # NoRow}
<1>1. /\ pc[w] = "rows" /\ pc'[w] \in {"publish", "begin"} /\ at' = at
      /\ work'[w] = Nowhere /\ context'[w] = Nowhere
      /\ session'[w] = [k \in DOMAIN session[w] \cup kept |->
                          IF k \in kept THEN context[w][k] ELSE session[w][k]]
  BY DEF Commit, Dropped, Shape
<1>2. \A k \in Keys : entries'[k] = Visible(w, k)
  BY Committed
<1>3. DOMAIN Nowhere = {}
  BY DEF Nowhere
<1>4. /\ DOMAIN session'[w] = DOMAIN session[w] \cup kept
      /\ \A k \in kept : session'[w][k] = context[w][k]
      /\ \A k \in DOMAIN session[w] \ kept : session'[w][k] = session[w][k]
      /\ \A k \in kept : k \in batch[w] /\ k \in DOMAIN context[w] /\ k \in Keys
      /\ \A k \in batch[w] \ kept : context[w][k] = NoRow
  BY <1>1 DEF WriterInv, TypeInv
<1>. HIDE DEF kept
<1>5. ASSUME NEW k \in DOMAIN session'[w]
      PROVE  k \in Keys /\ (~Broken(w, k) => session'[w][k] = Visible(w, k))
  <2>1. k \in Keys
    BY <1>4 DEF WriterInv, TypeInv
  <2>2. ASSUME ~Broken(w, k) PROVE session'[w][k] = Visible(w, k)
    <3>1. Honest(w, k)
      BY <2>1, <2>2 DEF AllExact, Exact
    <3>2. CASE k \in kept
      BY <1>4, <3>1, <3>2 DEF Honest
    <3>3. CASE k \notin kept
      <4>1. k \notin batch[w]
        BY <1>4, <3>1, <3>3 DEF Honest, WriterInv, TypeInv
      <4>2. k \notin DOMAIN work[w]
        BY <4>1 DEF WriterInv, TypeInv
      <4>. QED
        BY <1>4, <3>1, <3>3, <4>2 DEF Honest, Visible
    <3>. QED
      BY <3>2, <3>3
  <2>. QED
    BY <2>1, <2>2
<1>6. \A k \in Keys : Taken(w, k)' \in {Taken(w, k), {}}
  BY <1>1, TakenSame
<1>7. pc'[w] # "rows" /\ DOMAIN context'[w] = {} /\ DOMAIN work'[w] = {}
  BY <1>1, <1>3
<1>. QED
  BY <1>2, <1>5, <1>6, <1>7, SettledExact

(* The end of a file is the beginning of the next.                          *)
LEMMA PublishExact ==
  ASSUME Shape, StoredInv, NEW w \in Writers, WriterInv(w), AllExact(w), Publish(w)
  PROVE  AllExact(w)' /\ (pc'[w] = "done" => at'[w].file = Len(Files[w]))
<1>1. pc[w] = "publish"
  BY DEF Publish
<1>2. CASE Raise(w)
  <2>1. /\ pc'[w] = "failed" /\ UNCHANGED <<entries, session>>
        /\ context'[w] = Nowhere /\ work'[w] = Nowhere
    BY <1>2 DEF Raise, Dropped, Shape
  <2>2. \A k \in Keys : Taken(w, k)' = {}
    BY <2>1, TakenNone
  <2>3. session'[w] = session[w] /\ pc'[w] # "rows" /\ pc'[w] # "done"
    BY <2>1
  <2>4. AllExact(w)'
    BY <1>1, <2>1, <2>2, <2>3, QuietExact
  <2>. QED
    BY <2>3, <2>4
<1>3. CASE ~Raise(w)
  <2>1. UNCHANGED <<entries, context, work>>
    BY <1>3 DEF Publish
  <2>2. CASE at[w].file = Len(Files[w])
    <3>1. pc'[w] = "done" /\ at' = at /\ session' = session
      BY <1>3, <2>2 DEF Publish, Shape
    <3>2. \A k \in Keys : Taken(w, k)' \in {Taken(w, k), {}}
      BY <1>1, <3>1, TakenSame
    <3>3. context'[w] = context[w] /\ work'[w] = work[w] /\ session'[w] = session[w] /\ pc'[w] # "rows"
      BY <2>1, <3>1
    <3>4. AllExact(w)'
      BY <1>1, <2>1, <3>2, <3>3, QuietExact
    <3>. QED
      BY <2>2, <3>1, <3>4
  <2>3. CASE at[w].file # Len(Files[w])
    <3>1. /\ pc'[w] = "begin" /\ session'[w] \in {session[w], Nowhere}
          /\ at'[w] = [file |-> at[w].file + 1, row |-> 1, next |-> 1]
      BY <1>3, <2>3 DEF Publish, Shape
    <3>2. at[w].row = Len(File(w).rows) + 1 /\ at[w].file \in Nat /\ at[w].row \in Nat
      BY <1>1 DEF WriterInv, TypeInv, BatchInv
    <3>3. ASSUME NEW k \in Keys PROVE Taken(w, k)' = Taken(w, k)
      <4>1. /\ At(w)[1] = at[w].file /\ At(w)[2] = at[w].row
            /\ At(w)'[1] = at[w].file + 1 /\ At(w)'[2] = 1
        BY <3>1 DEF At
      <4>2. ASSUME NEW p \in Places(w, k) PROVE Before(p, At(w)') <=> Before(p, At(w))
        <5>1. /\ p[1] \in Nat /\ p[2] \in Nat /\ p[2] >= 1
              /\ p[1] = at[w].file => p[2] < at[w].row
          <6>1. p[1] = at[w].file => p[2] <= Len(File(w).rows)
            BY PlaceFacts DEF File
          <6>2. Len(File(w).rows) \in Nat
            BY BatchFacts
          <6>. QED
            BY <3>2, <6>1, <6>2, PlaceFacts
        <5>. QED
          BY <3>2, <4>1, <5>1 DEF Before
      <4>. QED
        BY <1>1, <3>1, <4>2 DEF Taken
    <3>4. context'[w] = context[w] /\ work'[w] = work[w] /\ pc'[w] # "rows" /\ pc'[w] # "done"
      BY <2>1, <3>1
    <3>5. AllExact(w)'
      BY <1>1, <2>1, <3>1, <3>3, <3>4, QuietExact
    <3>. QED
      BY <3>4, <3>5
  <2>. QED
    BY <2>2, <2>3
<1>. QED
  BY <1>2, <1>3

(* What a step does to the place of its writer, and that no fault goes away. *)
LEMMA ActionEnds ==
  ASSUME Shape, NEW v \in Writers, Action(v)
  PROVE  /\ pc'[v] # "idle" /\ (pc'[v] = "done" => Publish(v))
         /\ faults' = 0 => faults = 0 /\ ~CommitFails(v) /\ ~Crash(v)
<1>. USE DEF Shape
<1>0. faults \in Nat
  BY FileTypes
<1>. DEFINE G == /\ pc'[v] # "idle" /\ (pc'[v] = "done" => Publish(v))
                 /\ faults' \in {faults, faults + 1}
<1>1. ASSUME Start(v) PROVE G
  BY <1>1 DEF Start
<1>2. ASSUME BeginBatch(v) \/ LoadTopics(v) PROVE G
  BY <1>2 DEF BeginBatch, LoadTopics
<1>3. ASSUME InsertRelated(v) PROVE G
  BY <1>3 DEF InsertRelated, Inserts, Raise
<1>4. ASSUME LoadEntries(v) PROVE G
  BY <1>4 DEF LoadEntries
<1>5. ASSUME SkipRow(v) PROVE G
  BY <1>5 DEF SkipRow, NextRow
<1>6. ASSUME pc[v] = "rows", UNCHANGED <<pc, faults>> PROVE G
  BY <1>6
<1>7. ASSUME NEW k, Failed(v, k) PROVE UNCHANGED <<pc, faults>>
  BY <1>7 DEF Failed
<1>8. ASSUME NEW k, NEW e, NEW s, Written(v, k, e, s) PROVE UNCHANGED <<pc, faults>>
  BY <1>8 DEF Written
<1>9. ASSUME CreateEntry(v) \/ UpdateEntry(v) \/ RepeatEntry(v) PROVE G
  <2>1. pc[v] = "rows"
    BY <1>9 DEF CreateEntry, UpdateEntry, RepeatEntry, NextRow
  <2>2. UNCHANGED <<pc, faults>>
    BY <1>7, <1>8, <1>9 DEF CreateEntry, UpdateEntry, RepeatEntry
  <2>. QED
    BY <1>6, <2>1, <2>2
<1>10. ASSUME Commit(v) PROVE G
  BY <1>10 DEF Commit
<1>11. ASSUME Publish(v) PROVE G
  BY <1>11 DEF Publish, Raise
<1>12. ASSUME Deadlock(v) PROVE G
  BY <1>12 DEF Deadlock, Raise, Failed
<1>13. ASSUME CommitFails(v) PROVE G
  BY <1>13 DEF CommitFails
<1>14. ASSUME Crash(v) PROVE G
  BY <1>14 DEF Crash, Raise
<1>15. G
  BY <1>1, <1>2, <1>3, <1>4, <1>5, <1>9, <1>10, <1>11, <1>12, <1>13, <1>14 DEF Action, WriterStep
<1>16. faults' = 0 => ~CommitFails(v) /\ ~Crash(v)
  BY <1>0 DEF CommitFails, Crash
<1>. QED
  BY <1>0, <1>15, <1>16

(* A writer that is alone waits for nobody.                                 *)
LEMMA NobodyWaits ==
  ASSUME NEW w \in Writers, \A v \in Writers : WriterInv(v), Alone(w)
  PROVE  ~Deadlock(w)
<1>1. ASSUME NEW v \in Writers, WaitsFor(w, v) PROVE FALSE
  <2>1. v \in Writers \ {w} /\ pc[v] = "idle"
    BY <1>1 DEF WaitsFor, Alone
  <2>2. pending[v] = {} /\ DOMAIN work[v] = {}
    BY <2>1, NoTransaction DEF WriterInv, QuietInv
  <2>. QED
    BY <1>1, <2>2 DEF WaitsFor
<1>. QED
  BY <1>1 DEF Deadlock

(* A step of a writer that is alone.                                        *)
LEMMA OwnExact ==
  ASSUME IInv, NEW w \in Writers, ExactInv(w), Action(w)
  PROVE  ExactInv(w)'
<1>1. Shape /\ StoredInv /\ WriterInv(w) /\ \A v \in Writers : WriterInv(v)
  BY DEF IInv
<1>2. ASSUME Alone(w)' PROVE Alone(w) /\ ~CommitFails(w) /\ ~Crash(w) /\ ~Deadlock(w)
  <2>1. faults = 0 /\ ~CommitFails(w) /\ ~Crash(w)
    BY <1>1, <1>2, ActionEnds DEF Alone
  <2>2. \A v \in Writers \ {w} : pc[v] = "idle"
    BY <1>1, <1>2, OthersSame DEF Alone, Same
  <2>3. Alone(w)
    BY <2>1, <2>2 DEF Alone
  <2>. QED
    BY <1>1, <2>1, <2>3, NobodyWaits
<1>3. ASSUME AllExact(w), ~CommitFails(w), ~Crash(w), ~Deadlock(w) PROVE AllExact(w)'
  <2>1. CASE Start(w)
    <3>1. /\ pc[w] \in {"idle", "failed"} /\ pc'[w] = "begin"
          /\ at'[w] = [file |-> 1, row |-> 1, next |-> 1] /\ session'[w] = Nowhere
          /\ UNCHANGED <<entries, context, work>>
      BY <1>1, <2>1 DEF Start, Shape
    <3>2. \A k \in Keys : Taken(w, k)' = {}
      BY <3>1, TakenNone
    <3>3. pc[w] # "rows" /\ pc'[w] # "rows" /\ context'[w] = context[w] /\ work'[w] = work[w]
      BY <3>1
    <3>. QED
      BY <1>1, <1>3, <3>1, <3>2, <3>3, QuietExact
  <2>2. ASSUME pc[w] \in {"begin", "authors", "topics"}, pc'[w] # "rows",
               UNCHANGED <<entries, at, context, work, session>>
        PROVE  AllExact(w)'
    <3>1. \A k \in Keys : Taken(w, k)' \in {Taken(w, k), {}}
      BY <2>2, TakenSame
    <3>2. /\ pc[w] # "rows" /\ context'[w] = context[w] /\ work'[w] = work[w]
          /\ session'[w] = session[w] /\ entries' = entries
      BY <2>2
    <3>. QED
      BY <1>1, <1>3, <2>2, <3>1, <3>2, QuietExact
  <2>3. CASE BeginBatch(w)
    BY <1>1, <2>2, <2>3 DEF BeginBatch, Shape
  <2>4. CASE LoadTopics(w)
    BY <1>1, <2>2, <2>4 DEF LoadTopics, Shape
  <2>5. CASE InsertRelated(w)
    <3>1. pc[w] \in {"authors", "topics"}
      BY <2>5 DEF InsertRelated, Inserts
    <3>2. CASE Raise(w)
      <4>1. /\ pc'[w] = "failed" /\ UNCHANGED <<entries, session>>
            /\ context'[w] = Nowhere /\ work'[w] = Nowhere
        BY <1>1, <3>2 DEF Raise, Dropped, Shape
      <4>2. \A k \in Keys : Taken(w, k)' = {}
        BY <4>1, TakenNone
      <4>3. session'[w] = session[w] /\ pc'[w] # "rows" /\ pc[w] # "rows"
        BY <3>1, <4>1
      <4>. QED
        BY <1>1, <1>3, <4>1, <4>2, <4>3, QuietExact
    <3>3. CASE ~Raise(w)
      <4>1. UNCHANGED <<entries, pc, at, context, work, session>>
        BY <2>5, <3>3 DEF InsertRelated
      <4>2. pc'[w] # "rows"
        BY <3>1, <4>1
      <4>. QED
        BY <2>2, <3>1, <4>1, <4>2
    <3>. QED
      BY <3>2, <3>3
  <2>. QED
    BY <1>1, <1>3, <2>1, <2>3, <2>4, <2>5, LoadExact, SkipExact, CreateExact, UpdateExact, RepeatExact,
       CommitExact, PublishExact DEF Action, WriterStep
<1>4. AllExact(w)' \/ ~Alone(w)'
  BY <1>2, <1>3 DEF ExactInv, AllExact
<1>5. pc'[w] = "done" => at'[w].file = Len(Files[w])
  <2>. SUFFICES ASSUME pc'[w] = "done" PROVE at'[w].file = Len(Files[w])
    OBVIOUS
  <2>1. Publish(w)
    BY <1>1, ActionEnds
  <2>2. ~Raise(w)
    BY <1>1 DEF Raise, Shape
  <2>3. at[w].file = Len(Files[w]) /\ at' = at
    BY <1>1, <2>1, <2>2 DEF Publish, Shape
  <2>. QED
    BY <2>3
<1>. QED
  BY <1>4, <1>5 DEF ExactInv, AllExact

(* A writer for which another one has started is not alone any more.        *)
LEMMA ExactKept ==
  ASSUME IInv, \A w \in Writers : ExactInv(w), [IngestNext]_ingestVars
  PROVE  \A w \in Writers : ExactInv(w)'
<1>1. ASSUME NEW v \in Writers, Action(v), NEW w \in Writers PROVE ExactInv(w)'
  <2>1. CASE w = v
    BY <1>1, <2>1, OwnExact
  <2>2. CASE w # v
    <3>1. Same(w) /\ pc'[v] # "idle"
      BY <1>1, <2>2, OthersSame, ActionEnds DEF IInv
    <3>. QED
      BY <2>2, <3>1 DEF ExactInv, Alone, Same
  <2>. QED
    BY <2>1, <2>2
<1>2. ASSUME UNCHANGED ingestVars, NEW w \in Writers PROVE ExactInv(w)'
  <2>. USE <1>2 DEF ingestVars
  <2>1. Alone(w)' <=> Alone(w)
    BY DEF Alone
  <2>2. ASSUME NEW k \in Keys, Exact(w, k) PROVE Exact(w, k)'
    <3>1. Visible(w, k)' = Visible(w, k) /\ Taken(w, k)' = Taken(w, k)
      BY DEF Visible, Taken, At
    <3>. QED
      BY <2>2, <3>1, ExactSame
  <2>3. ContextFull(w) => ContextFull(w)'
    BY DEF ContextFull, Stored, File
  <2>. QED
    BY <2>1, <2>2, <2>3 DEF ExactInv
<1>3. CASE IngestNext
  BY <1>1, <1>3 DEF IngestNext, Action
<1>. QED
  BY <1>2, <1>3

(* Nothing is taken yet.                                                    *)
LEMMA InitiallyExact ==
  ASSUME IngestInit, NEW w \in Writers
  PROVE  ExactInv(w)
<1>1. /\ pc[w] = "idle" /\ at[w].file = 1 /\ at[w].row = 1 /\ entries = Initial
      /\ DOMAIN context[w] = {} /\ DOMAIN work[w] = {} /\ DOMAIN session[w] = {}
  BY DEF IngestInit, Nowhere
<1>2. ASSUME NEW k \in Keys PROVE Exact(w, k)
  <2>1. Visible(w, k) = Initial[k]
    BY <1>1 DEF Visible
  <2>2. Taken(w, k) = {}
    <3>1. ASSUME NEW p \in Places(w, k) PROVE ~Before(p, At(w))
      <4>1. p[1] \in Nat /\ p[2] \in Nat /\ p[1] >= 1 /\ p[2] >= 1
        BY PlaceFacts
      <4>2. At(w)[1] = 1 /\ At(w)[2] = 1
        BY <1>1 DEF At
      <4>. QED
        BY <4>1, <4>2 DEF Before
    <3>. QED
      BY <3>1 DEF Taken
  <2>3. SoFar(w, k, Initial[k], {})
    BY DEF SoFar, TopicsAt, InitialTopics
  <2>. QED
    BY <1>1, <2>1, <2>2, <2>3 DEF Exact, Untouched, Honest
<1>3. ContextFull(w)
  BY <1>1 DEF ContextFull
<1>. QED
  BY <1>1, <1>2, <1>3 DEF ExactInv

(* At the end all rows are taken.                                           *)
LEMMA AllTaken ==
  ASSUME NEW w \in Writers, WriterInv(w), ExactInv(w), pc[w] = "done", NEW k \in Keys
  PROVE  Taken(w, k) = Places(w, k)
<1>1. /\ at[w].file = Len(Files[w]) /\ at[w].row = Len(File(w).rows) + 1 /\ at[w].file \in Nat
      /\ at[w].row \in Nat /\ Len(File(w).rows) \in Nat
  BY BatchFacts DEF WriterInv, TypeInv, BatchInv, ExactInv
<1>2. ASSUME NEW p \in Places(w, k) PROVE Before(p, At(w))
  <2>1. p[1] \in Nat /\ p[2] \in Nat /\ p[1] \in DOMAIN Files[w] /\ p[2] <= Len(Files[w][p[1]].rows)
    BY PlaceFacts
  <2>2. p[1] <= at[w].file
    BY <1>1, <2>1, FileTypes
  <2>3. p[1] = at[w].file => p[2] < at[w].row
    BY <1>1, <2>1 DEF File
  <2>4. At(w)[1] = at[w].file /\ At(w)[2] = at[w].row
    BY DEF At
  <2>. QED
    BY <1>1, <2>1, <2>2, <2>3, <2>4 DEF Before
<1>. QED
  BY <1>2 DEF Taken

(* What is stored of an entry is what the files say of it.  An ingest that  *)
(* was alone and met no fault has left of every entry without a broken row  *)
(* exactly the title and the authors of its last canonical row, or of the   *)
(* row that made it, and the topics of all its curated rows; whatever other *)
(* ingests did, an entry is as it was or made of what files say of it.      *)
THEOREM StoredIsAsParsed == IngestSpec => []StoredAsParsed
<1>1. IngestInit => \A w \in Writers : ExactInv(w)
  BY InitiallyExact
<1>2. IInv /\ (\A w \in Writers : ExactInv(w)) /\ [IngestNext]_ingestVars =>
        (\A w \in Writers : ExactInv(w))'
  BY ExactKept
<1>3. ASSUME IInv, \A w \in Writers : ExactInv(w) PROVE AloneIsExact
  <2>. SUFFICES ASSUME NEW w \in Writers, pc[w] = "done", Alone(w), NEW k \in Keys
                PROVE  IF Places(w, k) = {} THEN entries[k] = Initial[k]
                       ELSE ~Broken(w, k) =>
                         /\ entries[k] # NoRow
                         /\ entries[k].topics = InitialTopics(k) \cup TopicsAt(w, Places(w, k))
                         /\ IF CanonPlaces(w, k) # {} THEN IsOfLast(w, entries[k], CanonPlaces(w, k))
                            ELSE IF Initial[k] = NoRow THEN IsOfFirst(w, entries[k], Places(w, k))
                            ELSE /\ entries[k].title = Initial[k].title
                                 /\ entries[k].authors = Initial[k].authors
    BY DEF AloneIsExact
  <2>1. WriterInv(w) /\ ExactInv(w) /\ Exact(w, k)
    BY <1>3 DEF IInv, ExactInv
  <2>2. Visible(w, k) = entries[k] /\ Taken(w, k) = Places(w, k)
    BY <2>1, NoTransaction, AllTaken
  <2>3. CanonPlaces(w, k) \cap Places(w, k) = CanonPlaces(w, k)
    BY DEF CanonPlaces
  <2>4. CASE Places(w, k) = {}
    BY <2>1, <2>4 DEF Exact, Untouched
  <2>5. CASE Places(w, k) # {}
    <3>. SUFFICES ASSUME ~Broken(w, k)
                  PROVE  /\ entries[k] # NoRow
                         /\ entries[k].topics = InitialTopics(k) \cup TopicsAt(w, Places(w, k))
                         /\ IF CanonPlaces(w, k) # {} THEN IsOfLast(w, entries[k], CanonPlaces(w, k))
                            ELSE IF Initial[k] = NoRow THEN IsOfFirst(w, entries[k], Places(w, k))
                            ELSE /\ entries[k].title = Initial[k].title
                                 /\ entries[k].authors = Initial[k].authors
      BY <2>5
    <3>1. SoFar(w, k, entries[k], Places(w, k))
      BY <2>1, <2>2 DEF Exact
    <3>. QED
      BY <2>3, <2>5, <3>1 DEF SoFar
  <2>. QED
    BY <2>4, <2>5
<1>4. IngestSpec => []AloneIsExact
  BY <1>1, <1>2, <1>3, Invariant, PTL DEF IngestSpec
<1>. QED
  BY <1>4, AuthorsAreParsed, PTL DEF StoredAsParsed
================================================================================
