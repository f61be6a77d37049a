----------------------------- MODULE IngestPipeline -----------------------------
(***************************************************************************)
(* The writing of parsed entries to the database: batches, the preloaded   *)
(* context, a savepoint per entry, a commit per batch and one event per    *)
(* file (services/ingest_pipeline.py, services/ingest_entities.py,         *)
(* cli/import_bibtex.py).                                                  *)
(*                                                                         *)
(* Writers are the ingest job of the server and runs of the command line,  *)
(* each with its own session; they meet in PostgreSQL at READ COMMITTED,   *)
(* of which the model keeps what they can tell apart: a commit shows all   *)
(* of a transaction at once, a unique value or a row that another          *)
(* transaction has written makes the next writer wait, and of two that     *)
(* wait for each other one is told to give up.  An entry and its link rows *)
(* are locked together.  Authors, venues, subjects and topics are Related; *)
(* title stands for all columns of an entry that come from its file.       *)
(***************************************************************************)
EXTENDS Naturals, Sequences, FiniteSets, SequencesExt, FiniteSetsExt, Functions

CONSTANTS
  Writers, Keys, Titles,
  Related,
  Slugs,        \* those with a slug, in its order
  Files,        \* of a writer, the files it ingests: a role and rows each
  Initial,      \* the entries stored before
  OneSession,   \* the writers that keep a session for all their files
  BatchSize,
  NoKey,        \* a parsed entry without a citation key
  NoRow,        \* no such entry
  Expired,      \* an entry in the session whose attributes were expired
  MaxFaults,    \* bounds failed commits and crashes
  MaxRuns       \* bounds how often a writer starts

Parsed == [key : Keys \cup {NoKey}, title : Titles, authors : Seq(Related),
           topics : Seq(Related), broken : BOOLEAN]
Entry == [title : Titles, authors : SUBSET Related, topics : SUBSET Related]

ASSUME IngestAssumption ==
  /\ BatchSize \in Nat \ {0} /\ MaxFaults \in Nat /\ MaxRuns \in Nat
  /\ OneSession \subseteq Writers /\ NoKey \notin Keys
  /\ NoRow # Expired /\ Entry \cap {NoRow, Expired} = {}
  /\ Initial \in [Keys -> Entry \cup {NoRow}]
  /\ \A w \in Writers :
       /\ Files[w] \in Seq([role : {"canonical", "curated"}, rows : Seq(Parsed)])
       /\ Files[w] # << >>

VARIABLES
  entries,   \* the committed rows of entries and their links
  related,   \* the committed rows of authors, venues, subjects and topics
  events,    \* the keys named by events published so far
  pc,        \* where a writer is
  at,        \* its file and the number of the row it is at
  needs,     \* the authors, then the topics, its batch has still to insert
  pending,   \* the related rows its transaction has inserted
  work,      \* the entries its transaction has written
  context,   \* the entries of its batch as its session sees them
  session,   \* the entries its session keeps from earlier batches
  batch,     \* the keys imported in this batch
  imported,  \* the keys imported in this file
  phantoms,  \* the keys it counted in a batch in which they had failed before
  errors,    \* the errors it counted
  faults, runs

ingestVars == <<entries, related, events, pc, at, needs, pending, work, context,
                session, batch, imported, phantoms, errors, faults, runs>>

Nowhere == [k \in {} |-> NoRow]
File(w) == Files[w][at[w].file]
Batch(w) == SubSeq(File(w).rows, at[w].row,
                   Min({at[w].row + BatchSize - 1, Len(File(w).rows)}))
Stored == {k \in Keys : entries[k] # NoRow}
Busy(w) == pc[w] \notin {"idle", "done", "failed"}

IngestInit ==
  /\ entries = Initial
  /\ related = UNION {Initial[k].authors \cup Initial[k].topics :
                        k \in {j \in Keys : Initial[j] # NoRow}}
  /\ events = {} /\ faults = 0
  /\ pc = [w \in Writers |-> "idle"] /\ runs = [w \in Writers |-> 0]
  /\ at = [w \in Writers |-> [file |-> 1, row |-> 1, next |-> 1]]
  /\ work = [w \in Writers |-> Nowhere] /\ context = work /\ session = work
  /\ pending = [w \in Writers |-> {}] /\ batch = pending /\ imported = pending
  /\ phantoms = pending /\ needs = pending
  /\ errors = [w \in Writers |-> 0]

\* ingest_directory, or the job's task: from the first file, with a new session.
Start(w) ==
  /\ pc[w] \in {"idle", "failed"} /\ runs[w] < MaxRuns
  /\ pc' = [pc EXCEPT ![w] = "begin"] /\ runs' = [runs EXCEPT ![w] = @ + 1]
  /\ at' = [at EXCEPT ![w] = [file |-> 1, row |-> 1, next |-> 1]]
  /\ session' = [session EXCEPT ![w] = Nowhere]
  /\ imported' = [imported EXCEPT ![w] = {}] /\ errors' = [errors EXCEPT ![w] = 0]
  /\ UNCHANGED <<entries, related, events, needs, pending, work, context, batch,
                 phantoms, faults>>

\* Mutant: the list of the batch's entries is not emptied.
DroppedButBatch(w) ==
  /\ pending' = [pending EXCEPT ![w] = {}] /\ work' = [work EXCEPT ![w] = Nowhere]
  /\ context' = [context EXCEPT ![w] = Nowhere] /\ batch' = batch
  /\ needs' = [needs EXCEPT ![w] = {}]

\* What a transaction leaves when it is rolled back.
Dropped(w) ==
  /\ pending' = [pending EXCEPT ![w] = {}] /\ work' = [work EXCEPT ![w] = Nowhere]
  /\ context' = [context EXCEPT ![w] = Nowhere] /\ batch' = [batch EXCEPT ![w] = {}]
  /\ needs' = [needs EXCEPT ![w] = {}]

\* Mutant: the session is not closed, its transaction stays open.
RaiseOpen(w) ==
  /\ pc' = [pc EXCEPT ![w] = "failed"]
  /\ context' = [context EXCEPT ![w] = Nowhere] /\ batch' = [batch EXCEPT ![w] = {}]
  /\ needs' = [needs EXCEPT ![w] = {}]
  /\ UNCHANGED <<entries, related, events, at, pending, work, session, imported,
                 phantoms, errors, runs>>

\* An error that nothing in the pipeline catches ends the whole ingest.
Raise(w) ==
  /\ pc' = [pc EXCEPT ![w] = "failed"] /\ Dropped(w)
  /\ UNCHANGED <<entries, related, events, at, session, imported, phantoms, errors, runs>>

(***************************************************************************)
(* build_ingest_context.                                                   *)
(***************************************************************************)

AuthorsOf(w) == UNION {ToSet(Batch(w)[i].authors) : i \in DOMAIN Batch(w)}
TopicsOf(w) == UNION {ToSet(Batch(w)[i].topics) : i \in DOMAIN Batch(w)}

\* The authors the batch names and that are not there yet.
BeginBatch(w) ==
  /\ pc[w] = "begin"
  /\ needs' = [needs EXCEPT ![w] = AuthorsOf(w) \ related]
  /\ pc' = [pc EXCEPT ![w] = "authors"]
  /\ UNCHANGED <<entries, related, events, at, pending, work, context, session, batch,
                 imported, phantoms, errors, faults, runs>>

\* Then the venues, subjects and topics, looked up in their turn.
LoadTopics(w) ==
  /\ pc[w] = "authors" /\ needs[w] = {}
  /\ needs' = [needs EXCEPT ![w] = TopicsOf(w) \ (related \cup pending[w])]
  /\ pc' = [pc EXCEPT ![w] = "topics"]
  /\ UNCHANGED <<entries, related, events, at, pending, work, context, session, batch,
                 imported, phantoms, errors, faults, runs>>

\* Authors are inserted as the batch names them, the others by their slugs.
InsertOrder(w) ==
  IF pc[w] = "authors" THEN FlattenSeq([i \in DOMAIN Batch(w) |-> Batch(w)[i].authors])
  ELSE Slugs
Inserts(w, n) ==
  /\ pc[w] \in {"authors", "topics"} /\ n \in needs[w]
  /\ \E i \in DOMAIN InsertOrder(w) :
       InsertOrder(w)[i] = n /\ \A j \in 1..i - 1 : InsertOrder(w)[j] \notin needs[w]

\* A name that another transaction has inserted is waited for; once it is
\* committed the insert fails, outside of any savepoint.
InsertRelated(w) ==
  \E n \in needs[w] :
    /\ Inserts(w, n)
    /\ \/ n \in related /\ Raise(w) /\ UNCHANGED faults
       \/ /\ n \notin related /\ \A v \in Writers : n \notin pending[v]
          /\ pending' = [pending EXCEPT ![w] = @ \cup {n}]
          /\ needs' = [needs EXCEPT ![w] = @ \ {n}]
          /\ UNCHANGED <<entries, related, events, pc, at, work, context, session, batch,
                         imported, phantoms, errors, faults, runs>>

\* _load_existing_entries: an entry the session holds already keeps the values it
\* has there, unless they were expired.
LoadEntries(w) ==
  /\ pc[w] = "topics" /\ needs[w] = {}
  /\ LET keys == {Batch(w)[i].key : i \in DOMAIN Batch(w)} \cap Stored
         Seen(k) == IF k \in DOMAIN session[w] /\ session[w][k] # Expired
                    THEN session[w][k] ELSE entries[k]
     IN /\ context' = [context EXCEPT ![w] = [k \in keys |-> Seen(k)]]
        /\ session' = [session EXCEPT ![w] =
             [k \in DOMAIN @ |-> IF k \in keys THEN Seen(k) ELSE @[k]]]
  /\ at' = [at EXCEPT ![w].next = @ + Len(Batch(w))]
  /\ pc' = [pc EXCEPT ![w] = "rows"]
  /\ UNCHANGED <<entries, related, events, needs, pending, work, batch, imported,
                 phantoms, errors, faults, runs>>

(***************************************************************************)
(* One parsed entry, within its savepoint.                                 *)
(***************************************************************************)

\* Mutant: the role is not asked for.
ApplyEntryFieldsAlways(row, old, role, created) == [old EXCEPT !.title = row.title]

\* apply_entry_fields: an entry keeps what it has unless it is new or the source
\* is canonical.
ApplyEntryFields(row, old, role, created) ==
  IF ~created /\ role # "canonical" THEN old ELSE [old EXCEPT !.title = row.title]

\* Mutants: the role is not asked for; the old links are kept.
RebuildAuthorLinksAlways(row, old, role, created) == [old EXCEPT !.authors = ToSet(row.authors)]
RebuildAuthorLinksKeeping(row, old, role, created) ==
  IF ~created /\ role # "canonical" THEN old
  ELSE [old EXCEPT !.authors = @ \cup ToSet(row.authors)]

\* rebuild_author_links, under the same condition.
RebuildAuthorLinks(row, old, role, created) ==
  IF ~created /\ role # "canonical" THEN old
  ELSE [old EXCEPT !.authors = ToSet(row.authors)]

\* Mutant: topics of new entries only.
SyncTopicLinksOfNew(row, old, role, created) ==
  IF role # "curated" \/ ~created THEN old ELSE [old EXCEPT !.topics = ToSet(row.topics)]

\* sync_topic_links: only curated sources have topics, and only add them.
SyncTopicLinks(row, old, role, created) ==
  IF role # "curated" THEN old
  ELSE [old EXCEPT !.topics = (IF created THEN {} ELSE @) \cup ToSet(row.topics)]

NewRow == [title |-> NoKey, authors |-> {}, topics |-> {}]

Applied(row, old, role, created) ==
  SyncTopicLinks(row,
    RebuildAuthorLinks(row, ApplyEntryFields(row, old, role, created), role, created),
    role, created)

\* The statements of a flush: a column, and a link, is written when the session
\* sees it change.
Flushed(stored, old, new) ==
  [title |-> IF new.title # old.title THEN new.title ELSE stored.title,
   authors |-> (stored.authors \ (old.authors \ new.authors)) \cup (new.authors \ old.authors),
   topics |-> (stored.topics \ (old.topics \ new.topics)) \cup (new.topics \ old.topics)]

\* A link that the session adds is there already.
LinkExists(stored, old, new) ==
  \/ (new.authors \ old.authors) \cap stored.authors # {}
  \/ (new.topics \ old.topics) \cap stored.topics # {}

\* The links of canonical authors are deleted and made again: one that stays has
\* its position written, whether it changes or not, and may be gone.
Kept(role, old, new) == IF role = "canonical" THEN old.authors \cap new.authors ELSE {}

Row(w) == File(w).rows[at[w].row]
Visible(w, k) == IF k \in DOMAIN work[w] THEN work[w][k] ELSE entries[k]
Held(w, k) == \E v \in Writers \ {w} : k \in DOMAIN work[v]

Advance(w) == at' = [at EXCEPT ![w].row = @ + 1]
NextRow(w) == pc[w] = "rows" /\ at[w].row < at[w].next

\* The savepoint is rolled back and the error counted; what the context holds of
\* the entry from then on is what is left of it in the session.
Failed(w, k) ==
  /\ errors' = [errors EXCEPT ![w] = @ + 1]
  /\ context' = [context EXCEPT ![w] = [j \in DOMAIN @ \cup {k} |->
                   IF j # k THEN @[j]
                   ELSE IF k \in DOMAIN @ /\ @[k] # NoRow THEN Expired ELSE NoRow]]
  /\ Advance(w)
  /\ UNCHANGED <<entries, related, events, pc, needs, pending, work, session, batch,
                 imported, phantoms, faults, runs>>

Written(w, k, seen, stored) ==
  /\ context' = [context EXCEPT ![w] = [j \in DOMAIN @ \cup {k} |->
                                          IF j = k THEN seen ELSE @[j]]]
  /\ work' = [work EXCEPT ![w] = IF stored = NoRow THEN @
                ELSE [j \in DOMAIN @ \cup {k} |-> IF j = k THEN stored ELSE @[j]]]
  /\ batch' = [batch EXCEPT ![w] = @ \cup {k}]
  /\ Advance(w)
  /\ UNCHANGED <<entries, related, events, pc, needs, pending, session, imported,
                 errors, faults, runs>>

SkipRow(w) ==
  /\ NextRow(w) /\ Row(w).key = NoKey
  /\ errors' = [errors EXCEPT ![w] = @ + 1] /\ Advance(w)
  /\ UNCHANGED <<entries, related, events, pc, needs, pending, work, context, session,
                 batch, imported, phantoms, faults, runs>>

\* A key the context does not know: a new entry, unless its row is broken or its
\* key was committed in between.
CreateEntry(w) ==
  LET k == Row(w).key
      new == Applied(Row(w), NewRow, File(w).role, TRUE)
  IN /\ NextRow(w) /\ k \in Keys \ DOMAIN context[w] /\ ~Held(w, k)
     /\ IF Row(w).broken \/ entries[k] # NoRow THEN Failed(w, k)
        ELSE Written(w, k, new, new) /\ UNCHANGED phantoms

\* A key the context knows: what changes is written, and the links that stay.
UpdateEntry(w) ==
  LET k == Row(w).key
      old == context[w][k]
      new == Applied(Row(w), old, File(w).role, FALSE)
      kept == Kept(File(w).role, old, new)
      stored == Visible(w, k)
  IN /\ NextRow(w) /\ k \in DOMAIN context[w] /\ old \notin {NoRow, Expired}
     /\ IF new = old /\ kept = {} THEN Written(w, k, old, NoRow) /\ UNCHANGED phantoms
        ELSE /\ ~Held(w, k)
             /\ IF Row(w).broken \/ LinkExists(stored, old, new) \/ ~(kept \subseteq stored.authors)
                THEN Failed(w, k)
                ELSE Written(w, k, new, Flushed(stored, old, new)) /\ UNCHANGED phantoms

\* A later row of a key that failed in this batch: an entry that could not be
\* inserted is taken for one that is there, and counted though nothing is
\* written; one that could not be updated fails again.
RepeatEntry(w) ==
  LET k == Row(w).key IN
  /\ NextRow(w) /\ k \in DOMAIN context[w] /\ context[w][k] \in {NoRow, Expired}
  /\ IF context[w][k] = Expired THEN Failed(w, k)
     ELSE /\ Written(w, k, NoRow, NoRow)
          /\ phantoms' = [phantoms EXCEPT ![w] = @ \cup {k}]

(***************************************************************************)
(* Commit, event, and what may go wrong.                                   *)
(***************************************************************************)
Commit(w) ==
  /\ pc[w] = "rows" /\ at[w].row = at[w].next
  /\ entries' = [k \in Keys |-> IF k \in DOMAIN work[w] THEN work[w][k] ELSE entries[k]]
  /\ related' = related \cup pending[w]
  /\ imported' = [imported EXCEPT ![w] = @ \cup batch[w]]
  /\ session' = [session EXCEPT ![w] =
       LET kept == {k \in batch[w] : context[w][k] # NoRow} IN
       [k \in DOMAIN @ \cup kept |-> IF k \in kept THEN context[w][k] ELSE @[k]]]
  /\ pc' = [pc EXCEPT ![w] = IF at[w].row > Len(File(w).rows) THEN "publish" ELSE "begin"]
  /\ Dropped(w)
  /\ UNCHANGED <<events, at, phantoms, errors, faults, runs>>

\* Mutant: the batch of a failed commit is counted all the same.
CommitFailsCounting(w) ==
  /\ pc[w] = "rows" /\ at[w].row = at[w].next /\ faults < MaxFaults
  /\ faults' = faults + 1
  /\ imported' = [imported EXCEPT ![w] = @ \cup batch[w]]
  /\ errors' = [errors EXCEPT ![w] = @ + Cardinality(batch[w])]
  /\ session' = [session EXCEPT ![w] = [k \in DOMAIN @ |-> Expired]]
  /\ pc' = [pc EXCEPT ![w] = IF at[w].row > Len(File(w).rows) THEN "publish" ELSE "begin"]
  /\ Dropped(w)
  /\ UNCHANGED <<entries, related, events, at, phantoms, runs>>

\* A commit that fails costs its batch and expires what the session holds.
CommitFails(w) ==
  /\ pc[w] = "rows" /\ at[w].row = at[w].next /\ faults < MaxFaults
  /\ faults' = faults + 1
  /\ errors' = [errors EXCEPT ![w] = @ + Cardinality(batch[w])]
  /\ session' = [session EXCEPT ![w] = [k \in DOMAIN @ |-> Expired]]
  /\ pc' = [pc EXCEPT ![w] = IF at[w].row > Len(File(w).rows) THEN "publish" ELSE "begin"]
  /\ Dropped(w)
  /\ UNCHANGED <<entries, related, events, at, imported, phantoms, runs>>

\* sync_imported_entries, once per file.  The identity of an expired entry cannot
\* be read any more; an entry counted though it was not written has none, which
\* the search projection does not take, unless the index is away and it does not
\* look.  (A key that was such a one in an earlier file counts here as well.)
Publish(w) ==
  LET lost == \E k \in imported[w] \cap DOMAIN session[w] : session[w][k] = Expired
  IN /\ pc[w] = "publish"
     /\ \/ (lost \/ imported[w] \cap phantoms[w] # {}) /\ Raise(w)
        \/ /\ ~lost
           /\ events' = events \cup imported[w]
           /\ IF at[w].file = Len(Files[w])
              THEN /\ pc' = [pc EXCEPT ![w] = "done"]
                   /\ UNCHANGED <<at, session, imported>>
              ELSE /\ pc' = [pc EXCEPT ![w] = "begin"]
                   /\ at' = [at EXCEPT ![w] = [file |-> @.file + 1, row |-> 1, next |-> 1]]
                   /\ imported' = [imported EXCEPT ![w] = {}]
                   /\ session' = [session EXCEPT ![w] = IF w \in OneSession THEN @ ELSE Nowhere]
           /\ UNCHANGED <<entries, related, needs, pending, work, context, batch, phantoms,
                          errors, runs>>
     /\ UNCHANGED faults

\* The process ends, or the database goes away.
Crash(w) ==
  /\ Busy(w) /\ faults < MaxFaults /\ faults' = faults + 1 /\ Raise(w)

(* Of two writers that wait for each other PostgreSQL stops one; in the      *)
(* context that ends its ingest, within a savepoint it is an error like any. *)
Writes(w) ==
  LET k == Row(w).key
      old == context[w][k]
      new == Applied(Row(w), old, File(w).role, FALSE)
  IN /\ NextRow(w) /\ k \in Keys
     /\ k \in DOMAIN context[w] =>
          old \notin {NoRow, Expired} /\ (new # old \/ Kept(File(w).role, old, new) # {})
WaitsFor(w, v) ==
  /\ v # w
  /\ \/ \E n \in pending[v] : Inserts(w, n)
     \/ Writes(w) /\ Row(w).key \in DOMAIN work[v]

Deadlock(w) ==
  /\ \E v \in Writers : WaitsFor(w, v) /\ WaitsFor(v, w)
  /\ IF pc[w] # "rows" THEN Raise(w) /\ UNCHANGED faults ELSE Failed(w, Row(w).key)

WriterStep(w) ==
  \/ BeginBatch(w) \/ InsertRelated(w) \/ LoadTopics(w) \/ LoadEntries(w)
  \/ SkipRow(w) \/ CreateEntry(w) \/ UpdateEntry(w) \/ RepeatEntry(w)
  \/ Commit(w) \/ Publish(w) \/ Deadlock(w)

IngestNext ==
  \E w \in Writers : Start(w) \/ WriterStep(w) \/ CommitFails(w) \/ Crash(w)

IngestSpec ==
  /\ IngestInit /\ [][IngestNext]_ingestVars
  /\ \A w \in Writers : WF_ingestVars(WriterStep(w))

(***************************************************************************)
(* Properties.                                                             *)
(***************************************************************************)
\* What the files of a role say of an entry.
Sources(k, role) ==
  LET Of(w) == {i \in DOMAIN Files[w] : Files[w][i].role = role}
  IN {r \in UNION {UNION {ToSet(Files[w][i].rows) : i \in Of(w)} : w \in Writers} : r.key = k}

\* The shapes of the tables and of the writers' sessions.
IngestTypeOK ==
  /\ \A k \in Stored : entries[k].authors \cup entries[k].topics \subseteq related
  /\ related \subseteq Related
  /\ \A w \in Writers :
       /\ pc[w] \in {"idle", "begin", "authors", "topics", "rows", "publish", "done", "failed"}
       /\ DOMAIN work[w] \cup DOMAIN context[w] \cup DOMAIN session[w] \subseteq Keys
       /\ batch[w] \subseteq DOMAIN context[w]
       /\ errors[w] \in Nat /\ runs[w] \in 0..MaxRuns
  /\ faults \in 0..MaxFaults

\* What is counted as imported, and what an event names, is committed, whatever
\* commits failed; but for the entries counted after their insert had failed.
CountsTrue ==
  \A w \in Writers : imported[w] \cup events \subseteq Stored \cup UNION Range(phantoms)

\* An ingest that ends without an error has stored and published every one of its
\* entries, with all its topics, and left no canonical entry with a curated title,
\* also when another one wrote the same entries meanwhile.
DoneIsComplete ==
  \A w \in Writers : pc[w] = "done" /\ errors[w] = 0 =>
    \A i \in DOMAIN Files[w] : \A r \in ToSet(Files[w][i].rows) :
      /\ r.key \in Stored /\ r.key \in events
      /\ Files[w][i].role = "curated" => ToSet(r.topics) \subseteq entries[r.key].topics
      /\ Files[w][i].role = "canonical" =>
           entries[r.key].title \in {c.title : c \in Sources(r.key, "canonical")}

\* The rows of an entry in the files of a writer, in the order it comes to them.
Places(w, k) ==
  UNION {{<<i, n>> : n \in {m \in DOMAIN Files[w][i].rows : Files[w][i].rows[m].key = k}} :
         i \in DOMAIN Files[w]}
RowAt(w, p) == Files[w][p[1]].rows[p[2]]
RoleAt(w, p) == Files[w][p[1]].role
Before(p, q) == p[1] < q[1] \/ (p[1] = q[1] /\ p[2] < q[2])

CanonPlaces(w, k) == {p \in Places(w, k) : RoleAt(w, p) = "canonical"}
Broken(w, k) == \E p \in Places(w, k) : RowAt(w, p).broken
TopicsAt(w, places) ==
  UNION {ToSet(RowAt(w, p).topics) : p \in {q \in places : RoleAt(w, q) = "curated"}}
InitialTopics(k) == IF Initial[k] = NoRow THEN {} ELSE Initial[k].topics

\* The entry has title and authors of the first of the rows, or of the last.
IsOf(e, r) == e.title = r.title /\ e.authors = ToSet(r.authors)
IsOfFirst(w, e, places) ==
  \E p \in places : IsOf(e, RowAt(w, p)) /\ \A q \in places : ~Before(q, p)
IsOfLast(w, e, places) ==
  \E p \in places : IsOf(e, RowAt(w, p)) /\ \A q \in places : ~Before(p, q)

Alone(w) == faults = 0 /\ \A v \in Writers \ {w} : pc[v] = "idle"

\* An ingest that ran alone and met no fault leaves what its files say, also of an
\* entry they name again and again: its last canonical title and authors, without
\* any those of before or of the row that made it; the topics of all curated rows.
AloneIsExact ==
  \A w \in Writers : pc[w] = "done" /\ Alone(w) =>
    \A k \in Keys :
      IF Places(w, k) = {} THEN entries[k] = Initial[k]
      ELSE ~Broken(w, k) =>
        /\ entries[k] # NoRow
        /\ entries[k].topics = InitialTopics(k) \cup TopicsAt(w, Places(w, k))
        /\ IF CanonPlaces(w, k) # {} THEN IsOfLast(w, entries[k], CanonPlaces(w, k))
           ELSE IF Initial[k] = NoRow THEN IsOfFirst(w, entries[k], Places(w, k))
           ELSE entries[k].title = Initial[k].title /\ entries[k].authors = Initial[k].authors

\* An entry is as it was, or has a title of its sources, all authors of one source
\* and only authors of sources: none of the version that was replaced.  (With the
\* authors of one source only it need not end: of two ingests that load an entry
\* before either commits, the second adds its authors to those of the first.)
AuthorsAsParsed ==
  \A k \in Stored :
    LET mine == Sources(k, "canonical") \cup Sources(k, "curated")
    IN \/ /\ Initial[k] # NoRow
          /\ entries[k].title = Initial[k].title /\ entries[k].authors = Initial[k].authors
       \/ /\ \E r \in mine : entries[k].title = r.title
          /\ \E r \in mine : ToSet(r.authors) \subseteq entries[k].authors
          /\ entries[k].authors \subseteq UNION {ToSet(r.authors) : r \in mine}

\* A stored entry loses no topic, and only the commit of a canonical file changes
\* its title or its authors.
CuratedKeepsCanonical ==
  [][\A k \in Stored :
       /\ entries[k].topics \subseteq entries'[k].topics
       /\ (entries'[k].title # entries[k].title \/ entries'[k].authors # entries[k].authors)
            => \E w \in Writers : pc[w] = "rows" /\ pc'[w] # "rows" /\ File(w).role = "canonical"
    ]_ingestVars

\* Every ingest ends, also when two wait for each other.
IngestsEnd == \A w \in Writers : Busy(w) ~> ~Busy(w)

\* What an ingest says of itself is true, in its counts, its events and its end.
AccountsTrue == IngestTypeOK /\ CountsTrue /\ DoneIsComplete

\* What is stored of an entry is what the files say of it.
StoredAsParsed == AloneIsExact /\ AuthorsAsParsed
================================================================================
