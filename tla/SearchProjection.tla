---------------------------- MODULE SearchProjection ----------------------------
(***************************************************************************)
(* Keeping the search index in step with the database: a writer commits    *)
(* entries (entry_mutations.py, ingest_pipeline.py), publishes             *)
(* EntriesChanged, and SearchProjection (domain_events.py) reads the       *)
(* entries back in a session of its own and sends them to Meilisearch      *)
(* (sync.py).  The command-line rebuild (cli/sync_meilisearch.py) does the *)
(* same with all entries.                                                  *)
(*                                                                         *)
(* An entry is its version: each commit makes the next one.  Meilisearch   *)
(* is external: it queues what it is sent and applies it in order, later.  *)
(* Left out: the fields of documents, and the batches they are sent in.    *)
(***************************************************************************)
EXTENDS Naturals, Sequences

CONSTANTS
  Writers,     \* requests and ingestion tasks of the application
  Rebuild,     \* the command-line rebuild, a process of its own
  Entries,
  MaxVersion,  \* bound: commits of an entry
  MaxQueue,    \* bound: tasks Meilisearch has queued when a rebuild starts
  MayFail      \* whether Meilisearch may be away and the process may crash

ASSUME ProjectionAssumption ==
  Rebuild \notin Writers /\ {MaxVersion, MaxQueue} \subseteq Nat /\ MayFail \in BOOLEAN

Senders == Writers \cup {Rebuild}
Nothing == [e \in {} |-> 0]

VARIABLES
  db,       \* committed version of each entry; 0: not there
  pc,       \* where each sender is: "idle", "committed", "read"
  ids,      \* the entries of its event
  snap,     \* the versions it read back
  queue,    \* Meilisearch's tasks: versions of documents to add
  doc,      \* the version of each document in the index; 0: none
  orderly   \* history: no document was lost or overtaken since the last
            \* rebuild that had the entries for itself

vars == <<db, pc, ids, snap, queue, doc, orderly>>

Init ==
  /\ db = [e \in Entries |-> 0]
  /\ pc = [s \in Senders |-> "idle"]
  /\ ids = [s \in Senders |-> {}]
  /\ snap = [s \in Senders |-> Nothing]
  /\ queue = << >>
  /\ doc = [e \in Entries |-> 0]
  /\ orderly = TRUE

(* Another sender has some of these entries in flight.                      *)
Shared(s, E) == \E t \in Senders \ {s} : pc[t] # "idle" /\ ids[t] \cap E # {}

\* Sender s is through with its event.
Finish(s) ==
  /\ pc' = [pc EXCEPT ![s] = "idle"]
  /\ ids' = [ids EXCEPT ![s] = {}]
  /\ snap' = [snap EXCEPT ![s] = Nothing]

\* Mutant: what is sent is what was loaded before the commit.
CommitKeepsLoaded(w, E) ==
  /\ pc[w] = "idle" /\ E # {}
  /\ \A e \in E : db[e] < MaxVersion
  /\ db' = [e \in Entries |-> IF e \in E THEN db[e] + 1 ELSE db[e]]
  /\ pc' = [pc EXCEPT ![w] = "read"]
  /\ ids' = [ids EXCEPT ![w] = E]
  /\ snap' = [snap EXCEPT ![w] = [e \in E |-> db[e]]]
  /\ orderly' = (orderly /\ ~Shared(w, E))
  /\ UNCHANGED <<queue, doc>>

(* A mutation or an ingested file is committed and its event published; the *)
(* projection goes on if ensure_index reaches Meilisearch, else the event   *)
(* is dropped.                                                              *)
Commit(w, E) ==
  /\ pc[w] = "idle" /\ E # {}
  /\ \A e \in E : db[e] < MaxVersion
  /\ db' = [e \in Entries |-> IF e \in E THEN db[e] + 1 ELSE db[e]]
  /\ \/ /\ pc' = [pc EXCEPT ![w] = "committed"]
        /\ ids' = [ids EXCEPT ![w] = E]
        /\ orderly' = (orderly /\ ~Shared(w, E))
     \/ /\ MayFail
        /\ orderly' = FALSE
        /\ UNCHANGED <<pc, ids>>
  /\ UNCHANGED <<snap, queue, doc>>

(* The rebuild reads all entries.                                           *)
StartRebuild ==
  /\ pc[Rebuild] = "idle" /\ Len(queue) < MaxQueue
  /\ LET E == {e \in Entries : db[e] > 0} IN
     /\ E # {}
     /\ pc' = [pc EXCEPT ![Rebuild] = "read"]
     /\ ids' = [ids EXCEPT ![Rebuild] = E]
     /\ snap' = [snap EXCEPT ![Rebuild] = [e \in E |-> db[e]]]
     /\ orderly' = (\A w \in Writers : pc[w] = "idle")
  /\ UNCHANGED <<db, queue, doc>>

\* Mutant: the projection reads every entry, not those of its event.
LoadAll(w) ==
  /\ pc[w] = "committed"
  /\ pc' = [pc EXCEPT ![w] = "read"]
  /\ snap' = [snap EXCEPT ![w] = db]
  /\ UNCHANGED <<db, ids, queue, doc, orderly>>

(* on_entries_changed loads the entries, in a session that sees whatever is *)
(* committed by now.                                                        *)
Load(w) ==
  /\ pc[w] = "committed"
  /\ pc' = [pc EXCEPT ![w] = "read"]
  /\ snap' = [snap EXCEPT ![w] = [e \in ids[w] |-> db[e]]]
  /\ UNCHANGED <<db, ids, queue, doc, orderly>>

(* sync_entries, after the session was closed: other tasks have had their   *)
(* turn.                                                                    *)
Send(s) ==
  /\ pc[s] = "read"
  /\ queue' = Append(queue, snap[s])
  /\ Finish(s)
  /\ UNCHANGED <<db, doc, orderly>>

(* Meilisearch cannot be reached: the documents are dropped.                *)
Skip(s) ==
  /\ MayFail
  /\ pc[s] = "read"
  /\ Finish(s)
  /\ orderly' = FALSE
  /\ UNCHANGED <<db, queue, doc>>

(* Meilisearch applies its next task.                                       *)
Apply ==
  /\ queue # << >>
  /\ doc' = [e \in Entries |->
              IF e \in DOMAIN Head(queue) THEN Head(queue)[e] ELSE doc[e]]
  /\ queue' = Tail(queue)
  /\ UNCHANGED <<db, pc, ids, snap, orderly>>

(* The application dies between a commit and the end of its projection.     *)
Crash ==
  /\ MayFail
  /\ \E w \in Writers : pc[w] # "idle"
  /\ pc' = [s \in Senders |-> IF s \in Writers THEN "idle" ELSE pc[s]]
  /\ ids' = [s \in Senders |-> IF s \in Writers THEN {} ELSE ids[s]]
  /\ snap' = [s \in Senders |-> IF s \in Writers THEN Nothing ELSE snap[s]]
  /\ orderly' = FALSE
  /\ UNCHANGED <<db, queue, doc>>

Next ==
  \/ \E w \in Writers : (\E E \in SUBSET Entries : Commit(w, E)) \/ Load(w)
  \/ StartRebuild \/ Apply \/ Crash
  \/ \E s \in Senders : Send(s) \/ Skip(s)

Spec == Init /\ [][Next]_vars

------------------------------------------------------------------------------
Versions == UNION {[E -> 0..MaxVersion] : E \in SUBSET Entries}

TypeOK ==
  /\ db \in [Entries -> 0..MaxVersion]
  /\ pc \in [Senders -> {"idle", "committed", "read"}]
  /\ ids \in [Senders -> SUBSET Entries]
  /\ snap \in [Senders -> Versions]
  /\ queue \in Seq(Versions)
  /\ doc \in [Entries -> 0..MaxVersion]
  /\ orderly \in BOOLEAN
  /\ \A s \in Senders : pc[s] = "read" => DOMAIN snap[s] = ids[s]

Quiet == queue = << >> /\ \A s \in Senders : pc[s] = "idle"

(* When nothing is under way and no document was lost or overtaken, the     *)
(* index is what the database is: reading back after the commit loses no    *)
(* change, and a rebuild repairs whatever happened before it.               *)
OrderlyMeansCurrent == orderly /\ Quiet => doc = db

==============================================================================
