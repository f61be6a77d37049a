-------------------------------- MODULE S2Sync --------------------------------
(***************************************************************************)
(* Keeping library entries in step with Semantic Scholar: the claims of    *)
(* SyncRegistry (s2_runtime.py), SyncOrchestrator.ensure_synced            *)
(* (s2_sync.py), its steps (s2_sync_steps.py) and the rows they write      *)
(* (s2_store.py, modeling/s2_models.py).                                   *)
(*                                                                         *)
(* A worker is a task that calls ensure_synced: the background task of an  *)
(* entry or graph request, GET /s2, or the backfill loop.  Tasks           *)
(* interleave at every await, so each await is a step of its own.          *)
(*                                                                         *)
(* PostgreSQL is external: a transaction locks the s2_papers rows it       *)
(* inserts or updates until it ends, an upsert of a locked row waits, and  *)
(* a cycle of waiting transactions loses one of its members.  The rows of  *)
(* s2_citations need no locks here: two transactions that write one link   *)
(* both write its two papers' rows first, and meet there.                  *)
(*                                                                         *)
(* Left out: the fields of a paper (a row is a stub written from the end   *)
(* of an edge, or full), an edge's contexts and intents, an answer under   *)
(* another paper id than the one asked for, and `force`, which no caller   *)
(* in the application sets.                                                *)
(***************************************************************************)
EXTENDS Naturals, FiniteSets

CONSTANTS
  Workers,     \* tasks that call ensure_synced
  Entries,     \* entry ids that are asked for
  Library,     \* the ones an entry has: GET /graph takes any, nothing deletes one
  Papers,      \* Semantic Scholar paper ids
  None,        \* no paper, no row wanted, no status
  Matches,     \* Matches[e]: the papers the resolvers may return for entry e
  Links,       \* the citations Semantic Scholar knows: <<citing, cited>>
  ApiMayFail   \* whether requests to Semantic Scholar may fail

ASSUME SyncAssumption ==
  /\ None \notin Papers /\ None \notin Entries
  /\ Matches \in [Entries -> SUBSET Papers]
  /\ Library \subseteq Entries
  /\ Links \subseteq Papers \X Papers
  /\ ApiMayFail \in BOOLEAN

VARIABLES
  claimed,   \* SyncRegistry._events: entries being synced
  entryS2,   \* entries.s2_id, committed
  row,       \* s2_papers, committed: "absent", "stub" or "full"
  fresh,     \* whether updated_at is within s2_staleness_days
  stored,    \* s2_citations, committed
  pc,        \* where each worker is in ensure_synced
  entry,     \* its entry_id
  s2id,      \* its s2_id
  status,    \* the SyncStatus of its latest call
  byApi,     \* whether the API step, not the corpus step, writes the paper
  got,       \* links its two edge requests returned
  todo,      \* rows its upserts have still to write
  want,      \* the row its current statement writes
  locks      \* rows its open transaction has written

store == <<entryS2, row, fresh, stored>>
call == <<entry, s2id, byApi>>
tx == <<got, todo, want, locks>>
vars == <<claimed, store, pc, status, call, tx>>

InTx == {"upsert", "fetch", "stubs", "commit"}
InSync == {"load", "resolve", "setid", "check", "corpus", "api", "release"} \cup InTx
PcValues == {"idle"} \cup InSync
StatusValues == {"fresh", "synced", "syncing", "failed", "no_match", "raised"}
NoLinks == [citations |-> {}, references |-> {}]

Init ==
  /\ claimed = {}
  /\ entryS2 = [e \in Entries |-> None]
  /\ row = [p \in Papers |-> "absent"]
  /\ fresh = [p \in Papers |-> FALSE]
  /\ stored = {}
  /\ pc = [w \in Workers |-> "idle"]
  /\ entry = [w \in Workers |-> None]
  /\ s2id = [w \in Workers |-> None]
  /\ status = [w \in Workers |-> None]
  /\ byApi = [w \in Workers |-> FALSE]
  /\ got = [w \in Workers |-> NoLinks]
  /\ todo = [w \in Workers |-> {}]
  /\ want = [w \in Workers |-> None]
  /\ locks = [w \in Workers |-> {}]

Goto(w, from, to) == pc[w] = from /\ pc' = [pc EXCEPT ![w] = to]
Answer(w, s) == status' = [status EXCEPT ![w] = s]

------------------------------------------------------------------------------
\* Mutant: the registry is read before its lock, so a claim always succeeds.
ClaimUnchecked(w, e) ==
  /\ Goto(w, "idle", "load")
  /\ claimed' = claimed \cup {e}
  /\ entry' = [entry EXCEPT ![w] = e]
  /\ UNCHANGED <<store, s2id, byApi, tx, status>>

(* ensure_synced starts: claim the entry, or return SYNCING when another    *)
(* task has.  claim() holds the registry's lock without awaiting anything.  *)
Claim(w, e) ==
  IF e \in claimed
  THEN /\ pc[w] = "idle"
       /\ Answer(w, "syncing")
       /\ UNCHANGED <<claimed, store, pc, call, tx>>
  ELSE /\ Goto(w, "idle", "load")
       /\ claimed' = claimed \cup {e}
       /\ entry' = [entry EXCEPT ![w] = e]
       /\ UNCHANGED <<store, s2id, byApi, tx, status>>

\* Mutant: every call resolves the entry anew.
LoadEntryForgetful(w) ==
  /\ Goto(w, "load", "resolve")
  /\ UNCHANGED <<claimed, store, call, tx, status>>

(* get_entry: the entry with its committed s2_id.  Without an entry the     *)
(* sync has failed.                                                         *)
LoadEntry(w) ==
  /\ IF entry[w] \in Library
     THEN /\ Goto(w, "load", IF entryS2[entry[w]] = None THEN "resolve" ELSE "check")
          /\ s2id' = [s2id EXCEPT ![w] = entryS2[entry[w]]]
          /\ UNCHANGED status
     ELSE /\ Goto(w, "load", "release")
          /\ Answer(w, "failed")
          /\ UNCHANGED s2id
  /\ UNCHANGED <<claimed, store, entry, byApi, tx>>

(* ResolutionStep.resolve: DOI and arXiv lookups, then a title search that  *)
(* settles for the first hit.                                               *)
Resolve(w) ==
  /\ pc[w] = "resolve"
  /\ \/ \E p \in Matches[entry[w]] :
          /\ Goto(w, "resolve", "setid")
          /\ s2id' = [s2id EXCEPT ![w] = p]
          /\ UNCHANGED status
     \/ /\ Matches[entry[w]] = {} \/ ApiMayFail
        /\ Goto(w, "resolve", "release")
        /\ Answer(w, "no_match")
        /\ UNCHANGED s2id
  /\ UNCHANGED <<claimed, store, entry, byApi, tx>>

\* Mutant: the arguments of set_entry_s2_id are swapped.
SetEntryIdSwapped(w) ==
  /\ Goto(w, "setid", "check")
  /\ entryS2' = [entryS2 EXCEPT ![entry[w]] = entry[w]]
  /\ UNCHANGED <<claimed, row, fresh, stored, call, tx, status>>

(* set_entry_s2_id and its commit, before anything is known of the paper.   *)
SetEntryId(w) ==
  /\ Goto(w, "setid", "check")
  /\ entryS2' = [entryS2 EXCEPT ![entry[w]] = s2id[w]]
  /\ UNCHANGED <<claimed, row, fresh, stored, call, tx, status>>

IsStale(p) == row[p] = "absent" \/ ~fresh[p]

(* is_stale: no row, or a row whose updated_at is too old.                  *)
CheckStale(w) ==
  /\ pc[w] = "check"
  /\ IF IsStale(s2id[w])
     THEN Goto(w, "check", "corpus") /\ UNCHANGED status
     ELSE Goto(w, "check", "release") /\ Answer(w, "fresh")
  /\ UNCHANGED <<claimed, store, call, tx>>

(* CorpusHydrationStep's get_paper over the chained sources (the local      *)
(* corpus, then the live API); without an answer the API step asks again,   *)
(* and without an answer to that the sync has failed.                       *)
GetPaper(w) ==
  /\ \/ /\ \E step \in {"corpus", "api"} :
             /\ Goto(w, step, "upsert")
             /\ byApi' = [byApi EXCEPT ![w] = (step = "api")]
        /\ want' = [want EXCEPT ![w] = s2id[w]]
        /\ UNCHANGED status
     \/ /\ ApiMayFail
        /\ Goto(w, "corpus", "api")
        /\ UNCHANGED <<byApi, want, status>>
     \/ /\ ApiMayFail
        /\ Goto(w, "api", "release")
        /\ Answer(w, "failed")
        /\ UNCHANGED <<byApi, want>>
  /\ UNCHANGED <<claimed, store, entry, s2id, got, todo, locks>>

RowFree(w, p) == \A v \in Workers \ {w} : p \notin locks[v]

(* upsert_paper: INSERT ... ON CONFLICT DO UPDATE of the paper's row.       *)
UpsertPaper(w) ==
  /\ Goto(w, "upsert", "fetch")
  /\ RowFree(w, want[w])
  /\ locks' = [locks EXCEPT ![w] = @ \cup {want[w]}]
  /\ want' = [want EXCEPT ![w] = None]
  /\ UNCHANGED <<claimed, store, call, got, todo, status>>

Citations(p)  == {l \in Links : l[2] = p}
References(p) == {l \in Links : l[1] = p}
Ends(links)   == {l[1] : l \in links} \cup {l[2] : l \in links}

(* The statement moves on to its next row, in the order of the edge lists.  *)
NextRow(w, rest) ==
  /\ todo' = [todo EXCEPT ![w] = rest]
  /\ IF rest = {}
     THEN want' = [want EXCEPT ![w] = None] /\ pc' = [pc EXCEPT ![w] = "commit"]
     ELSE /\ \E p \in rest : want' = [want EXCEPT ![w] = p]
          /\ pc' = [pc EXCEPT ![w] = "stubs"]

\* What the pages of edges may hold: those before one that failed.
Pages(links) == IF ApiMayFail THEN SUBSET links ELSE {links}

(* Citations and references are requested with the paper's row locked.  A   *)
(* page that fails is not told from the last one: the edges of the pages    *)
(* before it are what there is.                                             *)
FetchLinks(w) ==
  /\ pc[w] = "fetch"
  /\ \E c \in Pages(Citations(s2id[w])), r \in Pages(References(s2id[w])) :
       /\ got' = [got EXCEPT ![w] = [citations |-> c, references |-> r]]
       /\ NextRow(w, Ends(c \cup r) \ {s2id[w]})
  /\ UNCHANGED <<claimed, store, call, locks, status>>

(* upsert_papers_batch: INSERT ... ON CONFLICT DO NOTHING, row by row.  A   *)
(* row that another open transaction wrote is waited for; a committed row   *)
(* is left as it is and not locked.                                         *)
InsertStub(w) ==
  /\ pc[w] = "stubs"
  /\ RowFree(w, want[w])
  /\ locks' = [locks EXCEPT ![w] = IF row[want[w]] = "absent" THEN @ \cup {want[w]} ELSE @]
  /\ NextRow(w, todo[w] \ {want[w]})
  /\ UNCHANGED <<claimed, store, call, got, status>>

\* The transaction of w is over: nothing is locked or pending.
EndTx(w) ==
  /\ got' = [got EXCEPT ![w] = NoLinks]
  /\ todo' = [todo EXCEPT ![w] = {}]
  /\ want' = [want EXCEPT ![w] = None]
  /\ locks' = [locks EXCEPT ![w] = {}]

\* Mutant: the edges are written without waiting for the rows of their ends.
CommitWithoutStubs(w) ==
  /\ Goto(w, "commit", "release")
  /\ got[w].citations \cap got[w].references = {}
  /\ row' = [row EXCEPT ![s2id[w]] = "full"]
  /\ fresh' = [fresh EXCEPT ![s2id[w]] = TRUE]
  /\ stored' = stored \cup got[w].citations \cup got[w].references
  /\ Answer(w, "synced")
  /\ EndTx(w)
  /\ UNCHANGED <<claimed, entryS2, call>>

\* Mutant: the papers at the ends of edges are taken for hydrated.
CommitHydratesStubs(w) ==
  /\ Goto(w, "commit", "release")
  /\ got[w].citations \cap got[w].references = {}
  /\ row' = [p \in Papers |-> IF p \in locks[w] THEN "full" ELSE row[p]]
  /\ fresh' = [p \in Papers |->
               IF p \in locks[w] /\ (row[p] = "absent" \/ byApi[w]) THEN TRUE ELSE fresh[p]]
  /\ stored' = stored \cup got[w].citations \cup got[w].references
  /\ Answer(w, "synced")
  /\ EndTx(w)
  /\ UNCHANGED <<claimed, entryS2, call>>

(* upsert_edges and commit.  updated_at is set by the API step and by an    *)
(* insert; the corpus step's ON CONFLICT DO UPDATE leaves it as it was.     *)
Commit(w) ==
  /\ Goto(w, "commit", "release")
  /\ got[w].citations \cap got[w].references = {}
  /\ row' = [p \in Papers |->
               IF p = s2id[w] THEN "full"
               ELSE IF p \in locks[w] THEN "stub" ELSE row[p]]
  /\ fresh' = [p \in Papers |->
               IF p \in locks[w] /\ (row[p] = "absent" \/ byApi[w]) THEN TRUE ELSE fresh[p]]
  /\ stored' = stored \cup got[w].citations \cup got[w].references
  /\ Answer(w, "synced")
  /\ EndTx(w)
  /\ UNCHANGED <<claimed, entryS2, call>>

(* An exception (a lost connection, a cancellation, or a link that both     *)
(* requests returned, which one DO UPDATE may not touch twice): the session *)
(* rolls back and the finally clause follows.                               *)
Raise(w) ==
  /\ pc[w] \in InSync \ {"release"}
  /\ pc[w] = "commit" => got[w].citations \cap got[w].references # {}
  /\ ApiMayFail \/ pc[w] = "commit"
  /\ pc' = [pc EXCEPT ![w] = "release"]
  /\ Answer(w, "raised")
  /\ EndTx(w)
  /\ UNCHANGED <<claimed, store, call>>

Waits(w, v) == w # v /\ want[w] \in locks[v]
Cycle(D) == D # {} /\ \A w \in D : \E v \in D : Waits(w, v)

(* PostgreSQL's deadlock detector aborts one member of a cycle.             *)
DeadlockVictim(w) ==
  /\ \E D \in SUBSET Workers :
       /\ w \in D /\ Cycle(D)
       /\ \A E \in SUBSET D : Cycle(E) => E = D
  /\ pc' = [pc EXCEPT ![w] = "release"]
  /\ Answer(w, "raised")
  /\ EndTx(w)
  /\ UNCHANGED <<claimed, store, call>>

\* Mutant: only a call that returns gives its claim back.
ReleaseUnlessRaised(w) ==
  /\ Goto(w, "release", "idle")
  /\ claimed' = IF status[w] = "raised" THEN claimed ELSE claimed \ {entry[w]}
  /\ entry' = [entry EXCEPT ![w] = None]
  /\ s2id' = [s2id EXCEPT ![w] = None]
  /\ byApi' = [byApi EXCEPT ![w] = FALSE]
  /\ UNCHANGED <<store, tx, status>>

(* The finally clause gives the claim back.                                 *)
Release(w) ==
  /\ Goto(w, "release", "idle")
  /\ claimed' = claimed \ {entry[w]}
  /\ entry' = [entry EXCEPT ![w] = None]
  /\ s2id' = [s2id EXCEPT ![w] = None]
  /\ byApi' = [byApi EXCEPT ![w] = FALSE]
  /\ UNCHANGED <<store, tx, status>>

(* Time passes: a row outlives s2_staleness_days.                           *)
Expire(p) ==
  /\ fresh[p]
  /\ fresh' = [fresh EXCEPT ![p] = FALSE]
  /\ UNCHANGED <<claimed, entryS2, row, stored, pc, status, call, tx>>

(* The process dies and starts again: the registry and the open             *)
(* transactions are gone, what was committed stays.                         *)
Restart ==
  /\ claimed' = {}
  /\ pc' = [w \in Workers |-> "idle"]
  /\ entry' = [w \in Workers |-> None]
  /\ s2id' = [w \in Workers |-> None]
  /\ status' = [w \in Workers |-> None]
  /\ byApi' = [w \in Workers |-> FALSE]
  /\ got' = [w \in Workers |-> NoLinks]
  /\ todo' = [w \in Workers |-> {}]
  /\ want' = [w \in Workers |-> None]
  /\ locks' = [w \in Workers |-> {}]
  /\ UNCHANGED store

Step(w) ==
  \/ LoadEntry(w) \/ Resolve(w) \/ SetEntryId(w) \/ CheckStale(w)
  \/ GetPaper(w) \/ UpsertPaper(w) \/ FetchLinks(w) \/ InsertStub(w)
  \/ Commit(w) \/ Raise(w) \/ DeadlockVictim(w) \/ Release(w)

Next ==
  \/ \E w \in Workers : (\E e \in Entries : Claim(w, e)) \/ Step(w)
  \/ \E p \in Papers : Expire(p)
  \/ Restart

Spec == Init /\ [][Next]_vars

(* A started call is carried on: requests time out, locks are released and  *)
(* the deadlock detector runs.  Waiting for a row is strongly fair: a       *)
(* waiter queues on the transaction that holds it and is served when that   *)
(* ends, before a later comer.  Nobody has to make a call.                  *)
Fairness ==
  \A w \in Workers :
    /\ WF_vars(Step(w))
    /\ SF_vars(UpsertPaper(w) \/ InsertStub(w))

FairSpec == Spec /\ Fairness

------------------------------------------------------------------------------
TypeOK ==
  /\ claimed \subseteq Entries
  /\ entryS2 \in [Entries -> Papers \cup {None}]
  /\ row \in [Papers -> {"absent", "stub", "full"}]
  /\ fresh \in [Papers -> BOOLEAN]
  /\ stored \subseteq Links
  /\ pc \in [Workers -> PcValues]
  /\ entry \in [Workers -> Entries \cup {None}]
  /\ s2id \in [Workers -> Papers \cup {None}]
  /\ status \in [Workers -> StatusValues \cup {None}]
  /\ byApi \in [Workers -> BOOLEAN]
  /\ got \in [Workers -> [citations : SUBSET Links, references : SUBSET Links]]
  /\ todo \in [Workers -> SUBSET Papers]
  /\ want \in [Workers -> Papers \cup {None}]
  /\ locks \in [Workers -> SUBSET Papers]

(* No two tasks sync one entry at a time, and the registry holds exactly    *)
(* the entries being synced: a claim is neither lost nor left behind by a   *)
(* return, an exception, a deadlock or a restart.                           *)
ClaimsExact ==
  /\ \A w \in Workers : pc[w] \in InSync => entry[w] \in claimed
  /\ \A e \in claimed : \E w \in Workers : pc[w] \in InSync /\ entry[w] = e
  /\ \A v, w \in Workers :
       pc[v] \in InSync /\ pc[w] \in InSync /\ entry[v] = entry[w] => v = w

(* An entry's paper, once resolved, is never replaced by a concurrent       *)
(* resolution that found another one.                                       *)
ResolvedOnce ==
  [][\A e \in Entries : entryS2[e] # None => entryS2'[e] = entryS2[e]]_vars

(* What readers see of a hydration is all of it or nothing: a stored link   *)
(* has both its papers, and one of them has been hydrated.                  *)
LinksGrounded ==
  \A l \in stored :
    /\ row[l[1]] # "absent" /\ row[l[2]] # "absent"
    /\ row[l[1]] = "full" \/ row[l[2]] = "full"

(* What a caller of ensure_synced sees: the entry its call holds, the       *)
(* resolutions, the hydrated papers and the links.                          *)
Promise == INSTANCE EntrySync WITH
  syncing  <- [w \in Workers |-> IF pc[w] \in InSync THEN entry[w] ELSE None],
  resolved <- entryS2,
  hydrated <- {p \in Papers : row[p] = "full"},
  linked   <- stored

(* The steps, locks and rollbacks of ensure_synced amount to what EntrySync *)
(* promises: a call that fails half-way leaves nothing a promise excludes.  *)
KeepsPromise == Promise!Spec

(* Each claim is given up in the end, also by a task that failed or that    *)
(* was caught in a deadlock.                                                *)
ClaimsReleased == \A e \in Entries : e \in claimed ~> e \notin claimed

(* "Ensure an entry has up-to-date S2 data" (ensure_synced): FRESH is only  *)
(* answered for a paper that has been hydrated.                             *)
FreshMeansHydrated ==
  [][\A w \in Workers :
       status[w] # "fresh" /\ status'[w] = "fresh" => row[s2id[w]] = "full"]_vars

==============================================================================
