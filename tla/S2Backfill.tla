------------------------------ MODULE S2Backfill ------------------------------
(***************************************************************************)
(* The loop that resolves and syncs library entries in the background:     *)
(* S2BackfillJob._run (runtime_components.py) over SyncOrchestrator's      *)
(* backfill (s2_sync.py), next to the requests that sync entries too and   *)
(* the ingestion that creates them.                                        *)
(*                                                                         *)
(* A call of ensure_synced is what EntrySync promises, which S2Sync        *)
(* implements.  Entries are numbered in the order of their creation.  Left *)
(* out: the delays, and the count that chooses between two of them.        *)
(***************************************************************************)
EXTENDS EntrySync, Integers, FiniteSets, Sequences, SequencesExt

CONSTANTS
  Job,        \* the worker that is the backfill loop
  BatchSize,  \* s2_backfill_batch_size
  MaxRestarts,\* bound: restarts of the process
  Newest      \* the last entry that ingestion will create

ASSUME BackfillAssumption ==
  /\ Job \in Workers /\ BatchSize \in Nat \ {0} /\ {Newest, MaxRestarts} \subseteq Nat
  /\ Entries = 1..Newest

VARIABLES
  created,    \* entries 1..created are in the database
  phase,      \* "sleeping", "batch" or "call"
  batch,      \* entries of this batch still to do, in order
  restarts    \* how often the process has been restarted

loop == <<created, phase, batch, restarts>>
allVars == <<vars, loop>>

BackfillInit ==
  /\ Init
  /\ created = 0
  /\ phase = "sleeping"
  /\ batch = << >>
  /\ restarts = 0

(* Ingestion commits a new entry.                                           *)
Create ==
  /\ created < Newest
  /\ created' = created + 1
  /\ UNCHANGED <<vars, phase, batch, restarts>>

Unresolved == {e \in 1..created : resolved[e] = None}

\* Mutant: the limit is one short.
UnresolvedEntriesShort(n) ==
  LET newestFirst == SetToSortSeq(Unresolved, LAMBDA d, e : d > e)
  IN SubSeq(newestFirst, 1, IF n - 1 < Len(newestFirst) THEN n - 1 ELSE Len(newestFirst))

\* Mutant: the limit is left out.
UnresolvedEntriesAll(n) == SetToSortSeq(Unresolved, LAMBDA d, e : d > e)

(* unresolved_entries: by created_at, newest first, at most n.              *)
UnresolvedEntries(n) ==
  LET newestFirst == SetToSortSeq(Unresolved, LAMBDA d, e : d > e)
  IN SubSeq(newestFirst, 1, IF n < Len(newestFirst) THEN n ELSE Len(newestFirst))

(* A sleep of the loop is over and backfill() reads its batch; a query that *)
(* fails is logged and slept off.                                           *)
StartBatch ==
  /\ phase = "sleeping"
  /\ batch' = UnresolvedEntries(BatchSize)
  /\ phase' = "batch"
  /\ UNCHANGED <<vars, created, restarts>>

(* The next entry, whatever became of it since the batch was read: a call   *)
(* of ensure_synced, or SYNCING when another worker has the claim.          *)
NextEntry ==
  /\ phase = "batch"
  /\ batch # << >>
  /\ batch' = Tail(batch)
  /\ IF \E w \in Workers : syncing[w] = Head(batch)
     THEN UNCHANGED <<vars, phase>>
     ELSE Begin(Job, Head(batch)) /\ phase' = "call"
  /\ UNCHANGED <<created, restarts>>

EndBatch ==
  /\ phase = "batch"
  /\ batch = << >>
  /\ phase' = "sleeping"
  /\ UNCHANGED <<vars, created, batch, restarts>>

(* The call returns or raises; backfill() logs it and goes on.              *)
EndCall ==
  /\ phase = "call"
  /\ End(Job)
  /\ phase' = "batch"
  /\ UNCHANGED <<created, batch, restarts>>

(* The process stops or dies, in a sleep of the loop or in a call, and is   *)
(* started again.                                                           *)
Restart ==
  /\ restarts < MaxRestarts
  /\ restarts' = restarts + 1
  /\ Crash
  /\ phase' = "sleeping"
  /\ batch' = << >>
  /\ UNCHANGED created

Call(w) == (Resolve(w) \/ Hydrate(w)) /\ UNCHANGED loop

(* A request that syncs an entry it read from the database.                 *)
Request(w) ==
  /\ w # Job
  /\ (\E e \in 1..created : Begin(w, e)) \/ End(w)
  /\ UNCHANGED loop

BackfillNext ==
  \/ Create \/ StartBatch \/ NextEntry \/ EndBatch \/ EndCall \/ Restart
  \/ \E w \in Workers : Call(w) \/ Request(w)

BackfillSpec == BackfillInit /\ [][BackfillNext]_allVars

(* The loop runs on and calls return, those of requests too.  Semantic      *)
(* Scholar is not down for good: an entry or a paper that it is asked for   *)
(* again and again is found at last.                                        *)
BackfillFairness ==
  /\ WF_allVars(StartBatch) /\ WF_allVars(NextEntry)
  /\ WF_allVars(EndBatch) /\ WF_allVars(EndCall)
  /\ \A w \in Workers \ {Job} : WF_allVars(Request(w) /\ syncing[w] # None)
  /\ \A e \in Entries :
       /\ SF_allVars(\E w \in Workers : syncing[w] = e /\ Resolve(w) /\ UNCHANGED loop)
       /\ SF_allVars(\E w \in Workers : syncing[w] = e /\ Hydrate(w) /\ UNCHANGED loop)

FairBackfillSpec == BackfillSpec /\ BackfillFairness

------------------------------------------------------------------------------
TypeOK ==
  /\ syncing \in [Workers -> Entries \cup {None}]
  /\ resolved \in [Entries -> Papers \cup {None}]
  /\ hydrated \subseteq Papers
  /\ linked \subseteq Links
  /\ created \in 0..Newest
  /\ phase \in {"sleeping", "batch", "call"}
  /\ batch \in Seq(Entries) /\ Len(batch) <= BatchSize
  /\ restarts \in 0..MaxRestarts

(* The loop takes the newest unresolved entries, those that have just been  *)
(* found to have no match among them: an entry gets its turn for certain    *)
(* only if fewer of these are newer than it than a batch has places.        *)
Reached(e) ==
  /\ Matches[e] # {}
  /\ Cardinality({d \in Entries : d > e /\ Matches[d] = {}}) < BatchSize

(* Each entry that Semantic Scholar knows, and that the loop reaches, is    *)
(* resolved in the end, whoever else syncs it, and although the batch may   *)
(* be out of date when its turn comes.                                      *)
BackfillResolves ==
  \A e \in Entries : Reached(e) => (created >= e ~> resolved[e] # None)

==============================================================================
