------------------------------- MODULE NerIngest -------------------------------
(***************************************************************************)
(* How a NER release gets into the database: the transaction that clears   *)
(* and rebuilds the tables (services/ner_ingest.py), started once by the   *)
(* job of the process (runtime_components.py) and by requests              *)
(* (routers/ner.py).                                                       *)
(*                                                                         *)
(* A release is a number, the richer the larger.  A row is <<table,        *)
(* release, item>>; rows are what is committed.  A transaction reads what  *)
(* others have committed before its statement and shows its own rows only  *)
(* when it commits.                                                        *)
(***************************************************************************)
EXTENDS Naturals, FiniteSets

CONSTANTS
  Release,        \* releases, a set of numbers
  Paper,          \* entries of the library
  Facts(_),       \* the papers a release has facts about
  EntriesSeen(_), \* the number of entries a release was made from
  Admin,          \* requests that may ingest at the same time
  MaxPosts,       \* bound: requests in all
  MaxRestarts,    \* bound: ends of the process
  WaitTimeout,    \* the time the job waits for entries, in polls
  NoRelease

ASSUME NerAssumption ==
  /\ Release \subseteq Nat /\ IsFiniteSet(Release) /\ NoRelease \notin Release
  /\ IsFiniteSet(Paper) /\ \A r \in Release : EntriesSeen(r) \in Nat
  /\ "auto" \notin Admin /\ "nobody" \notin Admin
  /\ {MaxPosts, MaxRestarts, WaitTimeout} \subseteq Nat

VARIABLES
  disk,      \* releases in the signals directory; it does not change meanwhile
  entries,   \* entries imported so far
  rows,      \* the committed rows
  mutex,     \* who holds _NER_INGEST_MUTEX, "nobody"
  stage,     \* how far each transaction is, "out" when there is none
  target,    \* the release each one ingests
  deleted,   \* the rows each transaction has deleted
  inserted,  \* the rows each has inserted
  job,       \* where the job of the process stands
  left,      \* polls until its deadline
  status,    \* what the job says of itself
  written,   \* the releases ever committed
  posts,     \* requests so far
  restarts   \* ends of the process so far

nerVars == <<disk, entries, rows, mutex, stage, target, deleted, inserted, job, left,
             status, written, posts, restarts>>
txVars == <<rows, mutex, stage, target, deleted, inserted, written>>
jobVars == <<job, left, status>>
worldVars == <<disk, entries, posts, restarts>>

Ingester == {"auto"} \cup Admin
Best == CHOOSE r \in disk : \A s \in disk : s <= r

NerTypeOK ==
  /\ disk \subseteq Release /\ written \subseteq Release /\ entries \subseteq Paper
  /\ mutex \in Ingester \cup {"nobody"}
  /\ stage \in [Ingester -> {"out", "clear", "atlas", "facts", "signals", "commit"}]
  /\ target \in [Ingester -> Release \cup {NoRelease}]
  /\ job \in {"idle", "resolve", "latest", "wait", "sleep", "begin", "ingest", "finish", "done"}
  /\ left \in 0..WaitTimeout
  /\ status \in {"idle", "running", "skipped", "complete", "error"}
  /\ posts \in 0..MaxPosts /\ restarts \in 0..MaxRestarts

NerInit ==
  /\ disk \in SUBSET Release /\ entries \in SUBSET Paper /\ rows = {}
  /\ mutex = "nobody"
  /\ stage = [p \in Ingester |-> "out"]
  /\ target = [p \in Ingester |-> NoRelease]
  /\ deleted = [p \in Ingester |-> {}]
  /\ inserted = [p \in Ingester |-> {}]
  /\ job = "idle" /\ left = 0 /\ status = "idle"
  /\ written = {}
  /\ posts \in 0..MaxPosts /\ restarts \in 0..MaxRestarts

(***************************************************************************)
(* The transaction.                                                        *)
(***************************************************************************)

\* Mutant: the lock is taken without asking whether it is free.
EnterUnlocked(p, r) ==
  /\ mutex' = p
  /\ stage' = [stage EXCEPT ![p] = "clear"]
  /\ target' = [target EXCEPT ![p] = r]
  /\ UNCHANGED <<rows, deleted, inserted, written>>

(* ingest_ner_release: asking and locking is one step of the event loop.     *)
Enter(p, r) ==
  /\ mutex = "nobody"
  /\ mutex' = p
  /\ stage' = [stage EXCEPT ![p] = "clear"]
  /\ target' = [target EXCEPT ![p] = r]
  /\ UNCHANGED <<rows, deleted, inserted, written>>

\* The statement that clears waits for a transaction that deleted the same rows.
Clear(p) ==
  /\ stage[p] = "clear"
  /\ \A q \in Ingester \ {p} : deleted[q] \cap rows = {}
  /\ stage' = [stage EXCEPT ![p] = "atlas"]
  /\ deleted' = [deleted EXCEPT ![p] = rows]
  /\ UNCHANGED <<rows, mutex, target, inserted, written>>

Insert(p, items, next) ==
  /\ stage' = [stage EXCEPT ![p] = next]
  /\ inserted' = [inserted EXCEPT ![p] = @ \cup items]
  /\ UNCHANGED <<rows, mutex, target, deleted, written>>

Atlas(p) ==
  /\ stage[p] = "atlas"
  /\ Insert(p, {"release", "atlas"} \X {target[p]} \X {"all"}, "facts")

\* The facts about the entries that are there when this statement reads them.
IngestFactsOf(p) ==
  /\ stage[p] = "facts"
  /\ Insert(p, {"facts"} \X {target[p]} \X (Facts(target[p]) \cap entries), "signals")

Signals(p) ==
  /\ stage[p] = "signals"
  /\ Insert(p, {"signals"} \X {target[p]} \X {"all"}, "commit")

\* The end of the transaction, when its rows are kept.
Kept(p) ==
  /\ rows' = (rows \ deleted[p]) \cup inserted[p]
  /\ written' = written \cup {target[p]}

\* Mutant: the lock is not given back.
LeaveLocked(p) ==
  /\ UNCHANGED mutex
  /\ stage' = [stage EXCEPT ![p] = "out"]
  /\ deleted' = [deleted EXCEPT ![p] = {}]
  /\ inserted' = [inserted EXCEPT ![p] = {}]

\* The end of "async with": whatever happened, the lock is free again.
Leave(p) ==
  /\ mutex' = IF mutex = p THEN "nobody" ELSE mutex
  /\ stage' = [stage EXCEPT ![p] = "out"]
  /\ deleted' = [deleted EXCEPT ![p] = {}]
  /\ inserted' = [inserted EXCEPT ![p] = {}]

Commit(p) ==
  /\ stage[p] = "commit"
  /\ Kept(p) /\ Leave(p)
  /\ job' = IF p = "auto" THEN "finish" ELSE job
  /\ UNCHANGED <<target, left, status, worldVars>>

\* Mutant: the job does not see that its ingest has failed.
FailUnseen(p) ==
  /\ stage[p] \in {"clear", "atlas", "facts", "signals"}
  /\ Leave(p)
  /\ job' = IF p = "auto" THEN "finish" ELSE job
  /\ UNCHANGED <<rows, written, target, status, left, worldVars>>

(* A missing or broken file, a refused statement: the session is closed and  *)
(* everything is rolled back, in one step with the release of the lock.      *)
(* The job may also fail before it ingests, over the manifest, the latest    *)
(* release or the count of entries.                                         *)
Fail(p) ==
  /\ \/ stage[p] \in {"clear", "atlas", "facts", "signals"}
     \/ p = "auto" /\ job \in {"latest", "wait"}
  /\ Leave(p)
  /\ job' = IF p = "auto" THEN "done" ELSE job
  /\ status' = IF p = "auto" THEN "error" ELSE status
  /\ UNCHANGED <<rows, written, target, left, worldVars>>

Statement(p) ==
  /\ Clear(p) \/ Atlas(p) \/ IngestFactsOf(p) \/ Signals(p)
  /\ UNCHANGED <<jobVars, worldVars>>

(***************************************************************************)
(* A request: a release of the signals directory, or of any other.         *)
(***************************************************************************)
Post(a, r) ==
  /\ posts < MaxPosts /\ stage[a] = "out"
  /\ Enter(a, r)
  /\ posts' = posts + 1
  /\ UNCHANGED <<jobVars, disk, entries, restarts>>

(***************************************************************************)
(* The job.                                                                *)
(***************************************************************************)
StartJob ==
  /\ job \in {"idle", "done"}
  /\ job' = "resolve" /\ status' = "running"
  /\ UNCHANGED <<left, txVars, worldVars>>

\* resolve_signals_release_dir: the richest release; none is no error.
ResolveRelease ==
  /\ job = "resolve"
  /\ IF disk = {}
     THEN job' = "done" /\ status' = "skipped" /\ UNCHANGED target
     ELSE job' = "latest" /\ target' = [target EXCEPT !["auto"] = Best] /\ UNCHANGED status
  /\ UNCHANGED <<left, rows, mutex, stage, deleted, inserted, written, worldVars>>

\* The release the tables hold: nothing to do when it is this one.
CheckLatest ==
  /\ job = "latest"
  /\ IF \E row \in rows : row[1] = "release" /\ row[2] = target["auto"]
     THEN job' = "done" /\ status' = "skipped" /\ UNCHANGED left
     ELSE job' = "wait" /\ left' = WaitTimeout /\ UNCHANGED status
  /\ UNCHANGED <<txVars, worldVars>>

Needed(r) == IF EntriesSeen(r) = 0 THEN 1 ELSE EntriesSeen(r)

\* Mutant: the deadline is set anew with every poll.
PollRestartingWait ==
  /\ job = "wait"
  /\ CASE Cardinality(entries) >= Needed(target["auto"]) ->
            job' = "begin" /\ UNCHANGED <<status, left>>
       [] OTHER -> job' = "sleep" /\ left' = WaitTimeout /\ UNCHANGED status
  /\ UNCHANGED <<txVars, worldVars>>

\* Mutant: the wait has no end.
PollOn ==
  /\ job = "wait"
  /\ IF Cardinality(entries) >= Needed(target["auto"])
     THEN job' = "begin" /\ UNCHANGED left
     ELSE job' = "sleep" /\ left' = left - 1
  /\ UNCHANGED <<status, txVars, worldVars>>

\* One round of the wait for entries: the count first, the deadline then.
Poll ==
  /\ job = "wait"
  /\ CASE Cardinality(entries) >= Needed(target["auto"]) ->
            job' = "begin" /\ UNCHANGED <<status, left>>
       [] Cardinality(entries) < Needed(target["auto"]) /\ left = 0 ->
            job' = "done" /\ status' = "skipped" /\ UNCHANGED left
       [] OTHER -> job' = "sleep" /\ left' = left - 1 /\ UNCHANGED status
  /\ UNCHANGED <<txVars, worldVars>>

Wake == job = "sleep" /\ job' = "wait" /\ UNCHANGED <<left, status, txVars, worldVars>>

\* ConflictError of a running ingest is an error of the job as any other.
BeginIngest ==
  /\ job = "begin"
  /\ \/ Enter("auto", target["auto"]) /\ job' = "ingest" /\ UNCHANGED status
     \/ mutex # "nobody" /\ job' = "done" /\ status' = "error" /\ UNCHANGED txVars
  /\ UNCHANGED <<left, worldVars>>

Finish ==
  /\ job = "finish"
  /\ job' = "done" /\ status' = "complete"
  /\ UNCHANGED <<left, txVars, worldVars>>

(* stop: the task is cancelled where it stands; a commit that was sent may   *)
(* have been done.                                                          *)
StopJob ==
  /\ job \notin {"idle", "done"}
  /\ job' = "idle" /\ status' = "idle"
  /\ Leave("auto")
  /\ \/ UNCHANGED <<rows, written>>
     \/ stage["auto"] = "commit" /\ Kept("auto")
  /\ UNCHANGED <<target, left, worldVars>>

(* The process ends: transactions are rolled back, but for a commit that was *)
(* sent.                                                                    *)
Restart ==
  /\ restarts < MaxRestarts
  /\ restarts' = restarts + 1
  /\ mutex' = "nobody"
  /\ stage' = [p \in Ingester |-> "out"]
  /\ target' = [p \in Ingester |-> NoRelease]
  /\ deleted' = [p \in Ingester |-> {}]
  /\ inserted' = [p \in Ingester |-> {}]
  /\ job' = "idle" /\ status' = "idle" /\ left' = 0
  /\ \/ UNCHANGED <<rows, written>>
     \/ \E p \in Ingester : stage[p] = "commit" /\ Kept(p)
  /\ UNCHANGED <<disk, entries, posts>>

\* The library grows.
Import(e) ==
  /\ entries' = entries \cup {e} /\ e \notin entries
  /\ UNCHANGED <<disk, posts, restarts, txVars, jobVars>>

JobStep == ResolveRelease \/ CheckLatest \/ Poll \/ Wake \/ BeginIngest \/ Finish

NerNext ==
  \/ StartJob \/ StopJob \/ JobStep \/ Restart
  \/ \E p \in Ingester : Statement(p) \/ Commit(p) \/ Fail(p)
  \/ \E a \in Admin, r \in Release : Post(a, r)
  \/ \E e \in Paper : Import(e)

(* The event loop runs what is ready, and statements that do not wait end.   *)
NerFairness ==
  /\ WF_nerVars(JobStep)
  /\ \A p \in Ingester : WF_nerVars(Statement(p) \/ Commit(p))

NerSpec == NerInit /\ [][NerNext]_nerVars /\ NerFairness

(***************************************************************************)
(* Properties.                                                             *)
(***************************************************************************)

(* What readers find is one release and all of it, whoever ingests at the    *)
(* same time and wherever an ingest is cut off ("clear and rebuild all      *)
(* NER-derived tables atomically", ner_ingest.py:357).                      *)
OneRelease ==
  \/ rows = {}
  \/ \E r \in Release :
       /\ {row[2] : row \in rows} = {r}
       /\ {"release", "atlas", "signals"} \subseteq {row[1] : row \in rows}
       /\ {row[3] : row \in {x \in rows : x[1] = "facts"}} \subseteq Facts(r) \cap entries

(* The lock is held by the ingest that is under way, and by nobody when there *)
(* is none: no failure, stop or restart leaves later ingests refused.       *)
LockFollowsIngest ==
  \A p \in Ingester : mutex = p <=> stage[p] # "out"

(* The job says complete only of a release that was committed.               *)
StatusTrue ==
  status = "complete" => target["auto"] \in written

(* A job that runs comes to an end: it does not wait for entries for ever.   *)
JobEnds == job = "resolve" ~> job \in {"done", "idle"}

================================================================================
