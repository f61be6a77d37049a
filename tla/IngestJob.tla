------------------------------- MODULE IngestJob -------------------------------
(***************************************************************************)
(* Starting, triggering and stopping background ingestion:                 *)
(* BibliographyIngestJob (runtime_components.py), the checkout it waits    *)
(* for (bibliography_repository.py) and IngestionWorker (worker.py).       *)
(*                                                                         *)
(* Everything runs on one event loop.  `ready` is its queue of callbacks:  *)
(* the task at its head runs to its next await, in one step, and what it   *)
(* schedules goes to the back.  Work in threads and database calls end at  *)
(* any time and then schedule the task that awaits them.  Whether a second *)
(* run can be started depends on this order.                               *)
(*                                                                         *)
(* Left out: the directory that is ingested, what ingestion does with a    *)
(* file, and the progress fields that only count entries.                  *)
(***************************************************************************)
EXTENDS Naturals, Sequences

CONSTANTS
  Bootstrap,      \* the task that prepares the checkout at startup
  Shutdown,       \* the task that stops the jobs
  Requests,       \* POST /admin/ingest/start
  Runs,           \* names for the tasks of the worker; bounds their number
  None,           \* no task
  Files,          \* number of bibliography files
  WithDirectory   \* whether a request may name a directory to ingest

Tasks == {Bootstrap, Shutdown} \cup Requests \cup Runs

ASSUME IngestAssumption ==
  /\ Bootstrap # Shutdown /\ {Bootstrap, Shutdown} \cap (Requests \cup Runs) = {}
  /\ Requests \cap Runs = {} /\ None \notin Tasks
  /\ Files \in Nat /\ WithDirectory \in BOOLEAN

VARIABLES
  ready,      \* tasks scheduled on the event loop, in order
  pc,         \* where each task is
  cancelled,  \* tasks that will get CancelledError at their next step
  checkout,   \* the checkout's asyncio.Lock: its holder, then its waiters
  latest,     \* worker._task
  overlapped, \* history: a run started straight from a trigger and another one
              \* were both scheduled before either had begun
  status,     \* worker.progress.status
  total,      \* worker.progress.files_total
  done,       \* worker.progress.files_done
  left,       \* files each run has still to process
  reply       \* what each request was answered

progress == <<status, total, done>>
started == <<latest, overlapped>>
vars == <<ready, pc, cancelled, checkout, started, progress, left, reply>>

Ended == {"off", "done"}
Live(t) == pc[t] \notin Ended
Begun(r) == pc[r] \in {"index", "indexed", "file", "filed", "yield", "failed"}

Init ==
  /\ ready = <<Bootstrap>>
  /\ pc = [t \in Tasks |-> IF t = Bootstrap THEN "start" ELSE "off"]
  /\ cancelled = {}
  /\ checkout = << >>
  /\ latest = None /\ overlapped = FALSE
  /\ status = "idle" /\ total = 0 /\ done = 0
  /\ left = [r \in Runs |-> 0]
  /\ reply = [q \in Requests |-> "none"]

(* Task t is at its turn, at point p, and has not been cancelled.           *)
Turn(t, p) == ready # << >> /\ Head(ready) = t /\ pc[t] = p /\ t \notin cancelled

\* The step of the task at the head schedules `more` and brings it to p.
Yield(t, p, more) ==
  /\ ready' = Tail(ready) \o more
  /\ pc' = [pc EXCEPT ![t] = p]

------------------------------------------------------------------------------
\* Mutant: the lock of the checkout is not taken.
AcquireUnlocked(t) ==
  /\ checkout' = Append(checkout, t)
  /\ Yield(t, "git", << >>)

(* ensure_checkout: `async with self._lock`, then git in a thread.          *)
Acquire(t) ==
  /\ checkout' = Append(checkout, t)
  /\ Yield(t, IF checkout = << >> THEN "git" ELSE "waiting", << >>)

(* The lock was released to this waiter.                                    *)
Granted(t) ==
  /\ Turn(t, "granted")
  /\ Yield(t, "git", << >>)
  /\ UNCHANGED <<cancelled, checkout, started, progress, left, reply>>

(* The git commands end.                                                    *)
GitReturns(t) ==
  /\ pc[t] = "git" /\ t \notin cancelled
  /\ \E p \in {"ready", "broken"} : pc' = [pc EXCEPT ![t] = p]
  /\ ready' = Append(ready, t)
  /\ UNCHANGED <<cancelled, checkout, started, progress, left, reply>>

Released == Tail(checkout)

\* Mutant: the lock is released without waking a waiter.
WokenNever == << >>

(* Leaving `async with` gives the lock to the first waiter.                 *)
Woken == IF Released = << >> THEN << >> ELSE <<Head(Released)>>
AfterRelease(t, p) ==
  [u \in Tasks |-> IF u = t THEN p
                   ELSE IF u \in {Woken[i] : i \in 1..Len(Woken)} THEN "granted" ELSE pc[u]]

Scheduled == {"begin", "direct"}
Unused == {r \in Runs : pc[r] = "off"}

(* worker.start: a run is scheduled unless progress says that one is        *)
(* running, which is the case from a run's first step on.  `at` is "direct" *)
(* for the run of a trigger that had no checkout to wait for.               *)
StartWorker(t, at, before, pcs) ==
  IF status = "running"
  THEN /\ ready' = before /\ pc' = pcs
       /\ UNCHANGED started
  ELSE \E r \in Unused :
         /\ latest' = r
         /\ overlapped' = (overlapped \/ \E s \in Runs :
                            pc[s] \in Scheduled /\ "direct" \in {at, pc[s]})
         /\ pc' = [pcs EXCEPT ![r] = at]
         /\ ready' = before \o <<r>>

(* The task that awaited the checkout: the job's bootstrap or a request.    *)
CheckedOut(t) ==
  /\ Turn(t, "ready")
  /\ checkout' = Released
  /\ StartWorker(t, "begin", Tail(ready) \o Woken, AfterRelease(t, "done"))
  /\ reply' = IF t \in Requests THEN [reply EXCEPT ![t] = "started"] ELSE reply
  /\ UNCHANGED <<cancelled, progress, left>>

(* BibliographyRepositoryError: the bootstrap gives up, a request fails.    *)
CheckoutFailed(t) ==
  /\ Turn(t, "broken")
  /\ checkout' = Released
  /\ ready' = Tail(ready) \o Woken
  /\ pc' = AfterRelease(t, "done")
  /\ reply' = IF t \in Requests THEN [reply EXCEPT ![t] = "error"] ELSE reply
  /\ UNCHANGED <<cancelled, started, progress, left>>

BootstrapStart ==
  /\ Turn(Bootstrap, "start")
  /\ Acquire(Bootstrap)
  /\ UNCHANGED <<cancelled, started, progress, left, reply>>

(* A request arrives; the server takes no more once it shuts down.          *)
Arrive(q) ==
  /\ pc[q] = "off" /\ pc[Shutdown] = "off"
  /\ pc' = [pc EXCEPT ![q] = "start"]
  /\ ready' = Append(ready, q)
  /\ UNCHANGED <<cancelled, checkout, started, progress, left, reply>>

(* Running, or the bootstrap is still preparing the checkout.               *)
TriggerRefused(q) == status = "running" \/ Live(Bootstrap)

(* trigger(): refuse, start the worker in the given directory, or wait for  *)
(* the checkout first.                                                      *)
Trigger(q) ==
  /\ Turn(q, "start")
  /\ IF TriggerRefused(q)
     THEN /\ Yield(q, "done", << >>)
          /\ reply' = [reply EXCEPT ![q] = "running"]
          /\ UNCHANGED <<checkout, started>>
     ELSE \/ /\ WithDirectory
             /\ StartWorker(q, "direct", Tail(ready), [pc EXCEPT ![q] = "done"])
             /\ reply' = [reply EXCEPT ![q] = "started"]
             /\ UNCHANGED checkout
          \/ /\ Acquire(q)
             /\ UNCHANGED <<started, reply>>
  /\ UNCHANGED <<cancelled, progress, left>>

------------------------------------------------------------------------------
\* Mutant: a run goes on with the progress of the one before.
RunBeginKeepsProgress(r) ==
  /\ Turn(r, "begin") \/ Turn(r, "direct")
  /\ status' = "running"
  /\ Yield(r, "index", << >>)
  /\ UNCHANGED <<cancelled, checkout, started, total, done, left, reply>>

(* _run begins: fresh progress, then the search index in a thread.          *)
RunBegin(r) ==
  /\ Turn(r, "begin") \/ Turn(r, "direct")
  /\ status' = "running" /\ total' = 0 /\ done' = 0
  /\ Yield(r, "index", << >>)
  /\ UNCHANGED <<cancelled, checkout, started, left, reply>>

(* The thread or the database answers the run, or raises.                   *)
RunReturns(r) ==
  /\ pc[r] \in {"index", "file"} /\ r \notin cancelled
  /\ \E p \in {IF pc[r] = "index" THEN "indexed" ELSE "filed", "failed"} :
       pc' = [pc EXCEPT ![r] = p]
  /\ ready' = Append(ready, r)
  /\ UNCHANGED <<cancelled, checkout, started, progress, left, reply>>

\* Mutant: the last file is taken for the end of the list.
NextFileShort(r, n) ==
  IF n <= 1
  THEN status' = "complete" /\ Yield(r, "done", << >>)
  ELSE UNCHANGED status /\ Yield(r, "file", << >>)

(* The files still to do are processed one by one; after the last one the   *)
(* run is complete.                                                         *)
NextFile(r, n) ==
  IF n = 0
  THEN status' = "complete" /\ Yield(r, "done", << >>)
  ELSE UNCHANGED status /\ Yield(r, "file", << >>)

Scan(r) ==
  /\ Turn(r, "indexed")
  /\ total' = Files
  /\ left' = [left EXCEPT ![r] = Files]
  /\ NextFile(r, Files)
  /\ UNCHANGED <<cancelled, checkout, started, done, reply>>

(* A file is done; sleep(0) lets the other tasks run.                       *)
FileDone(r) ==
  /\ Turn(r, "filed")
  /\ done' = done + 1
  /\ left' = [left EXCEPT ![r] = @ - 1]
  /\ Yield(r, "yield", <<r>>)
  /\ UNCHANGED <<cancelled, checkout, started, status, total, reply>>

GoOn(r) ==
  /\ Turn(r, "yield")
  /\ NextFile(r, left[r])
  /\ UNCHANGED <<cancelled, checkout, started, total, done, left, reply>>

RunFailed(r) ==
  /\ Turn(r, "failed")
  /\ status' = "error"
  /\ Yield(r, "done", << >>)
  /\ UNCHANGED <<cancelled, checkout, started, total, done, left, reply>>

------------------------------------------------------------------------------
(* Shutdown, once the requests have been answered.                          *)
StopArrives ==
  /\ pc[Shutdown] = "off"
  /\ \A q \in Requests : ~Live(q)
  /\ pc' = [pc EXCEPT ![Shutdown] = "start"]
  /\ ready' = Append(ready, Shutdown)
  /\ UNCHANGED <<cancelled, checkout, started, progress, left, reply>>

(* task.cancel(): a task that awaits something is scheduled, one that is    *)
(* scheduled already gets CancelledError at its turn.                       *)
Cancel(t, p) ==
  /\ cancelled' = cancelled \cup {t}
  /\ pc' = [pc EXCEPT ![Shutdown] = p]
  /\ ready' = Tail(ready) \o (IF pc[t] \in {"waiting", "git", "index", "file"} THEN <<t>> ELSE << >>)

\* Mutant: stop() does not go on to the worker after the bootstrap.
StopBootstrapOnly ==
  /\ Turn(Shutdown, "start")
  /\ Live(Bootstrap)
  /\ Cancel(Bootstrap, "done")
  /\ UNCHANGED <<checkout, started, progress, left, reply>>

(* job.stop(): the bootstrap is cancelled and awaited.                      *)
StopBootstrap ==
  /\ Turn(Shutdown, "start")
  /\ Live(Bootstrap)
  /\ Cancel(Bootstrap, "bootstrap")
  /\ UNCHANGED <<checkout, started, progress, left, reply>>

(* worker.stop(), in the same turn when there is no bootstrap to wait for:  *)
(* the latest run is cancelled and awaited, and progress is idle again.     *)
StopWorker ==
  /\ Turn(Shutdown, "start") \/ Turn(Shutdown, "bootstrap")
  /\ ~Live(Bootstrap)
  /\ IF latest # None /\ Live(latest)
     THEN Cancel(latest, "worker")
     ELSE Yield(Shutdown, "done", << >>) /\ UNCHANGED cancelled
  /\ UNCHANGED <<checkout, started, progress, left, reply>>

Stopped ==
  /\ Turn(Shutdown, "worker")
  /\ status' = "idle"
  /\ Yield(Shutdown, "done", << >>)
  /\ UNCHANGED <<cancelled, checkout, started, total, done, left, reply>>

\* Mutant: nobody waits for a cancelled task.
WakesNobody(t) == << >>

(* The shutdown task, if it waits for t to end, is scheduled then.          *)
Wakes(t) ==
  IF (t = Bootstrap /\ pc[Shutdown] = "bootstrap") \/ (t = latest /\ pc[Shutdown] = "worker")
  THEN <<Shutdown>> ELSE << >>

(* CancelledError in the bootstrap: it leaves the lock or its queue.        *)
BootstrapCancelled ==
  /\ ready # << >> /\ Head(ready) = Bootstrap /\ Bootstrap \in cancelled
  /\ \/ \E i \in 1..Len(checkout) :
          /\ checkout[i] = Bootstrap
          /\ checkout' = SubSeq(checkout, 1, i - 1) \o SubSeq(checkout, i + 1, Len(checkout))
     \/ Bootstrap \notin {checkout[i] : i \in 1..Len(checkout)} /\ UNCHANGED checkout
  /\ Yield(Bootstrap, "done", Wakes(Bootstrap))
  /\ UNCHANGED <<cancelled, started, progress, left, reply>>

(* CancelledError in a run: idle, if it had begun at all.                   *)
RunCancelled(r) ==
  /\ ready # << >> /\ Head(ready) = r /\ r \in cancelled
  /\ status' = IF pc[r] \in Scheduled THEN status ELSE "idle"
  /\ Yield(r, "done", Wakes(r))
  /\ UNCHANGED <<cancelled, checkout, started, total, done, left, reply>>

Step ==
  \/ BootstrapStart \/ BootstrapCancelled
  \/ StopBootstrap \/ StopWorker \/ Stopped
  \/ \E t \in {Bootstrap} \cup Requests : Granted(t) \/ CheckedOut(t) \/ CheckoutFailed(t)
  \/ \E q \in Requests : Trigger(q)
  \/ \E r \in Runs :
       RunBegin(r) \/ Scan(r) \/ FileDone(r) \/ GoOn(r) \/ RunFailed(r) \/ RunCancelled(r)

Returns ==
  \/ \E t \in {Bootstrap} \cup Requests : GitReturns(t)
  \/ \E r \in Runs : RunReturns(r)

Next == Step \/ Returns \/ StopArrives \/ \E q \in Requests : Arrive(q)

Spec == Init /\ [][Next]_vars

(* The event loop goes on, and what a task awaits ends: git has a timeout,  *)
(* and the search and database clients answer or raise.                     *)
Fairness == WF_vars(Step) /\ \A t \in Tasks : WF_vars(Returns /\ pc'[t] # pc[t])

FairSpec == Spec /\ Fairness

------------------------------------------------------------------------------
PcValues == Ended \cup {"start", "waiting", "granted", "git", "ready", "broken",
  "begin", "direct", "index", "indexed", "file", "filed", "yield", "failed", "bootstrap", "worker"}

TypeOK ==
  /\ ready \in Seq(Tasks)
  /\ pc \in [Tasks -> PcValues]
  /\ cancelled \subseteq Tasks
  /\ checkout \in Seq(Tasks)
  /\ latest \in Runs \cup {None}
  /\ status \in {"idle", "running", "complete", "error"}
  /\ total \in {0, Files}
  /\ overlapped \in BOOLEAN
  /\ done \in Nat /\ (~overlapped => done <= Files)
  /\ left \in [Runs -> 0..Files]
  /\ reply \in [Requests -> {"none", "running", "started", "error"}]

(* "If already running, returns current status without restarting."         *)
(* (admin.py): there is one run at a time, but for a trigger with a         *)
(* directory next to a start whose run had not taken its first step.        *)
OneRun == ~overlapped => \A r, s \in Runs : Live(r) /\ Live(s) => r = s

(* The progress the worker reports is that of its run: RUNNING while one    *)
(* works and not after, and files_done of files_total are behind it.        *)
ProgressTrue ==
  ~overlapped =>
    /\ status = "running" <=> \E r \in Runs : Begun(r)
    /\ \A r \in Runs :
         pc[r] \in {"file", "filed", "yield"} => total = Files /\ done + left[r] = total
    /\ status = "complete" => total = Files /\ done = total

(* After the jobs were stopped nothing of them is left on the event loop,   *)
(* for the database connections are closed next; but for a run that         *)
(* overlapped with the latest one, which alone is cancelled.                *)
StopLeavesNothing ==
  pc[Shutdown] = "done" /\ ~overlapped => ready = << >> /\ \A t \in Tasks : ~Live(t)

(* Every request is answered.                                               *)
RequestsAnswered == \A q \in Requests : pc[q] = "start" ~> reply[q] # "none"

(* Shutdown ends.                                                           *)
StopEnds == pc[Shutdown] = "start" ~> pc[Shutdown] = "done"

(* Requests and shutdown alike come to their end, whatever git, the search  *)
(* index and the database do and in whatever order they do it.              *)
EverythingEnds == RequestsAnswered /\ StopEnds
==============================================================================
