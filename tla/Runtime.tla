-------------------------------- MODULE Runtime --------------------------------
(***************************************************************************)
(* The process (main.py, runtime.py): it starts its jobs in their order,   *)
(* serves requests, stops the jobs in reverse, closes its services and     *)
(* ends, or is killed at any time.  The jobs are the ingest of the         *)
(* bibliography, the ingest of a NER release, which waits for the entries  *)
(* that others make, and the backfill loop, of which only running or not   *)
(* is told here.  The checkout is asked for by the bibliography job, by    *)
(* requests that trigger it, by requests that ingest themselves, and by    *)
(* command lines, which are processes next to this one.                    *)
(*                                                                         *)
(* Of the order of callbacks on the event loop, which IngestJob is about,  *)
(* one consequence is kept: a run that was started after a checkout begins *)
(* before the next checkout is answered (StartsInTurn).                    *)
(***************************************************************************)
EXTENDS NerIngest, Checkout, Sequences

CONSTANTS
  Triggers,       \* requests for a run on the checkout (POST /admin/ingest/start)
  Directories,    \* requests for a run on another directory
  Imports,        \* requests that ingest the checkout themselves (POST /ingest)
  MaxAsks,        \* bound: requests and command lines in all
  PapersOf(_)     \* the papers in a tree of the bibliography

Workers == {"boot"} \cup Triggers \cup Directories
Ingests == Call \cup Directories

ASSUME RuntimeAssumption ==
  /\ Server = {"boot"} \cup Triggers \cup Imports
  /\ "boot" \notin Triggers \cup Imports /\ Triggers \cap Imports = {}
  /\ Directories \cap Call = {} /\ "nobody" \notin Directories
  /\ MaxAsks \in Nat
  /\ \A tree \in 0..Newest \cup {Torn} : PapersOf(tree) \subseteq Paper

VARIABLES
  phase,      \* of the process
  next,       \* the number of the job to be started or stopped next
  backfill,   \* is the backfill loop running?
  ingest,     \* how far each ingest of files is, named by who asked for it
  latest,     \* worker._task: the last run of the worker
  busy,       \* is the worker's status RUNNING?
  overlapped, \* history: a run was started while another one had not begun
  asks        \* requests and command lines so far

bibVars == <<ingest, latest, busy, overlapped>>
processVars == <<phase, next, backfill, bibVars, asks>>
runtimeVars == <<nerVars, checkoutVars, processVars>>

Jobs == <<"bibliography_ingest", "ner_auto_ingest", "s2_backfill">>

RuntimeInit ==
  /\ NerInit /\ CheckoutInit
  /\ phase = "down" /\ next = 1 /\ backfill = FALSE
  /\ ingest = [i \in Ingests |-> "none"]
  /\ latest = "nobody" /\ busy = FALSE /\ overlapped = FALSE
  /\ asks \in 0..MaxAsks

(***************************************************************************)
(* Start and stop.                                                         *)
(***************************************************************************)
Boot ==
  /\ phase = "down" /\ phase' = "starting" /\ next' = 1
  /\ UNCHANGED <<nerVars, checkoutVars, backfill, bibVars, asks>>

(* BackgroundSupervisor.start: the jobs one after the other, each only makes *)
(* its task.                                                                *)
StartNext ==
  /\ phase = "starting"
  /\ \/ next = 1 /\ Ask("boot") /\ UNCHANGED <<nerVars, backfill>>
     \/ next = 2 /\ StartJob /\ UNCHANGED <<checkoutVars, backfill>>
     \/ next = 3 /\ backfill' = TRUE /\ UNCHANGED <<nerVars, checkoutVars>>
  /\ IF next = Len(Jobs) THEN phase' = "up" /\ UNCHANGED next
     ELSE next' = next + 1 /\ UNCHANGED phase
  /\ UNCHANGED <<bibVars, asks>>

\* BibliographyIngestJob.stop: the bootstrap, then the latest run, each awaited.
StopBibliography ==
  /\ IF call["boot"] = "out" THEN UNCHANGED checkoutVars ELSE CancelCall("boot")
  /\ IF latest # "nobody" /\ ingest[latest] # "none"
     THEN ingest' = [ingest EXCEPT ![latest] = "none"] /\ busy' = FALSE
     ELSE UNCHANGED <<ingest, busy>>
  /\ UNCHANGED <<latest, overlapped>>

StopBackfill == backfill' = FALSE /\ UNCHANGED <<nerVars, checkoutVars, bibVars>>
StopNer ==
  /\ IF job \in {"idle", "done"} THEN UNCHANGED nerVars ELSE StopJob
  /\ UNCHANGED <<checkoutVars, backfill, bibVars>>

StopGoesOn ==
  /\ IF next = 1 THEN phase' = "closing" /\ UNCHANGED next
     ELSE next' = next - 1 /\ UNCHANGED phase
  /\ UNCHANGED asks

\* Mutant: the bibliography job is not stopped.
StopNextButFirst ==
  /\ phase = "stopping"
  /\ \/ next = 3 /\ StopBackfill
     \/ next = 2 /\ StopNer
     \/ next = 1 /\ UNCHANGED <<nerVars, checkoutVars, backfill, bibVars>>
  /\ StopGoesOn

\* Mutant: the stop of the bibliography job waits for its run to be over.
StopNextPolite ==
  /\ phase = "stopping"
  /\ \/ next = 3 /\ StopBackfill
     \/ next = 2 /\ StopNer
     \/ next = 1 /\ ~busy /\ StopBibliography /\ UNCHANGED <<nerVars, backfill>>
  /\ StopGoesOn

(* BackgroundSupervisor.stop: in reverse, each waits for its task to end.    *)
StopNext ==
  /\ phase = "stopping"
  /\ \/ next = 3 /\ StopBackfill
     \/ next = 2 /\ StopNer
     \/ next = 1 /\ StopBibliography /\ UNCHANGED <<nerVars, backfill>>
  /\ StopGoesOn

\* A stop is asked for; the server first lets the requests end.
Shutdown ==
  /\ phase = "up" /\ \A a \in Admin : stage[a] = "out"
  /\ \A c \in Triggers \cup Imports : call[c] = "out"
  /\ \A c \in Imports : ingest[c] = "none"
  /\ phase' = "stopping" /\ next' = Len(Jobs)
  /\ UNCHANGED <<nerVars, checkoutVars, backfill, bibVars, asks>>

\* The Semantic Scholar client and the engine are closed.
Close ==
  /\ phase = "closing" /\ phase' = "closed"
  /\ UNCHANGED <<nerVars, checkoutVars, next, backfill, bibVars, asks>>

\* No run of the worker is left.
NoRuns ==
  /\ ingest' = [i \in Ingests |-> IF i \in Cli THEN ingest[i] ELSE "none"]
  /\ latest' = "nobody" /\ busy' = FALSE /\ overlapped' = FALSE

\* asyncio.run cancels what is left and waits for the threads.
Exit ==
  /\ phase = "closed" /\ \A c \in Server : thread[c] = "out"
  /\ phase' = "down" /\ NoRuns
  /\ UNCHANGED <<nerVars, checkoutVars, next, backfill, asks>>

\* The container is killed.
Kill ==
  /\ phase # "down" /\ Restart /\ KillCalls(Server)
  /\ phase' = "down" /\ backfill' = FALSE /\ NoRuns
  /\ UNCHANGED <<next, asks>>

(***************************************************************************)
(* Requests and command lines.                                             *)
(***************************************************************************)
Asked(c) ==
  /\ asks < MaxAsks /\ asks' = asks + 1
  /\ ingest[c] = "none"

\* trigger: refused while a run is under way or the bootstrap has no checkout yet.
Refused == busy \/ call["boot"] # "out"

\* worker.start
StartRun(w) ==
  IF busy THEN UNCHANGED bibVars
  ELSE /\ ingest' = [ingest EXCEPT ![w] = "scheduled"]
       /\ latest' = w
       /\ overlapped' = (overlapped \/ \E v \in Workers : ingest[v] = "scheduled")
       /\ UNCHANGED busy

\* Others may be waiting for the checkout already, and more may come meanwhile.
Trigger(t) ==
  /\ phase = "up" /\ ~Refused /\ Asked(t)
  /\ Ask(t)
  /\ UNCHANGED <<nerVars, phase, next, backfill, bibVars>>

TriggerDirectory(d) ==
  /\ phase = "up" /\ ~Refused /\ Asked(d)
  /\ StartRun(d)
  /\ UNCHANGED <<nerVars, checkoutVars, phase, next, backfill>>

ImportBibtex(c) ==
  /\ phase = "up" /\ Asked(c)
  /\ Ask(c)
  /\ UNCHANGED <<nerVars, phase, next, backfill, bibVars>>

CommandLine(c) ==
  /\ Asked(c)
  /\ Ask(c)
  /\ UNCHANGED <<nerVars, phase, next, backfill, bibVars>>

KillCommandLine(c) ==
  /\ call[c] # "out" \/ ingest[c] # "none"
  /\ KillCalls({c})
  /\ ingest' = [ingest EXCEPT ![c] = "none"]
  /\ UNCHANGED <<nerVars, phase, next, backfill, latest, busy, overlapped, asks>>

Request ==
  \/ \E t \in Triggers : Trigger(t)
  \/ \E d \in Directories : TriggerDirectory(d)
  \/ \E c \in Imports : ImportBibtex(c)
  \/ \E c \in Cli : CommandLine(c) \/ KillCommandLine(c)

(***************************************************************************)
(* The checkout is answered, and files are ingested.                       *)
(***************************************************************************)
\* The loop runs what was scheduled first (IngestJob).
StartsInTurn(c) == c \in Server => \A w \in Server : ingest[w] # "scheduled"

(* In one turn the lock is given back and the directory goes on to the       *)
(* worker or is ingested here; an error ends the request, or the bootstrap. *)
CheckedOut(c) ==
  /\ StartsInTurn(c) /\ Answer(c)
  /\ IF call[c] # "working" \/ thread[c] = "error" THEN UNCHANGED bibVars
     ELSE IF c \in Workers THEN StartRun(c)
     ELSE ingest' = [ingest EXCEPT ![c] = "running"] /\ UNCHANGED <<latest, busy, overlapped>>
  /\ UNCHANGED <<nerVars, phase, next, backfill, asks>>

RunBegins(w) ==
  /\ ingest[w] = "scheduled" /\ ingest' = [ingest EXCEPT ![w] = "running"]
  /\ busy' = TRUE
  /\ UNCHANGED <<nerVars, checkoutVars, phase, next, backfill, latest, overlapped, asks>>

\* An entry of what is at the path by now, whichever version the ingest began with.
IngestOne ==
  /\ \E i \in Ingests : ingest[i] = "running" /\
       \E e \in (IF i \in Directories THEN Paper ELSE PapersOf(dir.tree)) : Import(e)
  /\ UNCHANGED <<checkoutVars, processVars>>

IngestEnds(i) ==
  /\ ingest[i] = "running" /\ ingest' = [ingest EXCEPT ![i] = "none"]
  /\ busy' = (busy /\ i \notin Workers)
  /\ UNCHANGED <<nerVars, checkoutVars, phase, next, backfill, latest, overlapped, asks>>

\* The jobs of another component go on by themselves.
NerAlone == UNCHANGED <<checkoutVars, processVars>>
CheckoutAlone == UNCHANGED <<nerVars, processVars>>

NerMoves ==
  /\ NerAlone
  /\ \/ JobStep
     \/ \E p \in Ingester : Statement(p) \/ Commit(p) \/ Fail(p)
     \/ phase = "up" /\ \E a \in Admin, r \in Release : Post(a, r)

CheckoutMoves ==
  /\ CheckoutAlone
  /\ Push \/ \E c \in Call : TakeLock(c) \/ Git(c)

BibliographyMoves ==
  \/ \E c \in Call : CheckedOut(c)
  \/ \E w \in Workers : RunBegins(w)
  \/ IngestOne
  \/ \E i \in Ingests : IngestEnds(i)

RuntimeNext ==
  \/ Boot \/ StartNext \/ Shutdown \/ StopNext \/ Close \/ Exit \/ Kill
  \/ Request \/ BibliographyMoves \/ NerMoves \/ CheckoutMoves

(* The event loop and the threads run; git commands end or are killed at    *)
(* their timeout.                                                           *)
RuntimeFairness ==
  /\ WF_runtimeVars(StartNext) /\ WF_runtimeVars(StopNext) /\ WF_runtimeVars(Close)
  /\ WF_runtimeVars(Exit)
  /\ WF_runtimeVars(JobStep /\ NerAlone)
  /\ \A p \in Ingester : WF_runtimeVars((Statement(p) \/ Commit(p)) /\ NerAlone)
  /\ \A w \in Workers : WF_runtimeVars(RunBegins(w))
  /\ \A c \in Server :
       /\ WF_runtimeVars(CheckedOut(c))
       /\ WF_runtimeVars(Git(c) /\ CheckoutAlone)
       /\ WF_runtimeVars(TakeLock(c) /\ CheckoutAlone)

RuntimeSpec == RuntimeInit /\ [][RuntimeNext]_runtimeVars /\ RuntimeFairness

(***************************************************************************)
(* Properties.                                                             *)
(***************************************************************************)
RuntimeTypeOK ==
  /\ NerTypeOK /\ CheckoutTypeOK
  /\ phase \in {"down", "starting", "up", "stopping", "closing", "closed"}
  /\ next \in DOMAIN Jobs
  /\ backfill \in BOOLEAN
  /\ ingest \in [Ingests -> {"none", "scheduled", "running"}]
  /\ latest \in Workers \cup {"nobody"} /\ busy \in BOOLEAN /\ overlapped \in BOOLEAN
  /\ asks \in 0..MaxAsks

(* Once the services are closed no job runs and no transaction is open: the  *)
(* engine is not taken away from under one, and the next process finds no   *)
(* other at work.  But for a run of the worker that overlapped with the     *)
(* latest one, which alone is cancelled; the end of the process ends it.    *)
QuietWhenClosed ==
  phase \in {"closed", "down"} =>
    /\ job \in {"idle", "done"} /\ ~backfill
    /\ \A p \in Ingester : stage[p] = "out"
    /\ \A i \in Ingests \ Cli : ingest[i] # "none" => i \in Workers /\ overlapped
    /\ lock = "nobody"
    /\ phase = "down" => \A c \in Server : thread[c] = "out" /\ ingest[c] = "none"

(* A stop comes to its end, wherever each job is when it begins.             *)
StopEnds == phase = "stopping" ~> phase = "down"

(* What readers find of a NER release is whole, the lock and the status tell *)
(* the truth of its ingest, at every kill, stop and failure.                *)
ReleasesSafe == OneRelease /\ LockFollowsIngest /\ StatusTrue

(* A refreshed checkout is current, however many ask for it, and nothing is  *)
(* at work after its process.                                               *)
ProcessSafe == RuntimeTypeOK /\ CheckoutCurrent /\ QuietWhenClosed

(* A job that runs and a stop come to their ends.                            *)
ProcessEnds == JobEnds /\ StopEnds
================================================================================
