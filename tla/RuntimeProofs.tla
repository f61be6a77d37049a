----------------------------- MODULE RuntimeProofs -----------------------------
(***************************************************************************)
(* What the process keeps through failures, stops and kills, proved for    *)
(* any releases, papers, requests, command lines and runs.                 *)
(*                                                                         *)
(* The argument has three parts.  The lock of the NER ingest is held from  *)
(* before a transaction deletes until it ends, so that nobody commits      *)
(* between what it deletes and what it inserts.  One thread of a process   *)
(* at most works on the checkout: a call that is cancelled frees the lock  *)
(* under its thread, but only when the process is stopping and no other    *)
(* call comes; and threads of two processes know it of each other.  And    *)
(* the stops follow an order, in which each job that is over stays so.     *)
(***************************************************************************)
EXTENDS Runtime, FiniteSetTheorems, WellFoundedInduction, TLAPS

(***************************************************************************)
(* The invariants.                                                         *)
(***************************************************************************)
Row == {"release", "atlas", "facts", "signals"} \X Release \X (Paper \cup {"all"})

RowsOK ==
  /\ rows \subseteq Row
  /\ deleted \in [Ingester -> SUBSET Row]
  /\ inserted \in [Ingester -> SUBSET Row]

(* The rows R are of release r and claim no fact that it does not have.     *)
OnlyOf(R, r) ==
  \A row \in R : row[2] = r /\ (row[1] = "facts" => row[3] \in Facts(r) \cap entries)

(* A transaction has deleted all there is and inserts one release, with the *)
(* tables that are behind it.                                               *)
TxInv ==
  \A p \in Ingester : stage[p] # "out" =>
    /\ target[p] \in Release
    /\ OnlyOf(inserted[p], target[p])
    /\ stage[p] # "clear" => deleted[p] = rows
    /\ stage[p] \in {"facts", "signals", "commit"} =>
         {<<"release", target[p], "all">>, <<"atlas", target[p], "all">>} \subseteq inserted[p]
    /\ stage[p] = "commit" => <<"signals", target[p], "all">> \in inserted[p]

(* A transaction that has not begun has inserted nothing.                   *)
IdleInv == \A p \in Ingester : stage[p] = "out" => inserted[p] = {}

(* The job is in its ingest when its transaction is open, and it comes to   *)
(* its end with the release it has committed.                               *)
JobInv ==
  /\ stage["auto"] # "out" <=> job = "ingest"
  /\ job \in {"latest", "wait", "sleep", "begin", "ingest", "finish"} => target["auto"] \in Release
  /\ job = "finish" => target["auto"] \in written
  /\ status = "complete" => job = "done"

NerInv ==
  NerTypeOK /\ RowsOK /\ LockFollowsIngest /\ TxInv /\ IdleInv /\ JobInv /\ StatusTrue
    /\ OneRelease

(* A thread that works is that of a call that waits for it, or it was left  *)
(* behind by a stop of the bootstrap.                                       *)
ThreadInv ==
  \A c \in Call : thread[c] # "out" =>
    call[c] = "working" \/ (c \in Server /\ phase \in {"closing", "closed"})

\* The lock of the server belongs to its call that works.
WorkerInv == \A c \in Server : call[c] = "working" <=> lock = c

\* Two threads at work are of two processes, and both know it.
MetInv ==
  \A c, d \in Call : c # d /\ thread[c] # "out" /\ thread[d] # "out" => met[c]

(* Threads that work on a path work on a checkout or where none was; none   *)
(* refreshes what is not to be refreshed.                                   *)
PathInv ==
  \A c \in Call :
    /\ thread[c] \in {"clone", "cloning", "head", "fetch", "checkout", "updating"} =>
         dir.kind \in {"absent", "empty", "repo"}
    /\ ~refresh => thread[c] \notin {"head", "fetch"}

(* What a thread that has met no other process knows of the directory at    *)
(* each of its commands.                                                    *)
DirInv ==
  \A c \in Call :
    /\ since[c] <= upstream
    /\ ~met[c] =>
        /\ thread[c] \in {"cloning", "head", "fetch", "checkout", "updating"} => dir.kind = "repo"
        /\ thread[c] = "checkout" => dir.tracked >= since[c]
        /\ thread[c] = "updating" => dir.index >= since[c]

(* Who may ask for the checkout in each phase.                              *)
AskedInv ==
  /\ call["boot"] # "out" =>
       phase \in {"up", "stopping"} \/ (phase = "starting" /\ next # 1)
  /\ \A c \in Triggers \cup Imports : call[c] # "out" => phase = "up"

(* But for overlapped runs, only the latest run of the worker is under way, *)
(* and none once the bibliography job is stopped.                           *)
RunsInv ==
  /\ \A c \in Imports : ingest[c] # "none" => phase = "up"
  /\ phase = "down" => ~overlapped
  /\ ~overlapped => \A w \in Workers : ingest[w] # "none" =>
       latest = w /\ (ingest[w] = "running" => busy) /\ phase \notin {"closing", "closed", "down"}

(* What has not been started yet or has been stopped already is at rest.    *)
JobAtRest ==
  \/ phase \in {"down", "closing", "closed"}
  \/ phase = "starting" /\ next # 3
  \/ phase = "stopping" /\ next = 1
BackfillAtRest == phase # "up" /\ ~(phase = "stopping" /\ next = 3)

PhaseInv ==
  /\ phase # "up" => \A a \in Admin : stage[a] = "out"
  /\ phase = "down" => \A c \in Server : thread[c] = "out"
  /\ JobAtRest => job \in {"idle", "done"}
  /\ BackfillAtRest => ~backfill

ProcessInv ==
  ThreadInv /\ WorkerInv /\ MetInv /\ PathInv /\ DirInv /\ AskedInv /\ RunsInv /\ PhaseInv
    /\ CheckoutCurrent

IInv == RuntimeTypeOK /\ NerInv /\ ProcessInv

(***************************************************************************)
(* The largest number of a finite set.                                     *)
(***************************************************************************)

(* Among finitely many numbers there is a largest: the one with the fewest  *)
(* above it.                                                                *)
LEMMA Largest ==
  ASSUME NEW S \in SUBSET Nat, IsFiniteSet(S), S # {}
  PROVE  \E m \in S : \A s \in S : s <= m
<1>. DEFINE Above(r) == {s \in S : s > r}
            Counts == {Cardinality(Above(r)) : r \in S}
<1>1. \A r \in S : IsFiniteSet(Above(r)) /\ Cardinality(Above(r)) \in Nat
  BY FS_Subset, FS_CardinalityType
<1>2. Counts \subseteq Nat /\ Counts # {}
  BY <1>1
<1>3. PICK n \in Counts : \A k \in Counts : ~(<<k, n>> \in OpToRel(<, Nat))
  <2>. HIDE DEF Counts
  <2>. QED
    BY <1>2, NatLessThanWellFounded, WFMin
<1>4. \A k \in Counts : ~(k < n)
  <2>1. \A k, l \in Nat : k < l => <<k, l>> \in OpToRel(<, Nat)
    BY DEF OpToRel
  <2>. HIDE DEF Counts
  <2>. QED
    BY <1>2, <1>3, <2>1
<1>5. PICK m \in S : n = Cardinality(Above(m))
  OBVIOUS
<1>6. ASSUME NEW s \in S, s > m PROVE FALSE
  <2>1. Above(s) \in SUBSET Above(m) /\ s \in Above(m) /\ s \notin Above(s)
    <3>1. m \in Nat /\ s \in Nat /\ \A x \in S : x \in Nat
      OBVIOUS
    <3>2. \A x \in S : x > s => x > m
      BY <1>6, <3>1
    <3>3. ~(s > s)
      BY <3>1
    <3>. QED
      BY <1>6, <3>2, <3>3
  <2>2. Cardinality(Above(s)) <= Cardinality(Above(m))
        /\ Cardinality(Above(s)) # Cardinality(Above(m))
    <3>. HIDE DEF Above
    <3>. QED
      BY <1>1, <2>1, FS_Subset
  <2>3. Cardinality(Above(s)) \in Counts
    OBVIOUS
  <2>. HIDE DEF Above, Counts
  <2>. QED
    BY <1>1, <1>4, <1>5, <2>2, <2>3
<1>. QED
  BY <1>6

(* The richest release on disk is one of those on disk.                     *)
LEMMA BestIsOnDisk ==
  ASSUME disk \subseteq Release, disk # {}
  PROVE  Best \in disk
<1>1. disk \in SUBSET Nat /\ IsFiniteSet(disk)
  BY NerAssumption, FS_Subset DEF NerAssumption
<1>2. \E r \in disk : \A s \in disk : s <= r
  BY <1>1, Largest
<1>. QED
  BY <1>2 DEF Best

(***************************************************************************)
(* The ingest of a release.                                                *)
(***************************************************************************)
(* The invariant holds before the first ingest.                             *)
LEMMA NerInitInv == NerInit => NerInv
<1>. SUFFICES ASSUME NerInit PROVE NerInv
  OBVIOUS
<1>. USE NerAssumption DEF NerAssumption, Ingester
<1>1. NerTypeOK
  BY DEF NerInit, NerTypeOK
<1>2. RowsOK /\ LockFollowsIngest /\ TxInv /\ IdleInv
  BY DEF NerInit, RowsOK, LockFollowsIngest, TxInv, IdleInv
<1>3. JobInv /\ StatusTrue /\ OneRelease
  BY DEF NerInit, JobInv, StatusTrue, OneRelease
<1>. QED
  BY <1>1, <1>2, <1>3 DEF NerInv

(* Type correctness is preserved.                                           *)
LEMMA NerTypeStep == NerInv /\ [NerNext]_nerVars => NerTypeOK'
<1>. SUFFICES ASSUME NerTypeOK, TxInv, JobInv, [NerNext]_nerVars PROVE NerTypeOK'
  BY DEF NerInv
<1>. USE NerAssumption DEF NerAssumption, NerTypeOK, txVars, jobVars, worldVars
<1>a. "auto" \in Ingester /\ Admin \subseteq Ingester
  BY DEF Ingester
<1>1. CASE StartJob
  BY <1>1 DEF StartJob
<1>2. CASE StopJob
  BY <1>2, <1>a DEF StopJob, Leave, Kept, TxInv
<1>3. CASE ResolveRelease
  <2>1. disk # {} => Best \in Release
    BY BestIsOnDisk
  <2>. QED
    BY <1>3, <1>a, <2>1 DEF ResolveRelease
<1>4. CASE CheckLatest
  BY <1>4 DEF CheckLatest
<1>5. CASE Poll
  <2>1. Cardinality(entries) \in Nat /\ Needed(target["auto"]) \in Nat
    BY <1>5, FS_Subset, FS_CardinalityType DEF Poll, JobInv, Needed
  <2>2. /\ job' \in {"begin", "done", "sleep"} /\ status' \in {status, "skipped"}
        /\ left' = left \/ (left # 0 /\ left' = left - 1)
        /\ UNCHANGED <<txVars, worldVars>>
    BY <1>5, <2>1 DEF Poll
  <2>. QED
    BY <2>2
<1>6. CASE Wake
  BY <1>6 DEF Wake
<1>7. CASE BeginIngest
  BY <1>7, <1>a DEF BeginIngest, Enter, JobInv
<1>8. CASE Finish
  BY <1>8 DEF Finish
<1>9. CASE Restart
  <2>1. written' \subseteq Release
    <3>1. UNCHANGED written
            \/ \E p \in Ingester : stage[p] = "commit" /\ written' = written \cup {target[p]}
      BY <1>9 DEF Restart, Kept
    <3>2. \A p \in Ingester : stage[p] = "commit" => target[p] \in Release
      BY DEF TxInv
    <3>3. ASSUME NEW p \in Ingester, stage[p] = "commit", written' = written \cup {target[p]}
          PROVE  written' \subseteq Release
      BY <3>2, <3>3
    <3>4. CASE UNCHANGED written
      BY <3>4
    <3>. QED
      BY <3>1, <3>3, <3>4
  <2>2. restarts' \in 0..MaxRestarts /\ left' \in 0..WaitTimeout
    BY <1>9 DEF Restart
  <2>. QED
    BY <1>9, <2>1, <2>2 DEF Restart
<1>10. ASSUME NEW p \in Ingester, Statement(p) PROVE NerTypeOK'
  BY <1>10 DEF Statement, Clear, Atlas, IngestFactsOf, Signals, Insert
<1>11. ASSUME NEW p \in Ingester, Commit(p) PROVE NerTypeOK'
  BY <1>11 DEF Commit, Kept, Leave, TxInv
<1>12. ASSUME NEW p \in Ingester, Fail(p) PROVE NerTypeOK'
  BY <1>12 DEF Fail, Leave
<1>13. ASSUME NEW a \in Admin, NEW r \in Release, Post(a, r) PROVE NerTypeOK'
  BY <1>13, <1>a DEF Post, Enter
<1>14. ASSUME NEW e \in Paper, Import(e) PROVE NerTypeOK'
  BY <1>14 DEF Import
<1>15. CASE UNCHANGED nerVars
  BY <1>15 DEF nerVars
<1>. QED
  BY <1>1, <1>2, <1>3, <1>4, <1>5, <1>6, <1>7, <1>8, <1>9, <1>10, <1>11, <1>12, <1>13, <1>14, <1>15
  DEF NerNext, JobStep

(* Rows, and those deleted and inserted, are rows of releases.              *)
LEMMA RowsStep == NerInv /\ [NerNext]_nerVars => RowsOK'
<1>. SUFFICES ASSUME NerTypeOK, RowsOK, TxInv, [NerNext]_nerVars PROVE RowsOK'
  BY DEF NerInv
<1>. USE DEF RowsOK, txVars, worldVars
<1>a. "auto" \in Ingester /\ Admin \subseteq Ingester
  BY DEF Ingester
<1>k. ASSUME NEW p \in Ingester, Kept(p) PROVE rows' \subseteq Row
  BY <1>k DEF Kept
<1>1. CASE StopJob
  BY <1>1, <1>a, <1>k DEF StopJob, Leave
<1>2. CASE Restart
  BY <1>2, <1>k DEF Restart
<1>3. ASSUME NEW p \in Ingester, Statement(p) PROVE RowsOK'
  <2>1. CASE Clear(p)
    BY <2>1 DEF Clear
  <2>2. ASSUME NEW items, NEW after, Insert(p, items, after), items \subseteq Row PROVE RowsOK'
    BY <2>2 DEF Insert
  <2>3. stage[p] # "out" => target[p] \in Release
    BY DEF TxInv
  <2>4. CASE Atlas(p)
    <3>1. {"release", "atlas"} \X {target[p]} \X {"all"} \subseteq Row
      BY <2>3, <2>4 DEF Row, Atlas
    <3>. QED
      BY <2>2, <2>4, <3>1 DEF Atlas
  <2>5. CASE IngestFactsOf(p)
    <3>1. {"facts"} \X {target[p]} \X (Facts(target[p]) \cap entries) \subseteq Row
      BY <2>3, <2>5 DEF Row, IngestFactsOf, NerTypeOK
    <3>. QED
      BY <2>2, <2>5, <3>1 DEF IngestFactsOf
  <2>6. CASE Signals(p)
    <3>1. {"signals"} \X {target[p]} \X {"all"} \subseteq Row
      BY <2>3, <2>6 DEF Row, Signals
    <3>. QED
      BY <2>2, <2>6, <3>1 DEF Signals
  <2>. QED
    BY <1>3, <2>1, <2>4, <2>5, <2>6 DEF Statement
<1>4. ASSUME NEW p \in Ingester, Commit(p) PROVE RowsOK'
  BY <1>4, <1>k DEF Commit, Leave
<1>5. ASSUME NEW p \in Ingester, Fail(p) PROVE RowsOK'
  BY <1>5 DEF Fail, Leave
<1>6. ASSUME UNCHANGED <<rows, deleted, inserted>> PROVE RowsOK'
  BY <1>6
<1>. QED
  BY <1>1, <1>2, <1>3, <1>4, <1>5, <1>6
  DEF NerNext, JobStep, nerVars, StartJob, ResolveRelease, CheckLatest, Poll, Wake,
      BeginIngest, Enter, Finish, Post, Import

(* The lock is held by the one transaction that is open.                    *)
LEMMA LockStep == NerInv /\ [NerNext]_nerVars => LockFollowsIngest'
<1>. SUFFICES ASSUME NerTypeOK, LockFollowsIngest, [NerNext]_nerVars PROVE LockFollowsIngest'
  BY DEF NerInv
<1>. USE NerAssumption DEF NerAssumption, LockFollowsIngest, NerTypeOK, txVars
<1>a. "auto" \in Ingester /\ Admin \subseteq Ingester /\ "nobody" \notin Ingester
  BY DEF Ingester
<1>1. ASSUME NEW p \in Ingester, NEW r, Enter(p, r) PROVE LockFollowsIngest'
  BY <1>1, <1>a DEF Enter
<1>2. ASSUME NEW p \in Ingester, Leave(p) PROVE LockFollowsIngest'
  BY <1>2, <1>a DEF Leave
<1>3. ASSUME NEW p \in Ingester, stage[p] # "out", UNCHANGED mutex,
             NEW s \in {"atlas", "facts", "signals", "commit"}, stage' = [stage EXCEPT ![p] = s]
      PROVE  LockFollowsIngest'
  BY <1>3
<1>4. ASSUME NEW p \in Ingester, Statement(p) PROVE LockFollowsIngest'
  BY <1>3, <1>4 DEF Statement, Clear, Atlas, IngestFactsOf, Signals, Insert
<1>5. CASE Restart
  BY <1>5, <1>a DEF Restart
<1>6. CASE UNCHANGED <<mutex, stage>>
  BY <1>6
<1>. QED
  BY <1>a, <1>1, <1>2, <1>4, <1>5, <1>6
  DEF NerNext, JobStep, nerVars, StartJob, StopJob, ResolveRelease, CheckLatest, Poll, Wake,
      BeginIngest, Finish, Commit, Fail, Post, Import

(* Only the transaction that has the lock is open.                          *)
LEMMA OneOpen ==
  ASSUME NerTypeOK, LockFollowsIngest, NEW p \in Ingester, stage[p] # "out"
  PROVE  \A q \in Ingester : q # p => stage[q] = "out"
BY DEF NerTypeOK, LockFollowsIngest

(* A transaction whose rows are kept leaves those it has inserted, for it   *)
(* has deleted all others.                                                  *)
LEMMA KeptRows ==
  ASSUME RowsOK, TxInv, NEW p \in Ingester, stage[p] = "commit", Kept(p)
  PROVE  rows' = inserted[p] /\ written' = written \cup {target[p]}
BY DEF Kept, TxInv, RowsOK

(* What an open transaction has deleted and inserted.                       *)
LEMMA TxStep == NerInv /\ [NerNext]_nerVars => TxInv' /\ IdleInv'
<1>. SUFFICES ASSUME NerTypeOK, RowsOK, LockFollowsIngest, TxInv, IdleInv, JobInv,
                     [NerNext]_nerVars
              PROVE  TxInv' /\ IdleInv'
  BY DEF NerInv
<1>. USE NerAssumption DEF NerAssumption, txVars, worldVars
<1>a. "auto" \in Ingester /\ Admin \subseteq Ingester /\ "nobody" \notin Ingester
  BY DEF Ingester
<1>1. ASSUME NEW p \in Ingester, NEW r \in Release, Enter(p, r), UNCHANGED entries
      PROVE  TxInv' /\ IdleInv'
  <2>1. \A q \in Ingester : stage[q] = "out" /\ inserted[q] = {}
    <3>1. mutex = "nobody"
      BY <1>1 DEF Enter
    <3>2. \A q \in Ingester : stage[q] = "out"
      BY <3>1, <1>a DEF LockFollowsIngest
    <3>. QED
      BY <3>2 DEF IdleInv
  <2>2. \A q \in Ingester : stage'[q] # "out" => q = p
    BY <1>1, <2>1 DEF Enter, NerTypeOK
  <2>3. stage'[p] = "clear" /\ target'[p] = r /\ inserted' = inserted
    BY <1>1 DEF Enter, NerTypeOK
  <2>. QED
    BY <2>1, <2>2, <2>3 DEF TxInv, IdleInv, OnlyOf
<1>2. ASSUME NEW p \in Ingester, Leave(p), UNCHANGED <<target, entries>>,
             UNCHANGED rows \/ stage[p] # "out"
      PROVE  TxInv' /\ IdleInv'
  <2>1. \A q \in Ingester : q # p =>
          stage'[q] = stage[q] /\ inserted'[q] = inserted[q] /\ deleted'[q] = deleted[q]
    BY <1>2 DEF Leave, NerTypeOK, RowsOK
  <2>2. stage'[p] = "out" /\ inserted'[p] = {}
    BY <1>2 DEF Leave, NerTypeOK, RowsOK
  <2>3. UNCHANGED rows \/ \A q \in Ingester : q # p => stage[q] = "out"
    BY <1>2, OneOpen
  <2>. QED
    BY <1>2, <2>1, <2>2, <2>3 DEF TxInv, IdleInv, OnlyOf
<1>3. ASSUME NEW p \in Ingester, Statement(p) PROVE TxInv' /\ IdleInv'
  <2>1. stage[p] # "out" /\ UNCHANGED <<rows, target, entries>> /\ target[p] \in Release
    BY <1>3 DEF Statement, Clear, Atlas, IngestFactsOf, Signals, Insert, TxInv
  <2>2. \A q \in Ingester : q # p => stage[q] = "out"
    BY <2>1, OneOpen
  <2>3. CASE Clear(p)
    BY <2>1, <2>2, <2>3 DEF Clear, TxInv, IdleInv, NerTypeOK, RowsOK, OnlyOf
  <2>4. ASSUME NEW items, NEW after \in {"facts", "signals", "commit"},
               Insert(p, items, after), stage[p] \in {"atlas", "facts", "signals"}
        PROVE  /\ stage' = [stage EXCEPT ![p] = after] /\ UNCHANGED deleted
               /\ inserted'[p] = inserted[p] \cup items
               /\ \A q \in Ingester : q # p => inserted'[q] = inserted[q]
               /\ \A q \in Ingester : q # p => stage'[q] = "out"
               /\ stage'[p] = after
    BY <2>2, <2>4 DEF Insert, NerTypeOK, RowsOK
  <2>5. CASE Atlas(p)
    <3>. DEFINE items == {"release", "atlas"} \X {target[p]} \X {"all"}
    <3>1. /\ \A row \in items : row[2] = target[p] /\ row[1] # "facts"
          /\ {<<"release", target[p], "all">>, <<"atlas", target[p], "all">>} \subseteq items
      OBVIOUS
    <3>2. Insert(p, items, "facts") /\ stage[p] = "atlas"
      BY <2>5 DEF Atlas
    <3>. HIDE DEF items
    <3>. QED
      BY <2>1, <2>2, <2>4, <3>1, <3>2 DEF TxInv, IdleInv, OnlyOf
  <2>6. CASE IngestFactsOf(p)
    <3>. DEFINE items == {"facts"} \X {target[p]} \X (Facts(target[p]) \cap entries)
    <3>1. \A row \in items : row[2] = target[p] /\ row[3] \in Facts(target[p]) \cap entries
      OBVIOUS
    <3>2. Insert(p, items, "signals") /\ stage[p] = "facts"
      BY <2>6 DEF IngestFactsOf
    <3>. HIDE DEF items
    <3>. QED
      BY <2>1, <2>2, <2>4, <3>1, <3>2 DEF TxInv, IdleInv, OnlyOf
  <2>7. CASE Signals(p)
    <3>. DEFINE items == {"signals"} \X {target[p]} \X {"all"}
    <3>1. /\ \A row \in items : row[2] = target[p] /\ row[1] # "facts"
          /\ <<"signals", target[p], "all">> \in items
      OBVIOUS
    <3>2. Insert(p, items, "commit") /\ stage[p] = "signals"
      BY <2>7 DEF Signals
    <3>. HIDE DEF items
    <3>. QED
      BY <2>1, <2>2, <2>4, <3>1, <3>2 DEF TxInv, IdleInv, OnlyOf
  <2>. QED
    BY <1>3, <2>3, <2>5, <2>6, <2>7 DEF Statement
<1>4. CASE ResolveRelease
  <2>1. stage["auto"] = "out" /\ UNCHANGED <<rows, stage, deleted, inserted, entries>>
        /\ \A q \in Ingester : q # "auto" => target'[q] = target[q]
    BY <1>4, <1>a DEF ResolveRelease, JobInv, NerTypeOK
  <2>. QED
    BY <2>1 DEF TxInv, IdleInv, OnlyOf
<1>5. CASE Restart
  <2>1. \A q \in Ingester : stage'[q] = "out" /\ inserted'[q] = {}
    BY <1>5 DEF Restart
  <2>. QED
    BY <2>1 DEF TxInv, IdleInv
<1>6. ASSUME NEW e \in Paper, Import(e) PROVE TxInv' /\ IdleInv'
  <2>1. UNCHANGED <<rows, stage, target, deleted, inserted>> /\ entries \subseteq entries'
    BY <1>6 DEF Import
  <2>. QED
    BY <2>1 DEF TxInv, IdleInv, OnlyOf
<1>7. CASE StopJob
  BY <1>7, <1>a, <1>2 DEF StopJob
<1>8. ASSUME NEW p \in Ingester, Commit(p) \/ Fail(p) PROVE TxInv' /\ IdleInv'
  BY <1>8, <1>2 DEF Commit, Fail
<1>9. CASE BeginIngest
  <2>1. UNCHANGED entries /\ target["auto"] \in Release
    BY <1>9 DEF BeginIngest, JobInv
  <2>2. CASE Enter("auto", target["auto"])
    BY <1>a, <1>1, <2>1, <2>2
  <2>3. CASE UNCHANGED <<rows, stage, target, deleted, inserted>>
    BY <2>1, <2>3 DEF TxInv, IdleInv, OnlyOf
  <2>. QED
    BY <1>9, <2>2, <2>3 DEF BeginIngest
<1>10. ASSUME NEW a \in Admin, NEW r \in Release, Post(a, r) PROVE TxInv' /\ IdleInv'
  BY <1>10, <1>a, <1>1 DEF Post
<1>11. CASE UNCHANGED <<rows, stage, target, deleted, inserted, entries>>
  BY <1>11 DEF TxInv, IdleInv, OnlyOf
<1>. QED
  BY <1>3, <1>4, <1>5, <1>6, <1>7, <1>8, <1>9, <1>10, <1>11
  DEF NerNext, JobStep, nerVars, StartJob, CheckLatest, Poll, Wake, Finish

(* The job and its transaction, and what the job says of itself.            *)
LEMMA JobStepInv == NerInv /\ [NerNext]_nerVars => JobInv' /\ StatusTrue'
<1>. SUFFICES ASSUME NerTypeOK, RowsOK, TxInv, JobInv, StatusTrue, [NerNext]_nerVars
              PROVE  JobInv' /\ StatusTrue'
  BY DEF NerInv
<1>. USE NerAssumption DEF NerAssumption, JobInv, StatusTrue, NerTypeOK, txVars, jobVars, worldVars
<1>a. "auto" \in Ingester /\ Admin \subseteq Ingester
  BY DEF Ingester
<1>1. CASE StartJob
  BY <1>1 DEF StartJob
<1>2. CASE StopJob
  <2>1. stage'["auto"] = "out"
    BY <1>2, <1>a DEF StopJob, Leave
  <2>. QED
    BY <1>2, <2>1 DEF StopJob
<1>3. CASE ResolveRelease
  <2>1. disk # {} => Best \in Release
    BY BestIsOnDisk
  <2>. QED
    BY <1>3, <1>a, <2>1 DEF ResolveRelease
<1>4. CASE CheckLatest
  BY <1>4 DEF CheckLatest
<1>5. CASE Poll
  <2>1. Cardinality(entries) \in Nat /\ Needed(target["auto"]) \in Nat
    BY <1>5, FS_Subset, FS_CardinalityType DEF Poll, Needed
  <2>2. /\ job' \in {"begin", "done", "sleep"} /\ status' \in {status, "skipped"}
        /\ status # "complete"
        /\ job = "wait" /\ UNCHANGED <<txVars, worldVars>>
    BY <1>5, <2>1 DEF Poll
  <2>. QED
    BY <2>2
<1>6. CASE Wake
  BY <1>6 DEF Wake
<1>7. CASE BeginIngest
  BY <1>7, <1>a DEF BeginIngest, Enter
<1>8. CASE Finish
  BY <1>8 DEF Finish
<1>9. CASE Restart
  BY <1>9, <1>a DEF Restart
<1>10. ASSUME NEW p \in Ingester, Statement(p) PROVE JobInv' /\ StatusTrue'
  <2>1. stage'["auto"] = "out" <=> stage["auto"] = "out"
    BY <1>10, <1>a DEF Statement, Clear, Atlas, IngestFactsOf, Signals, Insert
  <2>2. UNCHANGED <<job, status, target, written>>
    BY <1>10 DEF Statement, Clear, Atlas, IngestFactsOf, Signals, Insert
  <2>. QED
    BY <2>1, <2>2
<1>11. ASSUME NEW p \in Ingester, Commit(p) PROVE JobInv' /\ StatusTrue'
  <2>1. /\ stage[p] = "commit" /\ target[p] \in Release
        /\ written' = written \cup {target[p]} /\ UNCHANGED <<target, status>>
        /\ job' = IF p = "auto" THEN "finish" ELSE job
        /\ stage' = [stage EXCEPT ![p] = "out"]
    BY <1>11 DEF Commit, Kept, Leave, TxInv
  <2>. QED
    BY <1>a, <2>1
<1>12. ASSUME NEW p \in Ingester, Fail(p) PROVE JobInv' /\ StatusTrue'
  BY <1>12, <1>a DEF Fail, Leave
<1>13. ASSUME NEW a \in Admin, NEW r \in Release, Post(a, r) PROVE JobInv' /\ StatusTrue'
  BY <1>13, <1>a DEF Post, Enter
<1>14. ASSUME NEW e \in Paper, Import(e) PROVE JobInv' /\ StatusTrue'
  BY <1>14 DEF Import
<1>15. CASE UNCHANGED nerVars
  BY <1>15 DEF nerVars
<1>. QED
  BY <1>1, <1>2, <1>3, <1>4, <1>5, <1>6, <1>7, <1>8, <1>9, <1>10, <1>11, <1>12, <1>13, <1>14, <1>15
  DEF NerNext, JobStep

(* What is committed is one whole release.                                  *)
LEMMA ReleaseStep == NerInv /\ [NerNext]_nerVars => OneRelease'
<1>. SUFFICES ASSUME NerTypeOK, RowsOK, TxInv, OneRelease, [NerNext]_nerVars PROVE OneRelease'
  BY DEF NerInv
<1>. USE DEF txVars, jobVars, worldVars
<1>a. "auto" \in Ingester
  BY DEF Ingester
<1>1. ASSUME NEW p \in Ingester, stage[p] = "commit", Kept(p), UNCHANGED entries
      PROVE  OneRelease'
  <2>1. rows' = inserted[p] /\ target[p] \in Release /\ OnlyOf(inserted[p], target[p])
    BY <1>1, KeptRows DEF TxInv
  <2>2. {<<"release", target[p], "all">>, <<"atlas", target[p], "all">>,
         <<"signals", target[p], "all">>} \subseteq rows'
    BY <1>1, <2>1 DEF TxInv
  <2>3. {row[2] : row \in rows'} = {target[p]}
    BY <2>1, <2>2 DEF OnlyOf
  <2>4. {"release", "atlas", "signals"} \subseteq {row[1] : row \in rows'}
    <3>1. \A t \in {"release", "atlas", "signals"} : \E row \in rows' : row[1] = t
      BY <2>2
    <3>. QED
      BY <3>1
  <2>5. {row[3] : row \in {x \in rows' : x[1] = "facts"}} \subseteq Facts(target[p]) \cap entries'
    BY <1>1, <2>1 DEF OnlyOf
  <2>. QED
    BY <2>1, <2>3, <2>4, <2>5 DEF OneRelease
<1>2. ASSUME UNCHANGED rows, entries \subseteq entries' PROVE OneRelease'
  BY <1>2 DEF OneRelease
<1>3. CASE StopJob
  BY <1>1, <1>2, <1>3, <1>a DEF StopJob
<1>4. CASE Restart
  BY <1>1, <1>2, <1>4 DEF Restart
<1>5. ASSUME NEW p \in Ingester, Commit(p) PROVE OneRelease'
  BY <1>1, <1>5 DEF Commit
<1>6. ASSUME NEW e \in Paper, Import(e) PROVE OneRelease'
  BY <1>2, <1>6 DEF Import
<1>. QED
  BY <1>2, <1>3, <1>4, <1>5, <1>6
  DEF NerNext, JobStep, nerVars, StartJob, ResolveRelease, CheckLatest, Poll, Wake, BeginIngest,
      Enter, Finish, Post, Statement, Clear, Atlas, IngestFactsOf, Signals, Insert, Fail

(* Every step of the ingest keeps its invariant.                            *)
LEMMA NerStep == NerInv /\ [NerNext]_nerVars => NerInv'
BY NerTypeStep, RowsStep, LockStep, TxStep, JobStepInv, ReleaseStep DEF NerInv


(***************************************************************************)
(* The process.                                                            *)
(***************************************************************************)
(* The process has three jobs.                                              *)
LEMMA ThreeJobs == Len(Jobs) = 3 /\ DOMAIN Jobs = 1..3
BY DEF Jobs

(* The invariant holds of a process that has never run.                     *)
LEMMA RuntimeInitInv == RuntimeInit => IInv
<1>. SUFFICES ASSUME RuntimeInit PROVE IInv
  OBVIOUS
<1>. USE CheckoutAssumption, RuntimeAssumption
     DEF CheckoutAssumption, RuntimeAssumption, RuntimeInit
<1>1. NerInv
  BY NerInitInv
<1>2. CheckoutTypeOK
  <2>1. ASSUME NEW k \in Starts PROVE Place(k) \in Dir
    BY <2>1 DEF Place, Dir
  <2>. QED
    BY <2>1 DEF CheckoutInit, CheckoutTypeOK
<1>3. RuntimeTypeOK
  <2>1. NerTypeOK
    BY <1>1 DEF NerInv
  <2>2. 1 \in DOMAIN Jobs
    BY ThreeJobs
  <2>. QED
    BY <1>2, <2>1, <2>2 DEF RuntimeTypeOK
<1>4. ThreadInv /\ WorkerInv /\ MetInv /\ PathInv /\ DirInv /\ AskedInv /\ CheckoutCurrent
  BY <1>2 DEF CheckoutInit, CheckoutTypeOK, Call, ThreadInv, WorkerInv, MetInv, PathInv, DirInv, AskedInv,
              CheckoutCurrent
<1>5. PhaseInv /\ RunsInv
  BY DEF CheckoutInit, NerInit, Ingester, PhaseInv, JobAtRest, BackfillAtRest, RunsInv, Ingests,
         Call, Workers
<1>. QED
  BY <1>1, <1>3, <1>4, <1>5 DEF IInv, ProcessInv

(* The steps of the process are steps of the NER ingest or leave it alone.  *)
LEMMA NerMove == RuntimeTypeOK /\ [RuntimeNext]_runtimeVars => [NerNext]_nerVars
<1>. SUFFICES ASSUME RuntimeTypeOK, [RuntimeNext]_runtimeVars PROVE [NerNext]_nerVars
  OBVIOUS
<1>. USE DEF NerNext
<1>1. CASE StartNext
  BY <1>1 DEF StartNext
<1>2. CASE StopNext
  BY <1>2 DEF StopNext, StopBackfill, StopNer
<1>3. CASE Kill
  BY <1>3 DEF Kill
<1>4. CASE IngestOne
  <2>1. PICK i \in Ingests :
          \E e \in (IF i \in Directories THEN Paper ELSE PapersOf(dir.tree)) : Import(e)
    BY <1>4 DEF IngestOne
  <2>2. PapersOf(dir.tree) \subseteq Paper
    BY RuntimeAssumption DEF RuntimeAssumption, RuntimeTypeOK, CheckoutTypeOK, Dir
  <2>. QED
    BY <2>1, <2>2
<1>5. CASE NerMoves
  BY <1>5 DEF NerMoves
<1>6. CASE UNCHANGED nerVars
  BY <1>6
<1>. QED
  BY <1>1, <1>2, <1>3, <1>4, <1>5, <1>6
  DEF RuntimeNext, runtimeVars, Boot, Shutdown, Close, Exit, Request, Trigger, TriggerDirectory,
      ImportBibtex, CommandLine, KillCommandLine, BibliographyMoves, CheckedOut, RunBegins,
      IngestEnds, CheckoutMoves, CheckoutAlone

(***************************************************************************)
(* The checkout.                                                           *)
(***************************************************************************)
(* A command of a thread brings it on and leaves the calls alone.           *)
LEMMA GitMoves ==
  ASSUME CheckoutTypeOK, NEW c \in Call, Git(c)
  PROVE  /\ thread[c] \in {"look", "clone", "cloning", "head", "fetch", "checkout", "updating"}
         /\ \E after \in {"clone", "cloning", "head", "fetch", "checkout", "updating", "ok", "error"} :
              thread' = [thread EXCEPT ![c] = after]
         /\ UNCHANGED <<upstream, refresh, lock, call, since, met>>
<1>. DEFINE After == {"clone", "cloning", "head", "fetch", "checkout", "updating", "ok", "error"}
<1>1. \A after : To(c, after) =>
        thread' = [thread EXCEPT ![c] = after] /\ UNCHANGED <<upstream, refresh, lock, call, since, met>>
  BY DEF To
<1>2. thread[c] \in {"look", "clone", "cloning", "head", "fetch", "checkout", "updating"}
  BY DEF Git, Look, Clone, CloneFails, DefaultBranch, Fetch, CheckOut, UpdateEnds, GitFails
<1>3. \E after \in After : To(c, after)
  <2>. HIDE DEF To
  <2>1. CASE Look(c)
    BY <2>1 DEF Look, CheckoutTypeOK, Dir, Kinds, Others
  <2>2. CASE Clone(c) \/ CloneFails(c) \/ GitFails(c)
    BY <2>2 DEF Clone, CloneFails, GitFails
  <2>3. CASE DefaultBranch(c) \/ Fetch(c)
    BY <2>3 DEF DefaultBranch, Fetch
  <2>4. CASE CheckOut(c) \/ UpdateEnds(c)
    BY <2>4 DEF CheckOut, UpdateEnds
  <2>. HIDE DEF After
  <2>. QED
    BY <2>1, <2>2, <2>3, <2>4 DEF Git
<1>. HIDE DEF To
<1>. QED
  BY <1>1, <1>2, <1>3

(* What the commands make of the directory.                                 *)
LEMMA DirValues ==
  ASSUME CheckoutTypeOK
  PROVE  /\ HalfClone \in Dir /\ Place("absent") \in Dir /\ Place("empty") \in Dir
         /\ [dir EXCEPT !.tracked = upstream] \in Dir
         /\ [dir EXCEPT !.index = dir.tracked,
                        !.tree = IF dir.tree = dir.tracked THEN dir.tree ELSE Torn] \in Dir
         /\ [dir EXCEPT !.index = 0, !.tree = dir.index] \in Dir
<1>. USE CheckoutAssumption DEF CheckoutAssumption, Dir, CheckoutTypeOK
<1>1. HalfClone \in Dir /\ Place("absent") \in Dir /\ Place("empty") \in Dir
  BY DEF HalfClone, Place, Kinds
<1>2. upstream \in 0..Newest /\ 0 \in 0..Newest
  OBVIOUS
<1>3. [dir EXCEPT !.tracked = upstream] \in Dir
  BY <1>2
<1>4. [dir EXCEPT !.index = dir.tracked,
                  !.tree = IF dir.tree = dir.tracked THEN dir.tree ELSE Torn] \in Dir
  OBVIOUS
<1>5. [dir EXCEPT !.index = 0, !.tree = dir.index] \in Dir
  BY <1>2
<1>. QED
  BY <1>1, <1>3, <1>4, <1>5

(* The commands leave a directory of the type, and the kills in their bound. *)
LEMMA GitType ==
  ASSUME CheckoutTypeOK, NEW c \in Call, Git(c)
  PROVE  dir' \in Dir /\ kills' \in 0..MaxKills
<1>1. \/ UNCHANGED dir
      \/ dir' \in {HalfClone, Place("absent"), Place("empty"),
                  [dir EXCEPT !.tracked = upstream],
                  [dir EXCEPT !.index = dir.tracked,
                              !.tree = IF dir.tree = dir.tracked THEN dir.tree ELSE Torn],
                  [dir EXCEPT !.index = 0, !.tree = dir.index]}
  BY DEF Git, Look, Clone, CloneFails, DefaultBranch, Fetch, CheckOut, UpdateEnds, GitFails
<1>2. dir' \in Dir
  BY <1>1, DirValues DEF CheckoutTypeOK
<1>3. kills' = kills \/ (kills < MaxKills /\ kills' = kills + 1)
  BY DEF Git, Look, Clone, CloneFails, DefaultBranch, Fetch, CheckOut, UpdateEnds, GitFails
<1>. QED
  BY <1>2, <1>3, CheckoutAssumption DEF CheckoutTypeOK, CheckoutAssumption

(* The ways in which a step of the process touches the checkout.            *)
LEMMA CheckoutSteps ==
  ASSUME [RuntimeNext]_runtimeVars
  PROVE  \/ Push
         \/ \E c \in Call : TakeLock(c) \/ Git(c) \/ Ask(c) \/ Answer(c)
         \/ StopNext /\ CancelCall("boot")
         \/ \E C \in {Server} \cup {{c} : c \in Cli} : KillCalls(C)
         \/ UNCHANGED checkoutVars
<1>. USE RuntimeAssumption DEF RuntimeAssumption, Call
<1>1. CASE StartNext
  BY <1>1 DEF StartNext
<1>2. CASE StopNext
  BY <1>2 DEF StopNext, StopBackfill, StopNer, StopBibliography
<1>3. CASE Kill
  BY <1>3 DEF Kill
<1>4. CASE Request
  BY <1>4 DEF Request, Trigger, TriggerDirectory, ImportBibtex, CommandLine, KillCommandLine
<1>5. CASE BibliographyMoves
  BY <1>5 DEF BibliographyMoves, CheckedOut, RunBegins, IngestOne, IngestEnds
<1>6. CASE NerMoves \/ CheckoutMoves
  BY <1>6 DEF NerMoves, NerAlone, CheckoutMoves, CheckoutAlone
<1>7. CASE UNCHANGED checkoutVars
  BY <1>7
<1>. QED
  BY <1>1, <1>2, <1>3, <1>4, <1>5, <1>6, <1>7
  DEF RuntimeNext, runtimeVars, Boot, Shutdown, Close, Exit

(* Type correctness of the checkout.                                        *)
LEMMA CheckoutTypeStep == CheckoutTypeOK /\ [RuntimeNext]_runtimeVars => CheckoutTypeOK'
<1>. SUFFICES ASSUME CheckoutTypeOK, [RuntimeNext]_runtimeVars PROVE CheckoutTypeOK'
  OBVIOUS
<1>. USE CheckoutAssumption, RuntimeAssumption
     DEF CheckoutAssumption, RuntimeAssumption, CheckoutTypeOK, Call
<1>1. CASE Push
  BY <1>1 DEF Push, askedVars
<1>2. ASSUME NEW c \in Call, Ask(c) PROVE CheckoutTypeOK'
  BY <1>2 DEF Ask
<1>3. ASSUME NEW c \in Call, TakeLock(c) PROVE CheckoutTypeOK'
  <2>1. /\ call' = [call EXCEPT ![c] = "working"] /\ thread' = [thread EXCEPT ![c] = "look"]
        /\ since' = [since EXCEPT ![c] = upstream] /\ upstream \in 0..Newest
        /\ lock' \in {c, lock} /\ (c \notin Server => lock' = lock)
        /\ UNCHANGED <<upstream, refresh, dir, kills>>
    BY <1>3 DEF TakeLock, Begin
  <2>2. met' \in [Call -> BOOLEAN]
    <3>1. \A d \in Call : (met[d] \/ (d \in Strangers(c) /\ thread[d] # "out")) \in BOOLEAN
      OBVIOUS
    <3>. QED
      BY <1>3, <3>1, Zenon DEF TakeLock, Begin
  <2>. QED
    BY <2>1, <2>2
<1>4. ASSUME NEW C, Forget(C)
      PROVE  thread' \in [Call -> {"out", "look", "clone", "cloning", "head", "fetch", "checkout",
                                   "updating", "ok", "error"}]
             /\ since' \in [Call -> 0..Newest] /\ met' \in [Call -> BOOLEAN]
  <2>1. 0 \in 0..Newest
    OBVIOUS
  <2>. QED
    BY <1>4, <2>1 DEF Forget
<1>5. ASSUME NEW c \in Call, Answer(c) PROVE CheckoutTypeOK'
  BY <1>4, <1>5 DEF Answer
<1>6. CASE CancelCall("boot")
  BY <1>6 DEF CancelCall
<1>7. ASSUME NEW C, KillCalls(C) PROVE CheckoutTypeOK'
  BY <1>4, <1>7 DEF KillCalls
<1>8. ASSUME NEW c \in Call, Git(c) PROVE CheckoutTypeOK'
  BY <1>8, GitMoves, GitType
<1>9. CASE UNCHANGED checkoutVars
  BY <1>9 DEF checkoutVars
<1>. QED
  BY <1>1, <1>2, <1>3, <1>5, <1>6, <1>7, <1>8, <1>9, CheckoutSteps

(* The lock belongs to a call of the server that works.                     *)
LEMMA WorkerStep == CheckoutTypeOK /\ WorkerInv /\ [RuntimeNext]_runtimeVars => WorkerInv'
<1>. SUFFICES ASSUME CheckoutTypeOK, WorkerInv, [RuntimeNext]_runtimeVars PROVE WorkerInv'
  OBVIOUS
<1>. USE CheckoutAssumption, RuntimeAssumption
     DEF CheckoutAssumption, RuntimeAssumption, WorkerInv, CheckoutTypeOK, Call
<1>1. ASSUME NEW c \in Call, Ask(c) PROVE WorkerInv'
  BY <1>1 DEF Ask
<1>2. ASSUME NEW c \in Call, TakeLock(c) PROVE WorkerInv'
  BY <1>2 DEF TakeLock, Begin
<1>3. ASSUME NEW c \in Call, Answer(c) PROVE WorkerInv'
  BY <1>3 DEF Answer
<1>4. CASE CancelCall("boot")
  BY <1>4 DEF CancelCall
<1>5. ASSUME NEW C, KillCalls(C) PROVE WorkerInv'
  BY <1>5 DEF KillCalls
<1>6. ASSUME NEW c \in Call, Git(c) PROVE WorkerInv'
  BY <1>6, GitMoves
<1>7. CASE Push \/ UNCHANGED checkoutVars
  BY <1>7 DEF Push, askedVars, checkoutVars
<1>. QED
  BY <1>1, <1>2, <1>3, <1>4, <1>5, <1>6, <1>7, CheckoutSteps

(* The phases in which a call may be asked for or waited for.               *)
LEMMA AskedStep ==
  CheckoutTypeOK /\ AskedInv /\ [RuntimeNext]_runtimeVars => AskedInv'
<1>. SUFFICES ASSUME CheckoutTypeOK, AskedInv, [RuntimeNext]_runtimeVars PROVE AskedInv'
  OBVIOUS
<1>. USE CheckoutAssumption, RuntimeAssumption
     DEF CheckoutAssumption, RuntimeAssumption, AskedInv, CheckoutTypeOK, Call
<1>1. CASE StartNext
  BY <1>1, ThreeJobs DEF StartNext, Ask, checkoutVars
<1>2. CASE StopNext
  BY <1>2 DEF StopNext, StopBackfill, StopNer, StopBibliography, StopGoesOn, CancelCall, checkoutVars
<1>3. CASE Kill
  BY <1>3 DEF Kill, KillCalls
<1>4. CASE Shutdown
  BY <1>4 DEF Shutdown, checkoutVars
<1>5. CASE Request
  <2>1. ASSUME NEW c \in Triggers \cup Imports \cup Cli, Ask(c), UNCHANGED <<phase, next>>,
               phase = "up" \/ c \in Cli
        PROVE  AskedInv'
    BY <2>1 DEF Ask
  <2>2. ASSUME NEW c \in Cli, KillCommandLine(c) PROVE AskedInv'
    BY <2>2 DEF KillCommandLine, KillCalls
  <2>3. ASSUME NEW d \in Directories, TriggerDirectory(d) PROVE AskedInv'
    BY <2>3 DEF TriggerDirectory, checkoutVars
  <2>. QED
    BY <1>5, <2>1, <2>2, <2>3 DEF Request, Trigger, ImportBibtex, CommandLine
<1>6. ASSUME UNCHANGED <<phase, next>>, \A c \in Call : call'[c] # "out" => call[c] # "out"
      PROVE  AskedInv'
  BY <1>6
<1>7. CASE BibliographyMoves
  <2>1. ASSUME NEW c \in Call, CheckedOut(c) PROVE AskedInv'
    BY <1>6, <2>1 DEF CheckedOut, Answer
  <2>. QED
    BY <1>6, <1>7, <2>1
    DEF BibliographyMoves, RunBegins, IngestOne, IngestEnds, checkoutVars, processVars
<1>8. CASE CheckoutMoves
  <2>1. ASSUME NEW c \in Call, TakeLock(c) PROVE \A d \in Call : call'[d] # "out" => call[d] # "out"
    BY <2>1 DEF TakeLock, Begin
  <2>2. ASSUME NEW c \in Call, Git(c) PROVE UNCHANGED call
    BY <2>2, GitMoves
  <2>. QED
    BY <1>6, <1>8, <2>1, <2>2 DEF CheckoutMoves, CheckoutAlone, processVars, Push, askedVars
<1>9. CASE NerMoves
  BY <1>6, <1>9 DEF NerMoves, NerAlone, checkoutVars, processVars
<1>10. CASE Boot \/ Close \/ Exit \/ UNCHANGED runtimeVars
  BY <1>10 DEF Boot, Close, Exit, runtimeVars, checkoutVars, processVars
<1>. QED
  BY <1>1, <1>2, <1>3, <1>4, <1>5, <1>7, <1>8, <1>9, <1>10 DEF RuntimeNext

(* Two threads at work are of two processes: a call of the server begins    *)
(* its thread only when the one before is over, or was left by a stop.      *)
LEMMA ThreadStep == IInv /\ [RuntimeNext]_runtimeVars => ThreadInv' /\ MetInv'
<1>. SUFFICES ASSUME CheckoutTypeOK, ThreadInv, WorkerInv, MetInv, AskedInv,
                     [RuntimeNext]_runtimeVars
              PROVE  ThreadInv' /\ MetInv'
  BY DEF IInv, ProcessInv, RuntimeTypeOK
<1>. USE CheckoutAssumption, RuntimeAssumption
     DEF CheckoutAssumption, RuntimeAssumption, Call, CheckoutTypeOK
<1>1. phase \in {"closing", "closed"} =>
        phase' \in {"closing", "closed"} \/ \A c \in Server : thread'[c] = "out"
  BY DEF RuntimeNext, runtimeVars, checkoutVars, processVars, Boot, StartNext, Shutdown, StopNext,
         Close, Exit, Kill, KillCalls, Forget, Request, Trigger, TriggerDirectory, ImportBibtex,
         CommandLine, KillCommandLine, BibliographyMoves, CheckedOut, RunBegins, IngestOne,
         IngestEnds, NerMoves, NerAlone, CheckoutMoves, CheckoutAlone
<1>2. ASSUME \A c \in Call : thread'[c] # "out" =>
               /\ thread[c] # "out" /\ (met[c] => met'[c])
               /\ call[c] = "working" => call'[c] = "working"
      PROVE  ThreadInv' /\ MetInv'
  BY <1>1, <1>2 DEF ThreadInv, MetInv
<1>3. ASSUME NEW c \in Call, Ask(c) PROVE ThreadInv' /\ MetInv'
  BY <1>2, <1>3 DEF Ask
<1>4. ASSUME NEW c \in Call, TakeLock(c) PROVE ThreadInv' /\ MetInv'
  <2>1. \A d \in Call \ {c} : thread[d] # "out" => d \in Strangers(c)
    <3>1. CASE c \in Server
      <4>1. \A d \in Server : call[d] # "working"
        BY <1>4, <3>1 DEF TakeLock, WorkerInv
      <4>2. phase \notin {"closing", "closed"}
        BY <1>4, <3>1 DEF TakeLock, AskedInv
      <4>. QED
        BY <3>1, <4>1, <4>2 DEF ThreadInv, Strangers
    <3>2. CASE c \in Cli
      BY <3>2 DEF Strangers
    <3>. QED
      BY <3>1, <3>2
  <2>2. /\ thread' = [thread EXCEPT ![c] = "look"] /\ call' = [call EXCEPT ![c] = "working"]
        /\ \A d \in Call \ {c} : met[d] \/ thread[d] # "out" => met'[d]
        /\ (\E d \in Call \ {c} : thread[d] # "out") => met'[c]
    <3>1. c \notin Strangers(c)
      BY DEF Strangers
    <3>. QED
      BY <1>4, <2>1, <3>1 DEF TakeLock, Begin
  <2>3. ThreadInv'
    BY <1>1, <2>2 DEF ThreadInv
  <2>. QED
    BY <2>2, <2>3 DEF MetInv
<1>5. ASSUME NEW C, Forget(C), \A c \in Call : c \notin C => call'[c] = call[c]
      PROVE  ThreadInv' /\ MetInv'
  BY <1>2, <1>5 DEF Forget
<1>6. ASSUME NEW c \in Call, Answer(c) PROVE ThreadInv' /\ MetInv'
  BY <1>5, <1>6 DEF Answer
<1>7. ASSUME NEW C, KillCalls(C) PROVE ThreadInv' /\ MetInv'
  BY <1>5, <1>7 DEF KillCalls
<1>8. CASE StopNext /\ CancelCall("boot")
  <2>1. phase' = "closing" \/ UNCHANGED call
    BY <1>8 DEF StopNext, StopGoesOn, StopBackfill, StopNer, checkoutVars
  <2>2. UNCHANGED <<thread, met>> /\ \A c \in Call \ {"boot"} : call'[c] = call[c]
    BY <1>8 DEF CancelCall
  <2>. QED
    BY <1>1, <2>1, <2>2 DEF ThreadInv, MetInv
<1>9. ASSUME NEW c \in Call, Git(c) PROVE ThreadInv' /\ MetInv'
  <2>1. thread[c] # "out" /\ UNCHANGED <<call, met>> /\ \A d \in Call \ {c} : thread'[d] = thread[d]
    BY <1>9, GitMoves
  <2>. QED
    BY <1>2, <2>1
<1>10. CASE Push \/ UNCHANGED checkoutVars
  BY <1>2, <1>10 DEF Push, askedVars, checkoutVars
<1>. QED
  BY <1>3, <1>4, <1>6, <1>7, <1>8, <1>9, <1>10, CheckoutSteps

(* What a thread knows of the directory stays true: none but threads of     *)
(* other processes works on it at the same time.                            *)
LEMMA DirStep == IInv /\ [RuntimeNext]_runtimeVars => PathInv' /\ DirInv' /\ CheckoutCurrent'
<1>. SUFFICES ASSUME CheckoutTypeOK, MetInv, PathInv, DirInv, CheckoutCurrent,
                     [RuntimeNext]_runtimeVars
              PROVE  PathInv' /\ DirInv' /\ CheckoutCurrent'
  BY DEF IInv, ProcessInv, RuntimeTypeOK
<1>1. ASSUME UNCHANGED <<dir, refresh>>, upstream' \in Nat, upstream' >= upstream,
             \A c \in Call :
               \/ thread'[c] \in {"out", "look"} /\ since'[c] \in Nat /\ since'[c] <= upstream'
               \/ thread'[c] = thread[c] /\ since'[c] = since[c] /\ (met[c] => met'[c])
      PROVE  PathInv' /\ DirInv' /\ CheckoutCurrent'
  <2>1. PathInv'
    BY <1>1 DEF PathInv
  <2>2. DirInv'
    BY <1>1 DEF DirInv, CheckoutTypeOK
  <2>3. CheckoutCurrent'
    BY <1>1 DEF CheckoutCurrent
  <2>. QED
    BY <2>1, <2>2, <2>3
<1>2. CASE Push
  BY <1>1, <1>2, CheckoutAssumption DEF Push, askedVars, CheckoutTypeOK, CheckoutAssumption
<1>3. upstream \in Nat /\ 0 <= upstream
  BY CheckoutAssumption DEF CheckoutTypeOK, CheckoutAssumption
<1>4. ASSUME NEW c \in Call, TakeLock(c) PROVE PathInv' /\ DirInv' /\ CheckoutCurrent'
  <2>1. /\ UNCHANGED <<dir, refresh, upstream>>
        /\ thread'[c] = "look" /\ since'[c] = upstream
        /\ \A d \in Call \ {c} :
             thread'[d] = thread[d] /\ since'[d] = since[d] /\ (met[d] => met'[d])
    BY <1>4 DEF TakeLock, Begin, CheckoutTypeOK
  <2>. QED
    BY <1>1, <1>3, <2>1
<1>5. ASSUME NEW C, Forget(C), UNCHANGED <<dir, refresh, upstream>>
      PROVE  PathInv' /\ DirInv' /\ CheckoutCurrent'
  <2>1. \A c \in Call :
          \/ thread'[c] = "out" /\ since'[c] = 0
          \/ thread'[c] = thread[c] /\ since'[c] = since[c] /\ (met[c] => met'[c])
    BY <1>5 DEF Forget
  <2>. QED
    BY <1>1, <1>3, <1>5, <2>1
<1>6. ASSUME NEW c \in Call, Ask(c) \/ CancelCall(c) PROVE PathInv' /\ DirInv' /\ CheckoutCurrent'
  BY <1>1, <1>3, <1>6 DEF Ask, CancelCall
<1>7. ASSUME NEW c \in Call, Answer(c) PROVE PathInv' /\ DirInv' /\ CheckoutCurrent'
  BY <1>5, <1>7 DEF Answer
<1>8. ASSUME NEW C, KillCalls(C) PROVE PathInv' /\ DirInv' /\ CheckoutCurrent'
  BY <1>5, <1>8 DEF KillCalls
<1>9. CASE UNCHANGED checkoutVars
  BY <1>1, <1>3, <1>9 DEF checkoutVars
<1>10. ASSUME NEW c \in Call, Git(c) PROVE PathInv' /\ DirInv' /\ CheckoutCurrent'
  <2>. USE DEF CheckoutTypeOK
  <2>1. /\ UNCHANGED <<upstream, refresh, since, met>>
        /\ \A d \in Call \ {c} : thread'[d] = thread[d]
        /\ thread[c] # "out"
    BY <1>10, GitMoves
  <2>2. \A d \in Call \ {c} : thread[d] = "out" \/ met[d]
    BY <2>1 DEF MetInv
  <2>3. dir.kind \in {"absent", "empty", "repo"} => dir'.kind \in {"absent", "empty", "repo"}
    <3>1. CASE Clone(c) \/ CloneFails(c)
      BY <3>1 DEF Clone, CloneFails, HalfClone, Place
    <3>2. CASE Fetch(c) \/ CheckOut(c) \/ UpdateEnds(c)
      BY <3>2 DEF Fetch, CheckOut, UpdateEnds, Dir
    <3>3. CASE UNCHANGED dir
      BY <3>3
    <3>. QED
      BY <1>10, <3>1, <3>2, <3>3 DEF Git, Look, DefaultBranch, GitFails
  <2>. DEFINE Path == /\ thread'[c] \in {"clone", "cloning", "head", "fetch", "checkout", "updating"} =>
                           dir'.kind \in {"absent", "empty", "repo"}
                      /\ ~refresh => thread'[c] \notin {"head", "fetch"}
              Knows == ~met[c] =>
                         /\ thread'[c] \in {"cloning", "head", "fetch", "checkout", "updating"} =>
                              dir'.kind = "repo"
                         /\ thread'[c] = "checkout" => dir'.tracked >= since[c]
                         /\ thread'[c] = "updating" => dir'.index >= since[c]
                         /\ thread'[c] = "ok" =>
                              /\ dir'.kind = "repo"
                              /\ refresh => dir'.tree # Torn /\ dir'.tree >= since[c]
  <2>4. ASSUME Path, Knows PROVE PathInv' /\ DirInv' /\ CheckoutCurrent'
    <3>1. PathInv'
      BY <2>1, <2>3, <2>4 DEF PathInv
    <3>2. DirInv'
      BY <2>1, <2>2, <2>4 DEF DirInv
    <3>3. CheckoutCurrent'
      BY <2>1, <2>2, <2>4 DEF CheckoutCurrent
    <3>. QED
      BY <3>1, <3>2, <3>3
  <2>5. CASE Look(c)
    <3>1. \E to \in {"clone", "head", "fetch", "ok", "error"} :
            /\ thread'[c] = to /\ UNCHANGED dir
            /\ to = "clone" => dir.kind \in {"absent", "empty"}
            /\ to \in {"head", "fetch"} => dir.kind = "repo" /\ refresh
            /\ to = "ok" => dir.kind = "repo" /\ ~refresh
      BY <2>5 DEF Look, To
    <3>2. Path /\ Knows
      BY <3>1
    <3>. QED
      BY <2>4, <3>2
  <2>6. CASE Clone(c)
    <3>1. Path /\ Knows
      BY <2>6 DEF Clone, To, HalfClone
    <3>. QED
      BY <2>4, <3>1
  <2>7. CASE CloneFails(c) \/ GitFails(c)
    <3>1. Path /\ Knows
      BY <2>7 DEF CloneFails, GitFails, To
    <3>. QED
      BY <2>4, <3>1
  <2>8. CASE DefaultBranch(c)
    <3>1. Path /\ Knows
      BY <2>8 DEF DefaultBranch, To, PathInv, DirInv
    <3>. QED
      BY <2>4, <3>1
  <2>9. CASE Fetch(c)
    <3>1. Path /\ Knows
      BY <2>9, <1>3 DEF Fetch, To, PathInv, DirInv, Dir
    <3>. QED
      BY <2>4, <3>1
  <2>10. CASE CheckOut(c)
    <3>1. Path /\ Knows
      BY <2>10 DEF CheckOut, To, PathInv, DirInv, Dir
    <3>. QED
      BY <2>4, <3>1
  <2>11. CASE UpdateEnds(c)
    <3>1. dir.index # Torn /\ (~met[c] => dir.kind = "repo" /\ dir.index >= since[c])
      BY <2>11, CheckoutAssumption DEF UpdateEnds, DirInv, Dir, CheckoutAssumption
    <3>2. \/ thread'[c] = "error" /\ UNCHANGED dir
          \/ thread'[c] = "ok" /\ dir'.kind = dir.kind /\ dir'.tree = dir.index
      BY <2>11 DEF UpdateEnds, To, Dir
    <3>3. Path /\ Knows
      BY <3>1, <3>2
    <3>. QED
      BY <2>4, <3>3
  <2>. QED
    BY <1>10, <2>5, <2>6, <2>7, <2>8, <2>9, <2>10, <2>11 DEF Git
<1>11. CASE CancelCall("boot")
  BY <1>6, <1>11, RuntimeAssumption DEF RuntimeAssumption, Call
<1>. QED
  BY <1>2, <1>4, <1>6, <1>7, <1>8, <1>9, <1>10, <1>11, CheckoutSteps

(***************************************************************************)
(* The runs and the jobs.                                                  *)
(***************************************************************************)
(* Type correctness of the process.                                         *)
LEMMA ProcessTypeStep ==
  RuntimeTypeOK /\ NerTypeOK' /\ [RuntimeNext]_runtimeVars => RuntimeTypeOK'
<1>. SUFFICES ASSUME RuntimeTypeOK, NerTypeOK', [RuntimeNext]_runtimeVars PROVE RuntimeTypeOK'
  OBVIOUS
<1>. USE ThreeJobs, RuntimeAssumption, CheckoutAssumption
     DEF RuntimeAssumption, CheckoutAssumption, RuntimeTypeOK, processVars, bibVars
<1>a. CheckoutTypeOK'
  BY CheckoutTypeStep
<1>b. Workers \subseteq Ingests /\ Cli \subseteq Ingests /\ Call \subseteq Ingests
  BY DEF Workers, Ingests, Call
<1>1. CASE Boot \/ Shutdown \/ Close
  BY <1>1, <1>a DEF Boot, Shutdown, Close
<1>2. CASE StartNext
  <2>1. phase' \in {"starting", "up"} /\ next' \in 1..3
    BY <1>2 DEF StartNext
  <2>2. backfill' \in BOOLEAN
    BY <1>2 DEF StartNext
  <2>3. UNCHANGED <<ingest, latest, busy, overlapped, asks>>
    BY <1>2 DEF StartNext
  <2>. QED
    BY <1>a, <2>1, <2>2, <2>3
<1>3. CASE StopNext
  <2>1. phase' \in {"stopping", "closing"} /\ next' \in 1..3 /\ UNCHANGED asks
    BY <1>3 DEF StopNext, StopGoesOn
  <2>2. /\ backfill' \in BOOLEAN /\ busy' \in BOOLEAN /\ UNCHANGED <<latest, overlapped>>
        /\ ingest' \in [Ingests -> {"none", "scheduled", "running"}]
    BY <1>3 DEF StopNext, StopBackfill, StopNer, StopBibliography
  <2>. QED
    BY <1>a, <2>1, <2>2
<1>4. CASE Exit \/ Kill
  <2>1. ingest' \in [Ingests -> {"none", "scheduled", "running"}]
    BY <1>4 DEF Exit, Kill, NoRuns
  <2>. QED
    BY <1>4, <1>a, <2>1 DEF Exit, Kill, NoRuns
<1>5. ASSUME NEW w \in Workers, StartRun(w)
      PROVE  /\ ingest' \in [Ingests -> {"none", "scheduled", "running"}]
             /\ latest' \in Workers \cup {"nobody"}
             /\ busy' \in BOOLEAN /\ overlapped' \in BOOLEAN
  <2>1. CASE busy
    BY <1>5, <2>1 DEF StartRun
  <2>2. CASE ~busy
    <3>1. /\ ingest' = [ingest EXCEPT ![w] = "scheduled"] /\ latest' = w /\ UNCHANGED busy
          /\ overlapped' = (overlapped \/ \E v \in Workers : ingest[v] = "scheduled")
      BY <1>5, <2>2 DEF StartRun
    <3>2. overlapped' \in BOOLEAN
      BY <3>1, Zenon
    <3>. QED
      BY <1>b, <3>1, <3>2
  <2>. QED
    BY <2>1, <2>2
<1>6. CASE Request
  <2>1. ASSUME NEW c, Asked(c) PROVE asks' \in 0..MaxAsks
    BY <2>1 DEF Asked
  <2>2. ASSUME NEW d \in Directories, TriggerDirectory(d) PROVE RuntimeTypeOK'
    <3>1. d \in Workers
      BY DEF Workers
    <3>. QED
      BY <1>5, <1>a, <2>1, <2>2, <3>1 DEF TriggerDirectory
  <2>3. ASSUME NEW c \in Cli, KillCommandLine(c) PROVE RuntimeTypeOK'
    BY <1>a, <2>3 DEF KillCommandLine
  <2>. QED
    BY <1>6, <1>a, <2>1, <2>2, <2>3 DEF Request, Trigger, ImportBibtex, CommandLine
<1>7. CASE BibliographyMoves
  <2>1. ASSUME NEW c \in Call, CheckedOut(c) PROVE RuntimeTypeOK'
    <3>1. CASE UNCHANGED bibVars
      BY <1>a, <2>1, <3>1 DEF CheckedOut
    <3>2. CASE c \in Workers /\ StartRun(c)
      BY <1>a, <1>5, <2>1, <3>2 DEF CheckedOut
    <3>3. CASE ingest' = [ingest EXCEPT ![c] = "running"] /\ UNCHANGED <<latest, busy, overlapped>>
      BY <1>a, <2>1, <3>3 DEF CheckedOut
    <3>. QED
      BY <2>1, <3>1, <3>2, <3>3 DEF CheckedOut
  <2>2. ASSUME NEW w \in Workers, RunBegins(w) PROVE RuntimeTypeOK'
    BY <1>a, <2>2 DEF RunBegins
  <2>3. ASSUME NEW i \in Ingests, IngestEnds(i) PROVE RuntimeTypeOK'
    <3>1. busy' \in BOOLEAN
      BY <2>3, Zenon DEF IngestEnds
    <3>. QED
      BY <1>a, <2>3, <3>1 DEF IngestEnds
  <2>4. CASE IngestOne
    BY <1>a, <2>4 DEF IngestOne
  <2>. QED
    BY <1>7, <2>1, <2>2, <2>3, <2>4 DEF BibliographyMoves
<1>8. CASE NerMoves \/ CheckoutMoves
  BY <1>a, <1>8 DEF NerMoves, NerAlone, CheckoutMoves, CheckoutAlone
<1>9. CASE UNCHANGED runtimeVars
  BY <1>a, <1>9 DEF runtimeVars
<1>. QED
  BY <1>1, <1>2, <1>3, <1>4, <1>6, <1>7, <1>8, <1>9 DEF RuntimeNext

(* But for overlapped runs, a run is the latest one and under way only      *)
(* while the process has not stopped its job.                               *)
LEMMA RunsStep == IInv /\ [RuntimeNext]_runtimeVars => RunsInv'
<1>. SUFFICES ASSUME RuntimeTypeOK, AskedInv, RunsInv, [RuntimeNext]_runtimeVars PROVE RunsInv'
  BY DEF IInv, ProcessInv
<1>. USE RuntimeAssumption, CheckoutAssumption
     DEF RuntimeAssumption, CheckoutAssumption, RunsInv, RuntimeTypeOK, bibVars
<1>a. /\ Imports \subseteq Call /\ "boot" \in Workers
      /\ Workers \cap Imports = {} /\ Workers \cap Cli = {} /\ Imports \cap Cli = {}
      /\ Workers \subseteq Ingests /\ Call \subseteq Ingests
      /\ Call \cap Workers = {"boot"} \cup Triggers
      /\ Call = {"boot"} \cup Triggers \cup Imports \cup Cli
  BY DEF Workers, Ingests, Call
<1>1. CASE Boot \/ StartNext \/ Close
  BY <1>1 DEF Boot, StartNext, Close
<1>2. CASE Shutdown
  BY <1>2 DEF Shutdown
<1>3. CASE StopNext
  <2>1. CASE phase' = "stopping"
    BY <1>3, <2>1 DEF StopNext, StopGoesOn, StopBackfill, StopNer
  <2>2. CASE phase' = "closing"
    <3>1. /\ phase = "stopping" /\ UNCHANGED <<latest, overlapped>>
          /\ IF latest # "nobody" /\ ingest[latest] # "none"
             THEN ingest' = [ingest EXCEPT ![latest] = "none"]
             ELSE UNCHANGED ingest
      BY <1>3, <2>2 DEF StopNext, StopGoesOn, StopBibliography
    <3>2. \A i \in Ingests : ingest'[i] # "none" => ingest[i] # "none" /\ (i \in Workers => i # latest)
      <4>1. "nobody" \notin Workers
        BY DEF Workers
      <4>. QED
        BY <1>a, <3>1, <4>1
    <3>. QED
      BY <1>a, <2>2, <3>1, <3>2
  <2>. QED
    BY <1>3, <2>1, <2>2 DEF StopNext, StopGoesOn
<1>4. CASE Exit \/ Kill
  BY <1>4, <1>a DEF Exit, Kill, NoRuns
<1>5. ASSUME NEW w \in Workers, StartRun(w), UNCHANGED phase,
             phase \notin {"closing", "closed", "down"}
      PROVE  RunsInv'
  <2>1. CASE busy
    BY <1>5, <2>1 DEF StartRun
  <2>2. CASE ~busy
    <3>1. /\ ingest' = [ingest EXCEPT ![w] = "scheduled"] /\ latest' = w /\ UNCHANGED busy
          /\ overlapped' = (overlapped \/ \E v \in Workers : ingest[v] = "scheduled")
      BY <1>5, <2>2 DEF StartRun
    <3>2. ~overlapped' => ~overlapped /\ \A v \in Workers : ingest[v] = "none"
      BY <1>a, <2>2, <3>1
    <3>. QED
      BY <1>5, <1>a, <3>1, <3>2
  <2>. QED
    BY <2>1, <2>2
<1>6. CASE Request
  <2>1. ASSUME NEW d \in Directories, TriggerDirectory(d) PROVE RunsInv'
    <3>1. d \in Workers
      BY DEF Workers
    <3>. QED
      BY <1>5, <2>1, <3>1 DEF TriggerDirectory
  <2>2. ASSUME NEW c \in Cli, KillCommandLine(c) PROVE RunsInv'
    BY <1>a, <2>2 DEF KillCommandLine
  <2>. QED
    BY <1>6, <2>1, <2>2 DEF Request, Trigger, ImportBibtex, CommandLine
<1>7. ASSUME NEW c \in Call, CheckedOut(c) PROVE RunsInv'
  <2>1. CASE UNCHANGED bibVars
    BY <1>7, <2>1 DEF CheckedOut
  <2>2. CASE call[c] = "working" /\ c \in Workers /\ StartRun(c)
    <3>1. UNCHANGED phase /\ phase \notin {"closing", "closed", "down"}
      BY <1>7, <1>a, <2>2 DEF CheckedOut, AskedInv
    <3>. QED
      BY <1>5, <2>2, <3>1
  <2>3. CASE /\ call[c] = "working" /\ c \notin Workers
             /\ ingest' = [ingest EXCEPT ![c] = "running"] /\ UNCHANGED <<latest, busy, overlapped>>
    <3>1. UNCHANGED phase /\ (c \in Imports => phase = "up")
      BY <1>7, <2>3 DEF CheckedOut, AskedInv
    <3>. QED
      BY <1>a, <2>3, <3>1
  <2>. QED
    BY <1>7, <2>1, <2>2, <2>3 DEF CheckedOut
<1>8. ASSUME NEW w \in Workers, RunBegins(w) PROVE RunsInv'
  BY <1>8, <1>a DEF RunBegins
<1>9. ASSUME NEW i \in Ingests, IngestEnds(i) PROVE RunsInv'
  <2>1. /\ ingest[i] = "running" /\ ingest' = [ingest EXCEPT ![i] = "none"]
        /\ UNCHANGED <<phase, latest, overlapped>>
    BY <1>9 DEF IngestEnds
  <2>2. CASE i \in Workers
    BY <1>a, <2>1, <2>2
  <2>3. CASE i \notin Workers
    <3>1. UNCHANGED busy
      BY <1>9, <2>3 DEF IngestEnds
    <3>. QED
      BY <1>a, <2>1, <2>3, <3>1
  <2>. QED
    BY <2>2, <2>3
<1>10. CASE UNCHANGED <<phase, bibVars>>
  BY <1>10
<1>. QED
  BY <1>1, <1>2, <1>3, <1>4, <1>6, <1>7, <1>8, <1>9, <1>10
  DEF RuntimeNext, runtimeVars, BibliographyMoves, IngestOne, NerMoves, NerAlone, CheckoutMoves,
      CheckoutAlone, processVars

(* The requests begin no ingest but while the process serves them.          *)
LEMMA AdminStep ==
  ASSUME NerTypeOK, NerTypeOK', [RuntimeNext]_runtimeVars, phase' # "up",
         phase # "up" => \A a \in Admin : stage[a] = "out"
  PROVE  \A a \in Admin : stage'[a] = "out"
<1>. USE NerAssumption DEF NerAssumption, NerTypeOK, Ingester
<1>1. CASE phase = "up"
  BY <1>1
  DEF RuntimeNext, runtimeVars, nerVars, Boot, StartNext, Shutdown, StopNext, Close, Exit, Kill,
      Restart, Request, Trigger, TriggerDirectory, ImportBibtex, CommandLine, KillCommandLine,
      BibliographyMoves, CheckedOut, RunBegins, IngestOne, IngestEnds, NerMoves, NerAlone,
      CheckoutMoves, CheckoutAlone, processVars
<1>2. CASE phase # "up"
  <2>1. \A a \in Admin : stage[a] = "out"
    BY <1>2
  <2>2. ASSUME NEW p \in Ingester, Statement(p) \/ Commit(p) \/ Fail(p)
        PROVE  \A a \in Admin : stage'[a] = "out"
    <3>1. (stage[p] # "out" \/ p = "auto") /\ \E s : stage' = [stage EXCEPT ![p] = s]
      BY <2>2 DEF Statement, Commit, Fail, Clear, Atlas, IngestFactsOf, Signals, Insert, Leave
    <3>2. p \notin Admin
      BY <2>1, <3>1
    <3>. QED
      BY <2>1, <3>1, <3>2
  <2>3. ASSUME StartJob \/ StopJob \/ JobStep PROVE \A a \in Admin : stage'[a] = "out"
    BY <2>1, <2>3
    DEF StartJob, StopJob, Leave, JobStep, ResolveRelease, CheckLatest, Poll, Wake, BeginIngest,
        Enter, Finish, txVars
  <2>4. UNCHANGED stage => \A a \in Admin : stage'[a] = "out"
    BY <2>1
  <2>5. CASE StopNext
    BY <2>3, <2>4, <2>5 DEF StopNext, StopBackfill, StopNer, nerVars
  <2>6. CASE BibliographyMoves \/ Request
    BY <2>4, <2>6
    DEF Request, Trigger, TriggerDirectory, ImportBibtex, CommandLine, KillCommandLine,
        BibliographyMoves, CheckedOut, RunBegins, IngestOne, Import, txVars, IngestEnds, nerVars
  <2>. QED
    BY <1>2, <2>1, <2>2, <2>3, <2>4, <2>5, <2>6
    DEF RuntimeNext, runtimeVars, nerVars, Boot, StartNext, Shutdown, Close, Exit, Kill, Restart,
        NerMoves, CheckoutMoves, CheckoutAlone
<1>. QED
  BY <1>1, <1>2

(* What is not started yet or stopped already does not work.                *)
LEMMA PhaseStep == IInv /\ [RuntimeNext]_runtimeVars => PhaseInv'
<1>. SUFFICES ASSUME RuntimeTypeOK, RuntimeTypeOK', NerInv, AskedInv, PhaseInv,
                     [RuntimeNext]_runtimeVars
              PROVE  PhaseInv'
  BY NerMove, NerTypeStep, ProcessTypeStep DEF IInv, ProcessInv
<1>. USE ThreeJobs, RuntimeAssumption
     DEF RuntimeAssumption, RuntimeTypeOK, PhaseInv, JobAtRest, BackfillAtRest
<1>. DEFINE Quiet == UNCHANGED <<phase, next, backfill>>
<1>a. Quiet \/ Boot \/ StartNext \/ Shutdown \/ StopNext \/ Close \/ Exit \/ Kill
  BY DEF RuntimeNext, runtimeVars, processVars, Request, Trigger, TriggerDirectory, ImportBibtex,
         CommandLine, KillCommandLine, BibliographyMoves, CheckedOut, RunBegins, IngestOne,
         IngestEnds, NerMoves, NerAlone, CheckoutMoves, CheckoutAlone
<1>1. phase' # "up" => \A a \in Admin : stage'[a] = "out"
  BY AdminStep
<1>2. phase' = "down" => \A c \in Server : thread'[c] = "out"
  <2>1. CASE phase = "down" /\ phase' = "down"
    <3>1. \A c \in Server : call[c] = "out" /\ thread[c] = "out"
      BY <2>1 DEF AskedInv
    <3>2. ASSUME NEW c \in Call, TakeLock(c) \/ Git(c) PROVE \A d \in Server : thread'[d] = "out"
      <4>1. CASE TakeLock(c)
        BY <3>1, <4>1 DEF TakeLock, Begin, CheckoutTypeOK, Call
      <4>2. CASE Git(c)
        <5>1. thread[c] # "out" /\ \A d \in Call \ {c} : thread'[d] = thread[d]
          <6>1. \E s : thread' = [thread EXCEPT ![c] = s]
            BY <4>2, GitMoves
          <6>2. thread[c] # "out"
            BY <4>2, GitMoves
          <6>. QED
            BY <6>1, <6>2 DEF CheckoutTypeOK
        <5>. QED
          BY <3>1, <5>1 DEF Call
      <4>. QED
        BY <3>2, <4>1, <4>2
    <3>3. ASSUME NEW C, Forget(C) PROVE \A c \in Server : thread'[c] = "out"
      BY <3>1, <3>3 DEF Forget, Call
    <3>4. ASSUME NEW c \in Call, Ask(c) \/ CancelCall(c) PROVE UNCHANGED thread
      BY <3>4 DEF Ask, CancelCall
    <3>5. Push \/ UNCHANGED checkoutVars => UNCHANGED thread
      BY DEF Push, askedVars, checkoutVars
    <3>6. ASSUME NEW c \in Call, Answer(c) PROVE \A d \in Server : thread'[d] = "out"
      BY <3>3, <3>6 DEF Answer
    <3>7. ASSUME NEW C, KillCalls(C) PROVE \A d \in Server : thread'[d] = "out"
      BY <3>3, <3>7 DEF KillCalls
    <3>8. "boot" \in Call
      BY DEF Call
    <3>. QED
      BY <3>1, <3>2, <3>4, <3>5, <3>6, <3>7, <3>8, CheckoutSteps
  <2>2. CASE phase # "down"
    <3>1. CASE Exit
      BY <3>1 DEF Exit, checkoutVars
    <3>2. CASE Kill
      <4>1. thread' = [c \in Call |-> IF c \in Server THEN "out" ELSE thread[c]]
        BY <3>2 DEF Kill, KillCalls, Forget
      <4>2. Server \subseteq Call
        BY DEF Call
      <4>. QED
        BY <4>1, <4>2
    <3>3. Boot \/ StartNext \/ Shutdown \/ StopNext \/ Close => phase' # "down"
      BY DEF Boot, StartNext, Shutdown, StopNext, StopGoesOn, Close
    <3>. QED
      BY <1>a, <2>2, <3>1, <3>2, <3>3
  <2>. QED
    BY <2>1, <2>2
<1>3. JobAtRest' => job' \in {"idle", "done"}
  <2>1. CASE NerMoves
    <3>1. job \in {"idle", "done"} => stage["auto"] = "out" /\ ~JobStep
      BY DEF NerInv, JobInv, JobStep, ResolveRelease, CheckLatest, Poll, Wake, BeginIngest, Finish
    <3>2. ASSUME NEW p \in Ingester, Statement(p) \/ Commit(p) \/ Fail(p),
                 job \in {"idle", "done"}
          PROVE  job' = job
      <4>1. stage[p] # "out"
        BY <3>2 DEF Statement, Commit, Fail, Clear, Atlas, IngestFactsOf, Signals
      <4>. QED
        BY <3>1, <3>2, <4>1 DEF Statement, Commit, Fail, jobVars
    <3>. QED
      BY <2>1, <3>1, <3>2 DEF NerMoves, NerAlone, Post, jobVars, processVars
  <2>2. CASE IngestOne
    BY <2>2 DEF IngestOne, Import, jobVars, processVars
  <2>3. CASE StartNext
    BY <2>3 DEF StartNext, nerVars
  <2>4. CASE StopNext
    BY <2>4 DEF StopNext, StopGoesOn, StopNer, StopBackfill, StopJob, nerVars
  <2>5. CASE Kill
    BY <2>5 DEF Kill, Restart
  <2>6. CASE UNCHANGED <<phase, next, job>>
    BY <2>6
  <2>7. CASE Boot \/ Shutdown \/ Close \/ Exit
    BY <2>7 DEF Boot, Shutdown, Close, Exit, nerVars
  <2>. QED
    BY <2>1, <2>2, <2>3, <2>4, <2>5, <2>6, <2>7
    DEF RuntimeNext, runtimeVars, nerVars, processVars, Request, Trigger, TriggerDirectory,
        ImportBibtex, CommandLine, KillCommandLine, BibliographyMoves, CheckedOut, RunBegins,
        IngestEnds, CheckoutMoves, CheckoutAlone
<1>4. BackfillAtRest' => ~backfill'
  BY <1>a DEF Boot, StartNext, Shutdown, StopNext, StopGoesOn, StopBackfill, StopNer, Close, Exit, Kill
<1>. QED
  BY <1>1, <1>2, <1>3, <1>4

(***************************************************************************)
(* The theorems.                                                           *)
(***************************************************************************)

(* The inductive invariant holds of every behaviour of the process.         *)
THEOREM Invariant == RuntimeSpec => []IInv
<1>1. RuntimeInit => IInv
  BY RuntimeInitInv
<1>2. IInv /\ [RuntimeNext]_runtimeVars => IInv'
  <2>. SUFFICES ASSUME IInv, [RuntimeNext]_runtimeVars PROVE IInv'
    OBVIOUS
  <2>1. NerInv'
    BY NerMove, NerStep DEF IInv
  <2>2. RuntimeTypeOK'
    BY <2>1, ProcessTypeStep DEF IInv, NerInv
  <2>3. WorkerInv' /\ AskedInv'
    BY WorkerStep, AskedStep DEF IInv, ProcessInv, RuntimeTypeOK
  <2>4. ProcessInv'
    BY <2>3, ThreadStep, DirStep, RunsStep, PhaseStep DEF ProcessInv
  <2>. QED
    BY <2>1, <2>2, <2>4 DEF IInv
<1>. QED
  BY <1>1, <1>2, PTL DEF RuntimeSpec

(* Readers find one whole release or none, the lock is held exactly while   *)
(* an ingest is under way, and the job says complete only of what was       *)
(* committed: through every kill, stop and failure of the process           *)
(* (ner_ingest.py's transaction, runtime_components.py's job).              *)
THEOREM ReleasesAreSafe == RuntimeSpec => []ReleasesSafe
<1>1. IInv => ReleasesSafe
  BY DEF IInv, NerInv, ReleasesSafe
<1>. QED
  BY <1>1, Invariant, PTL

(* However many calls of the server and command lines ask for it, a         *)
(* refreshed checkout that no other process has worked on at the same time  *)
(* is handed on only whole and as new as the call                           *)
(* (bibliography_repository.py's lock); one that is not to be refreshed is  *)
(* a repository, no more.  And once the services are closed nothing of the  *)
(* process works any more but a run of the worker that was overtaken:       *)
(* no job, no transaction, no request, no holder of the lock (main.py's     *)
(* shutdown after runtime.py's stop).                                       *)
THEOREM ProcessIsSafe == RuntimeSpec => []ProcessSafe
<1>1. IInv => ProcessSafe
  <2>. SUFFICES ASSUME IInv PROVE ProcessSafe
    OBVIOUS
  <2>. USE RuntimeAssumption, CheckoutAssumption DEF RuntimeAssumption, CheckoutAssumption
  <2>1. ASSUME phase \in {"closed", "down"} PROVE lock = "nobody"
    <3>1. \A c \in Server : call[c] # "working"
      BY <2>1 DEF IInv, ProcessInv, AskedInv
    <3>. QED
      BY <3>1 DEF IInv, ProcessInv, WorkerInv, RuntimeTypeOK, CheckoutTypeOK
  <2>2. ASSUME phase \in {"closed", "down"} PROVE \A p \in Ingester : stage[p] = "out"
    BY <2>2 DEF IInv, ProcessInv, PhaseInv, JobAtRest, NerInv, JobInv, Ingester
  <2>3. ASSUME phase \in {"closed", "down"}, NEW i \in Ingests \ Cli, ingest[i] # "none"
        PROVE  i \in Workers /\ overlapped
    BY <2>3 DEF IInv, ProcessInv, RunsInv, Ingests, Call, Workers
  <2>4. ASSUME phase = "down" PROVE \A c \in Server : thread[c] = "out" /\ ingest[c] = "none"
    <3>1. ~overlapped /\ \A c \in Server : thread[c] = "out" /\ c \in Ingests \ Cli
      BY <2>4 DEF IInv, ProcessInv, RunsInv, PhaseInv, Ingests, Call
    <3>. QED
      BY <2>3, <2>4, <3>1
  <2>5. QuietWhenClosed
    BY <2>1, <2>2, <2>3, <2>4
    DEF QuietWhenClosed, IInv, ProcessInv, PhaseInv, JobAtRest, BackfillAtRest
  <2>. QED
    BY <2>5 DEF IInv, ProcessInv, ProcessSafe
<1>. QED
  BY <1>1, Invariant, PTL

(* A file, a foreign directory or a checkout of something else at the path  *)
(* is never changed, nor, while the setting forbids it, a checkout that     *)
(* nobody is making: no command of a thread gets there                      *)
(* (_ensure_checkout_sync's refusals and its branch on refresh).            *)
THEOREM OthersAreUntouched == RuntimeSpec => OthersUntouched
<1>1. IInv /\ [RuntimeNext]_runtimeVars => [Untouchable => dir' = dir]_checkoutVars
  <2>. SUFFICES ASSUME RuntimeTypeOK, PathInv, [RuntimeNext]_runtimeVars, Untouchable
                PROVE  dir' = dir
    BY DEF IInv, ProcessInv
  <2>1. ASSUME NEW c \in Call, Git(c) PROVE dir' = dir
    <3>1. CASE dir.kind \in Others
      <4>1. thread[c] \notin {"clone", "cloning", "head", "fetch", "checkout", "updating"}
        BY <3>1 DEF PathInv, Others
      <4>. QED
        BY <2>1, <4>1
        DEF Git, Look, Clone, CloneFails, DefaultBranch, Fetch, CheckOut, UpdateEnds, GitFails
    <3>2. CASE ~refresh /\ dir.kind = "repo" /\ \A d \in Call : thread[d] \notin {"cloning", "checkout", "updating"}
      <4>1. thread[c] \notin {"cloning", "checkout", "updating", "fetch"}
        BY <3>2 DEF PathInv
      <4>. QED
        BY <2>1, <3>2, <4>1
        DEF Git, Look, Clone, CloneFails, DefaultBranch, Fetch, CheckOut, UpdateEnds, GitFails
    <3>. QED
      BY <3>1, <3>2 DEF Untouchable
  <2>. QED
    BY <2>1, CheckoutSteps
    DEF Push, TakeLock, Begin, Ask, Answer, CancelCall, KillCalls, checkoutVars
<1>. QED
  BY <1>1, Invariant, PTL DEF RuntimeSpec, OthersUntouched, runtimeVars
================================================================================
