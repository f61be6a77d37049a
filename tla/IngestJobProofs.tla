---------------------------- MODULE IngestJobProofs ----------------------------
(***************************************************************************)
(* What the ingest job keeps, proved for any number of requests, runs and  *)
(* files.                                                                  *)
(*                                                                         *)
(* The argument is about the event loop.  A task is in its queue exactly   *)
(* when it has something to do, and once; a task that has the checkout     *)
(* comes to its turn after the run that its predecessor has started, for   *)
(* the lock was granted first and git has to end in between.  So a run has *)
(* begun before another one can be started from a checkout, and then the   *)
(* progress tells it.                                                      *)
(***************************************************************************)
EXTENDS IngestJob, SequenceTheorems, TLAPS

In(q) == {q[i] : i \in 1..Len(q)}
Once(q) == \A i, j \in 1..Len(q) : q[i] = q[j] => i = j

\* In q the members of A stand behind those of B.
Behind(q, A, B) == \A i, j \in 1..Len(q) : q[i] \in A /\ q[j] \in B => j < i

(***************************************************************************)
(* The invariants.                                                         *)
(***************************************************************************)
AtCheckout == {"waiting", "granted", "git", "ready", "broken"}
InRun == {"begin", "direct", "index", "indexed", "file", "filed", "yield", "failed"}

\* Where the tasks of each kind can be.
PcInv ==
  /\ pc[Bootstrap] \in {"start", "done"} \cup AtCheckout
  /\ \A q \in Requests : pc[q] \in {"off", "start", "done"} \cup AtCheckout
  /\ \A r \in Runs : pc[r] \in {"off", "done"} \cup InRun
  /\ pc[Shutdown] \in {"off", "start", "bootstrap", "worker", "done"}

\* A task that is scheduled: nothing it awaits is still to come.
Due(t) ==
  \/ pc[t] \in {"start", "granted", "ready", "broken", "begin", "direct", "indexed", "filed",
                "yield", "failed"}
  \/ pc[t] \in {"waiting", "git", "index", "file"} /\ t \in cancelled
  \/ pc[t] = "bootstrap" /\ ~Live(Bootstrap)
  \/ pc[t] = "worker" /\ ~Live(latest)

QueueInv == Once(ready) /\ In(ready) = {t \in Tasks : Due(t)}

ReadyTasks == {t \in Tasks : pc[t] = "ready"}
BeginTasks == {t \in Tasks : pc[t] = "begin"}
OrderInv == Behind(ready, ReadyTasks, BeginTasks)

\* The queue of the lock, its holder first; it is the bootstrap's alone at first.
LockInv ==
  /\ Once(checkout) /\ In(checkout) = {t \in Tasks : pc[t] \in AtCheckout}
  /\ \A i \in 1..Len(checkout) : pc[checkout[i]] = "waiting" <=> i > 1
  /\ Live(Bootstrap) => \A q \in Requests : pc[q] \notin AtCheckout

\* How far the stop is, and whom it has cancelled.
StopInv ==
  /\ cancelled \subseteq {Bootstrap} \cup Runs
  /\ pc[Shutdown] \in {"off", "start"} => cancelled = {}
  /\ pc[Shutdown] = "bootstrap" =>
       cancelled \subseteq {Bootstrap} /\ (Live(Bootstrap) => Bootstrap \in cancelled)
  /\ pc[Shutdown] # "off" => \A q \in Requests : ~Live(q)
  /\ pc[Shutdown] \in {"worker", "done"} => ~Live(Bootstrap)
  /\ pc[Shutdown] = "worker" => latest \in Runs /\ (Live(latest) => latest \in cancelled)

LeftInv == \A r \in Runs : pc[r] \in {"file", "filed"} => left[r] > 0

\* Unless two were started at once the latest run is the only one.
LatestInv ==
  ~overlapped =>
    /\ \A r \in Runs : Live(r) => r = latest
    /\ \A r \in Runs : pc[r] \in {"index", "indexed"} => done = 0
    /\ pc[Shutdown] = "done" => \A r \in Runs : ~Live(r)

IInv ==
  TypeOK /\ PcInv /\ QueueInv /\ OrderInv /\ LockInv /\ StopInv /\ LeftInv /\ LatestInv
    /\ ProgressTrue

(***************************************************************************)
(* Queues.                                                                 *)
(***************************************************************************)

(* What is left behind the head of a queue.                                 *)
LEMMA TailOfQueue ==
  ASSUME NEW S, NEW q \in Seq(S), q # << >>, Once(q)
  PROVE  /\ Head(q) \in In(q)
         /\ Tail(q) \in Seq(S) /\ Once(Tail(q)) /\ In(Tail(q)) = In(q) \ {Head(q)}
<1>1. Len(q) \in Nat \ {0} /\ Head(q) = q[1] /\ Tail(q) \in Seq(S) /\ Len(Tail(q)) = Len(q) - 1
  OBVIOUS
<1>2. \A i \in 1..Len(q) - 1 : Tail(q)[i] = q[i + 1]
  OBVIOUS
<1>3. Once(Tail(q))
  BY <1>1, <1>2 DEF Once
<1>4. Head(q) \in In(q)
  BY <1>1 DEF In
<1>5. ASSUME NEW x \in In(Tail(q)) PROVE x \in In(q) \ {Head(q)}
  BY <1>1, <1>2, <1>5 DEF In, Once
<1>6. ASSUME NEW x \in In(q) \ {Head(q)} PROVE x \in In(Tail(q))
  <2>1. PICK i \in 1..Len(q) : x = q[i]
    BY <1>6 DEF In
  <2>2. i # 1 /\ i - 1 \in 1..Len(Tail(q)) /\ Tail(q)[i - 1] = x
    BY <1>1, <1>2, <1>6, <2>1
  <2>. QED
    BY <2>2 DEF In
<1>. QED
  BY <1>1, <1>3, <1>4, <1>5, <1>6

(* Two queues without a common member, one behind the other.                *)
LEMMA JoinedQueues ==
  ASSUME NEW S, NEW q \in Seq(S), NEW m \in Seq(S), Once(q), Once(m), In(q) \cap In(m) = {}
  PROVE  /\ q \o m \in Seq(S) /\ Once(q \o m)
         /\ \A x : x \in In(q \o m) <=> x \in In(q) \/ x \in In(m)
<1>1. q \o m \in Seq(S) /\ Len(q \o m) = Len(q) + Len(m) /\ Len(q) \in Nat /\ Len(m) \in Nat
  OBVIOUS
<1>2. /\ \A i \in 1..Len(q) : (q \o m)[i] = q[i]
      /\ \A i \in Len(q) + 1..Len(q) + Len(m) : (q \o m)[i] = m[i - Len(q)]
  OBVIOUS
<1>3. \A i \in 1..Len(q \o m) :
        \/ i \in 1..Len(q) /\ (q \o m)[i] = q[i]
        \/ i - Len(q) \in 1..Len(m) /\ (q \o m)[i] = m[i - Len(q)]
  BY <1>1, <1>2
<1>4. Once(q \o m)
  <2>1. \A i \in 1..Len(q), j \in 1..Len(m) : q[i] # m[j]
    BY DEF In
  <2>. QED
    BY <1>1, <1>3, <2>1 DEF Once
<1>5. In(q \o m) \subseteq In(q) \cup In(m)
  BY <1>3 DEF In
<1>6. ASSUME NEW x \in In(m) PROVE x \in In(q \o m)
  <2>1. PICK i \in 1..Len(m) : x = m[i]
    BY <1>6 DEF In
  <2>2. i + Len(q) \in 1..Len(q \o m) /\ (q \o m)[i + Len(q)] = x
    BY <1>1, <1>2, <2>1
  <2>. QED
    BY <2>2 DEF In
<1>7. In(q) \subseteq In(q \o m)
  BY <1>1, <1>2 DEF In
<1>. QED
  BY <1>1, <1>4, <1>5, <1>6, <1>7

(* The order of a queue when its head goes and others join it.              *)
LEMMA OrderKept ==
  ASSUME NEW S, NEW q \in Seq(S), NEW m \in Seq(S), NEW A, NEW B, NEW C, NEW D,
         Behind(q, A, B), C \cap In(q) \subseteq A, D \cap In(q) \subseteq B,
         D \cap In(m) = {}
  PROVE  Behind(q \o m, C, D) /\ (q # << >> => Behind(Tail(q) \o m, C, D))
<1>1. ASSUME NEW s \in Seq(S), NEW k \in Nat, Len(s) = Len(q) - k,
             \A i \in 1..Len(s) : s[i] = q[i + k]
      PROVE  Behind(s \o m, C, D)
  <2>. SUFFICES ASSUME NEW i \in 1..Len(s \o m), NEW j \in 1..Len(s \o m),
                       (s \o m)[i] \in C, (s \o m)[j] \in D
                PROVE  j < i
    BY DEF Behind
  <2>1. /\ Len(s \o m) = Len(s) + Len(m) /\ Len(s) \in Nat /\ Len(m) \in Nat
        /\ \A n \in 1..Len(s) : (s \o m)[n] = s[n]
        /\ \A n \in Len(s) + 1..Len(s) + Len(m) : (s \o m)[n] = m[n - Len(s)]
    OBVIOUS
  <2>2. j \in 1..Len(s)
    <3>1. SUFFICES ASSUME j \in Len(s) + 1..Len(s) + Len(m) PROVE FALSE
      BY <2>1
    <3>2. j - Len(s) \in 1..Len(m) /\ m[j - Len(s)] \in D
      BY <2>1, <3>1
    <3>. QED
      BY <3>2 DEF In
  <2>3. CASE i \in 1..Len(s)
    <3>1. i + k \in 1..Len(q) /\ j + k \in 1..Len(q) /\ q[i + k] \in C /\ q[j + k] \in D
      BY <1>1, <2>1, <2>2, <2>3
    <3>2. q[i + k] \in A /\ q[j + k] \in B
      BY <3>1 DEF In
    <3>. QED
      BY <3>1, <3>2 DEF Behind
  <2>4. CASE i \notin 1..Len(s)
    BY <2>1, <2>2, <2>4
  <2>. QED
    BY <2>3, <2>4
<1>2. Behind(q \o m, C, D)
  <2>1. Len(q) = Len(q) - 0 /\ \A i \in 1..Len(q) : q[i] = q[i + 0]
    OBVIOUS
  <2>. QED
    BY <1>1, <2>1
<1>3. q # << >> =>
        /\ Tail(q) \in Seq(S) /\ Len(Tail(q)) = Len(q) - 1
        /\ \A i \in 1..Len(Tail(q)) : Tail(q)[i] = q[i + 1]
  OBVIOUS
<1>. QED
  BY <1>1, <1>2, <1>3

(* Short queues.                                                            *)
LEMMA ShortQueues ==
  /\ Once(<< >>) /\ In(<< >>) = {} /\ \A S : << >> \in Seq(S)
  /\ \A S, x : /\ Once(<<x>>) /\ In(<<x>>) = {x} /\ (x \in S => <<x>> \in Seq(S))
               /\ \A q \in Seq(S) : x \in S => Append(q, x) = q \o <<x>>
BY DEF Once, In

(* The head has gone and others have joined.                                *)
LEMMA AfterHead ==
  ASSUME NEW S, NEW q \in Seq(S), q # << >>, Once(q), NEW m \in Seq(S), Once(m),
         In(m) \cap (In(q) \ {Head(q)}) = {}
  PROVE  /\ Tail(q) \o m \in Seq(S) /\ Once(Tail(q) \o m)
         /\ In(Tail(q) \o m) = (In(q) \ {Head(q)}) \cup In(m)
<1>1. Tail(q) \in Seq(S) /\ Once(Tail(q)) /\ In(Tail(q)) = In(q) \ {Head(q)}
  BY TailOfQueue
<1>2. In(Tail(q)) \cap In(m) = {}
  BY <1>1
<1>3. Tail(q) \o m \in Seq(S)
  BY <1>1
<1>4. Once(Tail(q) \o m)
  BY <1>1, <1>2, JoinedQueues
<1>5. \A x : x \in In(Tail(q) \o m) <=> x \in In(Tail(q)) \/ x \in In(m)
  BY <1>1, <1>2, JoinedQueues
<1>. QED
  BY <1>1, <1>3, <1>4, <1>5

(* One has joined.                                                          *)
LEMMA OneMore ==
  ASSUME NEW S, NEW q \in Seq(S), Once(q), NEW x \in S, x \notin In(q)
  PROVE  /\ Append(q, x) \in Seq(S) /\ Once(Append(q, x))
         /\ In(Append(q, x)) = In(q) \cup {x}
<1>1. <<x>> \in Seq(S) /\ Once(<<x>>) /\ In(<<x>>) = {x} /\ Append(q, x) = q \o <<x>>
  BY ShortQueues
<1>2. In(q) \cap In(<<x>>) = {}
  BY <1>1
<1>3. q \o <<x>> \in Seq(S)
  BY <1>1
<1>4. Once(q \o <<x>>)
  BY <1>1, <1>2, JoinedQueues
<1>5. \A y : y \in In(q \o <<x>>) <=> y \in In(q) \/ y \in In(<<x>>)
  BY <1>1, <1>2, JoinedQueues
<1>. QED
  BY <1>1, <1>3, <1>4, <1>5

(***************************************************************************)
(* The queue of the event loop.                                            *)
(***************************************************************************)

(* The kinds of tasks are told apart.                                       *)
LEMMA Kinds ==
  /\ Bootstrap \in Tasks /\ Shutdown \in Tasks /\ Requests \subseteq Tasks /\ Runs \subseteq Tasks
  /\ Bootstrap # Shutdown /\ Bootstrap \notin Requests \cup Runs
  /\ Shutdown \notin Requests \cup Runs
  /\ \A q \in Requests, r \in Runs : q # r
  /\ None \notin Runs
  /\ \A t \in Tasks : t \in {Bootstrap, Shutdown} \cup Requests \cup Runs
BY IngestAssumption DEF IngestAssumption, Tasks

(* The head of the queue is a task that is due.                             *)
LEMMA HeadIsDue ==
  ASSUME TypeOK, QueueInv, ready # << >>
  PROVE  Head(ready) \in Tasks /\ Due(Head(ready))
BY TailOfQueue DEF TypeOK, QueueInv

(* A step of the tasks T, none of them cancelled, makes no other task due.   *)
LEMMA DueElsewhere ==
  ASSUME TypeOK, PcInv, StopInv, NEW T \in SUBSET Tasks, T \cap cancelled = {},
         \A x \in Tasks \ T : pc'[x] = pc[x], cancelled' = cancelled,
         Bootstrap \in T => Live(Bootstrap),
         pc[Shutdown] = "worker" => latest' = latest /\ (latest \in T => Live(latest))
  PROVE  \A x \in Tasks \ T : Due(x)' <=> Due(x)
<1>. SUFFICES ASSUME NEW x \in Tasks \ T PROVE Due(x)' <=> Due(x)
  OBVIOUS
<1>1. pc'[x] = pc[x] /\ pc[x] \in PcValues
  BY DEF TypeOK
<1>2. CASE pc[x] = "bootstrap"
  <2>1. x = Shutdown
    BY <1>2, Kinds DEF PcInv, AtCheckout, InRun
  <2>2. Bootstrap \notin T
    BY <1>2, <2>1 DEF StopInv
  <2>3. Live(Bootstrap)' <=> Live(Bootstrap)
    BY <2>2, Kinds DEF Live
  <2>. QED
    BY <1>1, <1>2, <2>3 DEF Due
<1>3. CASE pc[x] = "worker"
  <2>1. x = Shutdown
    BY <1>3, Kinds DEF PcInv, AtCheckout, InRun
  <2>2. latest \in Runs /\ latest \notin T /\ latest' = latest
    BY <1>3, <2>1 DEF StopInv
  <2>3. Live(latest)' <=> Live(latest)
    BY <2>2, Kinds DEF Live
  <2>. QED
    BY <1>1, <1>3, <2>3 DEF Due
<1>4. CASE pc[x] \notin {"bootstrap", "worker"}
  BY <1>1, <1>4 DEF Due
<1>. QED
  BY <1>2, <1>3, <1>4

(* The queue after a step of its head: what the step has scheduled, and what *)
(* is due besides, is due then.                                             *)
LEMMA QueueAfter ==
  ASSUME TypeOK, QueueInv, ready # << >>, NEW m \in Seq(Tasks), Once(m),
         In(m) \cap (In(ready) \ {Head(ready)}) = {}, ready' = Tail(ready) \o m,
         \A x \in Tasks : Due(x)' <=> x \in In(m) \/ (Due(x) /\ x # Head(ready))
  PROVE  ready' \in Seq(Tasks) /\ QueueInv'
<1>1. ready \in Seq(Tasks) /\ Once(ready)
  BY DEF TypeOK, QueueInv
<1>2. /\ ready' \in Seq(Tasks) /\ Once(ready')
      /\ In(ready') = (In(ready) \ {Head(ready)}) \cup In(m)
  <2>1. /\ Tail(ready) \o m \in Seq(Tasks) /\ Once(Tail(ready) \o m)
        /\ In(Tail(ready) \o m) = (In(ready) \ {Head(ready)}) \cup In(m)
    BY <1>1, AfterHead
  <2>. QED
    BY <2>1
<1>3. In(m) \subseteq Tasks
  BY DEF In
<1>. QED
  BY <1>2, <1>3 DEF QueueInv

(* The queue when a task joins it.                                          *)
LEMMA QueueJoined ==
  ASSUME TypeOK, QueueInv, NEW t \in Tasks, ~Due(t), ready' = Append(ready, t),
         \A x \in Tasks : Due(x)' <=> x = t \/ Due(x)
  PROVE  ready' \in Seq(Tasks) /\ QueueInv'
<1>2. ready \in Seq(Tasks) /\ Once(ready) /\ t \notin In(ready)
  BY DEF TypeOK, QueueInv
<1>3. /\ Append(ready, t) \in Seq(Tasks) /\ Once(Append(ready, t))
      /\ In(Append(ready, t)) = In(ready) \cup {t}
  BY <1>2, OneMore
<1>. QED
  BY <1>3 DEF QueueInv

(* A step of one task that has its turn and is not cancelled.               *)
LEMMA OneTurn ==
  ASSUME TypeOK, PcInv, StopInv, QueueInv, NEW t \in Tasks, NEW p \in PcValues, Turn(t, pc[t]),
         NEW m, m = IF p \in {"yield"} THEN <<t>> ELSE << >>, Yield(t, p, m),
         p \in {"waiting", "git", "index", "file", "yield", "done"},
         UNCHANGED <<cancelled, latest>>
  PROVE  ready' \in Seq(Tasks) /\ QueueInv'
<1>1. ready # << >> /\ t = Head(ready) /\ t \notin cancelled /\ ready' = Tail(ready) \o m
        /\ pc' = [pc EXCEPT ![t] = p]
  BY DEF Turn, Yield
<1>2. Due(t) /\ t \in In(ready)
  BY <1>1, HeadIsDue DEF QueueInv
<1>3. Live(t)
  BY <1>2 DEF Due, Live, Ended
<1>4. \A x \in Tasks \ {t} : Due(x)' <=> Due(x)
  BY <1>1, <1>3, DueElsewhere DEF TypeOK
<1>5. pc'[t] = p
  BY <1>1 DEF TypeOK
<1>6. Due(t)' <=> p = "yield"
  BY <1>1, <1>5 DEF Due
<1>7. m \in Seq(Tasks) /\ Once(m) /\ In(m) = IF p = "yield" THEN {t} ELSE {}
  BY ShortQueues
<1>8. \A x \in Tasks : Due(x)' <=> x \in In(m) \/ (Due(x) /\ x # Head(ready))
  BY <1>1, <1>4, <1>6, <1>7
<1>. QED
  BY <1>1, <1>7, <1>8, QueueAfter

(* A task is scheduled: what it awaited has come, or it arrives.            *)
LEMMA OneCall ==
  ASSUME TypeOK, PcInv, StopInv, QueueInv, NEW t \in Tasks, ~Due(t), t \notin cancelled,
         NEW p \in {"start", "ready", "broken", "indexed", "filed", "failed"},
         pc' = [pc EXCEPT ![t] = p], ready' = Append(ready, t), UNCHANGED <<cancelled, latest>>,
         t = Bootstrap \/ t = latest => Live(t)
  PROVE  ready' \in Seq(Tasks) /\ QueueInv'
<1>1. \A x \in Tasks \ {t} : Due(x)' <=> Due(x)
  BY DueElsewhere DEF TypeOK
<1>2. Due(t)'
  BY DEF Due, TypeOK
<1>. QED
  BY <1>1, <1>2, QueueJoined

(* The stop cancels a task and awaits its end.                              *)
LEMMA OneCancel ==
  ASSUME TypeOK, PcInv, StopInv, QueueInv, ready # << >>, Head(ready) = Shutdown,
         NEW t \in {Bootstrap} \cup Runs, t \notin cancelled, Live(t), UNCHANGED latest,
         NEW p \in {"bootstrap", "worker"}, Cancel(t, p),
         p = "bootstrap" => t = Bootstrap, p = "worker" => t = latest
  PROVE  ready' \in Seq(Tasks) /\ QueueInv'
<1>1. t \in Tasks \ {Shutdown} /\ pc' = [pc EXCEPT ![Shutdown] = p] /\ cancelled' = cancelled \cup {t}
  BY Kinds DEF Cancel
<1>2. \A x \in Tasks \ {Shutdown} : pc'[x] = pc[x] /\ pc[x] \notin {"bootstrap", "worker"}
  BY <1>1, Kinds DEF TypeOK, PcInv, AtCheckout, InRun
<1>3. \A x \in Tasks \ {t, Shutdown} : Due(x)' <=> Due(x)
  BY <1>1, <1>2 DEF Due
<1>4. Live(t)' /\ pc'[Shutdown] = p
  BY <1>1, <1>2, Kinds DEF Live, TypeOK
<1>5. ~Due(Shutdown)'
  BY <1>4 DEF Due
<1>6. Due(t)'
  BY <1>1, <1>2, Kinds DEF Due, Live, Ended, PcInv, AtCheckout, InRun
<1>. DEFINE m == IF pc[t] \in {"waiting", "git", "index", "file"} THEN <<t>> ELSE << >>
<1>7. ready' = Tail(ready) \o m
  BY DEF Cancel
<1>8. Due(t) <=> pc[t] \notin {"waiting", "git", "index", "file"}
  BY <1>1, <1>2, Kinds DEF Due, Live, Ended, PcInv, AtCheckout, InRun
<1>9. m \in Seq(Tasks) /\ Once(m) /\ In(m) = {x \in {t} : ~Due(x)}
  BY <1>1, <1>8, ShortQueues
<1>10. In(m) \cap (In(ready) \ {Head(ready)}) = {}
  BY <1>9 DEF QueueInv
<1>11. \A x \in Tasks : Due(x)' <=> x \in In(m) \/ (Due(x) /\ x # Head(ready))
  BY <1>1, <1>3, <1>5, <1>6, <1>9
<1>. QED
  BY <1>7, <1>9, <1>10, <1>11, QueueAfter

(* A cancelled task ends, and who waits for its end is scheduled.           *)
LEMMA OneCancelled ==
  ASSUME TypeOK, PcInv, StopInv, QueueInv, ready # << >>, NEW t \in {Bootstrap} \cup Runs,
         Head(ready) = t, t \in cancelled, Yield(t, "done", Wakes(t)), UNCHANGED <<cancelled, latest>>
  PROVE  ready' \in Seq(Tasks) /\ QueueInv'
<1>1. t \in Tasks \ {Shutdown} /\ Due(t) /\ pc' = [pc EXCEPT ![t] = "done"]
  BY Kinds, HeadIsDue DEF Yield
<1>2. Live(t) /\ pc'[t] = "done"
  BY <1>1 DEF Due, Live, Ended, TypeOK
<1>3. \A x \in Tasks \ {t, Shutdown} : Due(x)' <=> Due(x)
  BY <1>1, Kinds DEF Due, TypeOK, PcInv, AtCheckout, InRun
<1>4. ~Due(t)'
  BY <1>2 DEF Due
<1>. DEFINE w == (t = Bootstrap /\ pc[Shutdown] = "bootstrap") \/ (t = latest /\ pc[Shutdown] = "worker")
<1>5. w => ~Due(Shutdown) /\ Due(Shutdown)'
  BY <1>1, <1>2, Kinds DEF Due, Live, Ended, TypeOK
<1>6. ~w => (Due(Shutdown)' <=> Due(Shutdown))
  BY <1>1, <1>2, Kinds DEF Due, Live, Ended, TypeOK, StopInv
<1>7. /\ Wakes(t) \in Seq(Tasks) /\ Once(Wakes(t))
      /\ In(Wakes(t)) = IF w THEN {Shutdown} ELSE {}
  BY Kinds, ShortQueues DEF Wakes
<1>8. In(Wakes(t)) \cap (In(ready) \ {Head(ready)}) = {}
  BY <1>5, <1>7 DEF QueueInv
<1>9. \A x \in Tasks : Due(x)' <=> x \in In(Wakes(t)) \/ (Due(x) /\ x # Head(ready))
  BY <1>1, <1>3, <1>4, <1>5, <1>6, <1>7
<1>. QED
  BY <1>7, <1>8, <1>9, QueueAfter DEF Yield

(* Who leaves the checkout had its lock, and grants it to the next request.  *)
LEMMA Release ==
  ASSUME TypeOK, PcInv, StopInv, LockInv, NEW t \in {Bootstrap} \cup Requests,
         pc[t] \in {"ready", "broken"}
  PROVE  /\ checkout # << >> /\ Head(checkout) = t
         /\ Released \in Seq(Tasks) /\ Once(Released) /\ In(Released) = In(checkout) \ {t}
         /\ Woken \in Seq(Tasks) /\ Once(Woken)
         /\ In(Woken) \subseteq {x \in Requests \ {t} : pc[x] = "waiting"}
         /\ \A i \in 1..Len(Released) : pc[Released[i]] = "waiting" /\ (Released[i] \in In(Woken) <=> i = 1)
<1>1. t \in Tasks /\ checkout \in Seq(Tasks) /\ t \in In(checkout)
  BY Kinds DEF TypeOK, LockInv, AtCheckout
<1>2. PICK n \in 1..Len(checkout) : checkout[n] = t
  BY <1>1 DEF In
<1>3. n = 1
  BY <1>2 DEF LockInv
<1>4. checkout # << >> /\ Head(checkout) = t
  BY <1>1, <1>2, <1>3
<1>5. Released \in Seq(Tasks) /\ Once(Released) /\ In(Released) = In(checkout) \ {t}
  BY <1>1, <1>4, TailOfQueue DEF Released, LockInv
<1>6. \A i \in 1..Len(Released) : i + 1 \in 1..Len(checkout) /\ Released[i] = checkout[i + 1]
  BY <1>1, <1>4 DEF Released
<1>7. \A i \in 1..Len(Released) : pc[Released[i]] = "waiting"
  BY <1>6 DEF LockInv
<1>8. \A x \in In(Released) : x \in Requests \ {t} /\ pc[x] = "waiting"
  <2>. SUFFICES ASSUME NEW x \in In(Released) PROVE x \in Requests \ {t} /\ pc[x] = "waiting"
    OBVIOUS
  <2>1. x \in Tasks /\ x # t /\ pc[x] = "waiting"
    BY <1>5, <1>7 DEF In, LockInv
  <2>2. x \in {Bootstrap} \cup Requests
    BY <2>1, Kinds DEF PcInv, InRun
  <2>3. x # Bootstrap
    <3>1. SUFFICES ASSUME x = Bootstrap PROVE FALSE
      OBVIOUS
    <3>2. t \in Requests /\ pc[t] \in AtCheckout
      BY <2>1, <3>1 DEF AtCheckout
    <3>3. Live(Bootstrap)
      BY <2>1, <3>1 DEF Live, Ended
    <3>. QED
      BY <3>2, <3>3 DEF LockInv
  <2>. QED
    BY <2>1, <2>2, <2>3
<1>9. CASE Released = << >>
  BY <1>4, <1>5, <1>9, ShortQueues DEF Woken
<1>10. CASE Released # << >>
  <2>1. Head(Released) \in In(Released) /\ Head(Released) = Released[1] /\ 1 \in 1..Len(Released)
    BY <1>5, <1>10, TailOfQueue
  <2>2. Woken = <<Head(Released)>>
    BY <1>10 DEF Woken
  <2>3. Head(Released) \in Tasks
    BY <1>8, <2>1, Kinds
  <2>4. Woken \in Seq(Tasks) /\ Once(Woken) /\ In(Woken) = {Head(Released)}
    BY <2>2, <2>3, ShortQueues
  <2>5. \A i \in 1..Len(Released) : Released[i] \in In(Woken) <=> i = 1
    BY <1>5, <2>1, <2>4 DEF Once
  <2>. QED
    BY <1>4, <1>5, <1>7, <1>8, <2>1, <2>4, <2>5
<1>. QED
  BY <1>9, <1>10

(* Where everybody is after the release.                                    *)
LEMMA Granting ==
  ASSUME TypeOK, NEW t \in Tasks, NEW p \in PcValues, t \notin In(Woken)
  PROVE  /\ AfterRelease(t, p) \in [Tasks -> PcValues]
         /\ AfterRelease(t, p)[t] = p
         /\ \A x \in In(Woken) \cap Tasks : AfterRelease(t, p)[x] = "granted"
         /\ \A x \in Tasks \ ({t} \cup In(Woken)) : AfterRelease(t, p)[x] = pc[x]
BY DEF AfterRelease, In, TypeOK, PcValues

(* A task ends, wakes others and may start a run.                           *)
LEMMA StartQueue ==
  ASSUME TypeOK, PcInv, StopInv, QueueInv, NEW t \in {Bootstrap} \cup Requests,
         ready # << >>, Head(ready) = t, t \notin cancelled,
         NEW m \in Seq(Tasks), Once(m), In(m) \subseteq {x \in Requests \ {t} : pc[x] = "waiting"},
         NEW at \in {"begin", "direct"}, NEW pcs \in [Tasks -> PcValues], pcs[t] = "done",
         \A x \in In(m) : pcs[x] = "granted", \A x \in Tasks \ ({t} \cup In(m)) : pcs[x] = pc[x],
         UNCHANGED cancelled,
         \/ StartWorker(t, at, Tail(ready) \o m, pcs)
         \/ ready' = Tail(ready) \o m /\ pc' = pcs /\ UNCHANGED started
  PROVE  ready' \in Seq(Tasks) /\ QueueInv'
<1>1. t \in Tasks /\ Due(t) /\ Live(t) /\ t \notin In(m) /\ Shutdown \notin {t} \cup In(m)
  <2>1. Due(t)
    BY HeadIsDue
  <2>. QED
    BY <2>1, Kinds DEF Due, Live, Ended
<1>2. pc[Shutdown] # "worker" /\ cancelled = {}
  <2>1. pc[Shutdown] \in {"off", "start"}
    BY <1>1 DEF StopInv, PcInv
  <2>. QED
    BY <2>1 DEF StopInv
<1>3. In(m) \subseteq Tasks /\ In(m) \cap cancelled = {} /\ Bootstrap \notin In(m)
  BY Kinds DEF StopInv
<1>4. \A x \in In(m) : ~Due(x)
  BY <1>3 DEF Due
<1>5. CASE ready' = Tail(ready) \o m /\ pc' = pcs /\ UNCHANGED started
  <2>1. \A x \in Tasks \ ({t} \cup In(m)) : Due(x)' <=> Due(x)
    <3>. DEFINE T == {t} \cup In(m)
    <3>1. T \in SUBSET Tasks /\ T \cap cancelled = {} /\ (Bootstrap \in T => Live(Bootstrap))
      BY <1>1, <1>3
    <3>2. \A x \in Tasks \ T : pc'[x] = pc[x]
      BY <1>5
    <3>. HIDE DEF T
    <3>3. \A x \in Tasks \ T : Due(x)' <=> Due(x)
      BY <1>2, <3>1, <3>2, DueElsewhere
    <3>. QED
      BY <3>3 DEF T
  <2>2. ~Due(t)' /\ \A x \in In(m) : Due(x)'
    BY <1>5 DEF Due
  <2>3. \A x \in Tasks : Due(x)' <=> x \in In(m) \/ (Due(x) /\ x # Head(ready))
    BY <1>1, <1>4, <2>1, <2>2
  <2>4. In(m) \cap (In(ready) \ {Head(ready)}) = {}
    BY <1>4 DEF QueueInv
  <2>. QED
    BY <1>5, <2>3, <2>4, QueueAfter
<1>6. ASSUME NEW r \in Unused, latest' = r, pc' = [pcs EXCEPT ![r] = at],
             ready' = (Tail(ready) \o m) \o <<r>>
      PROVE  ready' \in Seq(Tasks) /\ QueueInv'
  <2>1. r \in Runs /\ r \in Tasks /\ pc[r] = "off" /\ r # t /\ r \notin In(m) /\ r # Shutdown
        /\ r # Bootstrap
    BY Kinds DEF Unused
  <2>. DEFINE T == {t, r} \cup In(m)
              m2 == m \o <<r>>
  <2>2. pc' \in [Tasks -> PcValues]
    BY <1>6 DEF PcValues
  <2>3. pc'[t] = "done" /\ pc'[r] = at /\ \A x \in In(m) : pc'[x] = "granted"
    BY <1>1, <1>3, <1>6, <2>1
  <2>4. \A x \in Tasks \ T : Due(x)' <=> Due(x)
    <3>1. T \in SUBSET Tasks /\ T \cap cancelled = {} /\ (Bootstrap \in T => Live(Bootstrap))
      BY <1>1, <1>2, <1>3, <2>1
    <3>2. \A x \in Tasks \ T : pc'[x] = pc[x]
      BY <1>6, <2>1
    <3>. HIDE DEF T
    <3>. QED
      BY <1>2, <3>1, <3>2, DueElsewhere
  <2>5. ~Due(t)' /\ Due(r)' /\ \A x \in In(m) : Due(x)'
    BY <2>3 DEF Due
  <2>6. ~Due(r)
    BY <1>2, <2>1 DEF Due
  <2>7. <<r>> \in Seq(Tasks) /\ Once(<<r>>) /\ In(<<r>>) = {r} /\ In(m) \cap In(<<r>>) = {}
    BY <2>1, ShortQueues
  <2>8. m2 \in Seq(Tasks) /\ Once(m2)
    BY <2>7, JoinedQueues
  <2>9. \A x : x \in In(m2) <=> x \in In(m) \/ x = r
    <3>1. \A x : x \in In(m \o <<r>>) <=> x \in In(m) \/ x \in In(<<r>>)
      BY <2>7, JoinedQueues
    <3>. QED
      BY <2>7, <3>1
  <2>10. ready' = Tail(ready) \o m2
    <3>1. Tail(ready) \in Seq(Tasks)
      BY DEF TypeOK
    <3>. QED
      BY <1>6, <2>7, <3>1, ConcatAssociative
  <2>11. \A x \in Tasks : Due(x)' <=> x \in In(m2) \/ (Due(x) /\ x # Head(ready))
    BY <1>1, <1>4, <2>1, <2>4, <2>5, <2>9
  <2>12. In(m2) \cap (In(ready) \ {Head(ready)}) = {}
    BY <1>4, <2>6, <2>9 DEF QueueInv
  <2>. HIDE DEF m2
  <2>. QED
    BY <2>8, <2>10, <2>11, <2>12, QueueAfter
<1>. QED
  BY <1>5, <1>6 DEF StartWorker, started

(* A task is in the queue exactly when it is due, and once.                 *)
LEMMA QueueStep == IInv /\ [Next]_vars => ready' \in Seq(Tasks) /\ QueueInv'
<1>. SUFFICES ASSUME TypeOK, PcInv, StopInv, QueueInv, LockInv, [Next]_vars
              PROVE  ready' \in Seq(Tasks) /\ QueueInv'
  BY DEF IInv
<1>. USE Kinds
<1>a. ASSUME NEW t \in Tasks, NEW p \in {"waiting", "git", "index", "file", "done"},
             Turn(t, pc[t]), Yield(t, p, << >>), UNCHANGED <<cancelled, latest>>
      PROVE  ready' \in Seq(Tasks) /\ QueueInv'
  BY <1>a, OneTurn DEF PcValues, Ended
<1>1. CASE BootstrapStart
  BY <1>1, <1>a DEF BootstrapStart, Acquire, Turn, started
<1>2. CASE BootstrapCancelled
  BY <1>2, OneCancelled DEF BootstrapCancelled, started
<1>3. CASE StopBootstrap
  <2>1. Bootstrap \notin cancelled
    BY <1>3 DEF StopBootstrap, Turn, StopInv
  <2>2. /\ ready # << >> /\ Head(ready) = Shutdown /\ Live(Bootstrap)
        /\ Cancel(Bootstrap, "bootstrap") /\ UNCHANGED latest
    BY <1>3 DEF StopBootstrap, Turn, started
  <2>. QED
    BY <2>1, <2>2, OneCancel
<1>4. CASE StopWorker
  <2>1. CASE latest # None /\ Live(latest)
    <3>1. latest \in Runs /\ latest \notin cancelled
      BY <1>4, <2>1 DEF StopWorker, Turn, StopInv, TypeOK
    <3>. QED
      BY <1>4, <2>1, <3>1, OneCancel DEF StopWorker, Turn, started
  <2>2. CASE ~(latest # None /\ Live(latest))
    BY <1>4, <2>2, <1>a DEF StopWorker, Turn, started
  <2>. QED
    BY <2>1, <2>2
<1>5. CASE Stopped
  BY <1>5, <1>a DEF Stopped, Turn, started
<1>6. ASSUME NEW t \in {Bootstrap} \cup Requests, Granted(t) PROVE ready' \in Seq(Tasks) /\ QueueInv'
  BY <1>6, <1>a DEF Granted, Turn, started
<1>7. ASSUME NEW t \in {Bootstrap} \cup Requests, CheckedOut(t) \/ CheckoutFailed(t)
      PROVE  ready' \in Seq(Tasks) /\ QueueInv'
  <2>1. pc[t] \in {"ready", "broken"} /\ ready # << >> /\ Head(ready) = t /\ t \notin cancelled
    BY <1>7 DEF CheckedOut, CheckoutFailed, Turn
  <2>2. /\ Woken \in Seq(Tasks) /\ Once(Woken)
        /\ In(Woken) \subseteq {x \in Requests \ {t} : pc[x] = "waiting"}
    BY <2>1, Release
  <2>3. /\ AfterRelease(t, "done") \in [Tasks -> PcValues] /\ AfterRelease(t, "done")[t] = "done"
        /\ \A x \in In(Woken) : AfterRelease(t, "done")[x] = "granted"
        /\ \A x \in Tasks \ ({t} \cup In(Woken)) : AfterRelease(t, "done")[x] = pc[x]
    <3>1. "done" \in PcValues /\ t \in Tasks /\ t \notin In(Woken) /\ In(Woken) \subseteq Tasks
      BY <2>2 DEF PcValues, Ended
    <3>. QED
      BY <3>1, Granting
  <2>4. /\ UNCHANGED cancelled
        /\ \/ StartWorker(t, "begin", Tail(ready) \o Woken, AfterRelease(t, "done"))
           \/ /\ ready' = Tail(ready) \o Woken /\ pc' = AfterRelease(t, "done")
              /\ UNCHANGED started
    BY <1>7 DEF CheckedOut, CheckoutFailed
  <2>. QED
    BY <2>1, <2>2, <2>3, <2>4, StartQueue
<1>8. ASSUME NEW q \in Requests, Trigger(q) PROVE ready' \in Seq(Tasks) /\ QueueInv'
  <2>1. Turn(q, "start") /\ UNCHANGED cancelled /\ q \in Tasks
    BY <1>8 DEF Trigger
  <2>2. CASE TriggerRefused(q) \/ Acquire(q)
    BY <1>8, <2>1, <2>2, <1>a DEF Trigger, Acquire, Turn, started
  <2>3. CASE StartWorker(q, "direct", Tail(ready), [pc EXCEPT ![q] = "done"])
    <3>1. Tail(ready) = Tail(ready) \o << >>
      BY <2>1 DEF Turn, TypeOK
    <3>2. << >> \in Seq(Tasks) /\ Once(<< >>) /\ In(<< >>) = {}
      BY ShortQueues
    <3>3. [pc EXCEPT ![q] = "done"] \in [Tasks -> PcValues]
      BY DEF TypeOK, PcValues, Ended
    <3>4. StartWorker(q, "direct", Tail(ready) \o << >>, [pc EXCEPT ![q] = "done"])
      BY <2>3, <3>1
    <3>5. /\ [pc EXCEPT ![q] = "done"][q] = "done"
          /\ \A x \in Tasks \ {q} : [pc EXCEPT ![q] = "done"][x] = pc[x]
      BY <2>1 DEF TypeOK
    <3>. QED
      BY <2>1, <3>2, <3>3, <3>4, <3>5, StartQueue DEF Turn
  <2>. QED
    BY <1>8, <2>2, <2>3 DEF Trigger
<1>9. ASSUME NEW r \in Runs, RunBegin(r) \/ Scan(r) \/ GoOn(r) \/ RunFailed(r)
      PROVE  ready' \in Seq(Tasks) /\ QueueInv'
  BY <1>9, <1>a DEF RunBegin, Scan, GoOn, RunFailed, NextFile, Turn, started
<1>10. ASSUME NEW r \in Runs, FileDone(r) PROVE ready' \in Seq(Tasks) /\ QueueInv'
  <2>1. "yield" \in PcValues
    BY DEF PcValues
  <2>. QED
    BY <1>10, <2>1, OneTurn DEF FileDone, Turn, started
<1>11. ASSUME NEW r \in Runs, RunCancelled(r) PROVE ready' \in Seq(Tasks) /\ QueueInv'
  BY <1>11, OneCancelled DEF RunCancelled, started
<1>12. ASSUME NEW t \in {Bootstrap} \cup Requests, GitReturns(t)
       PROVE  ready' \in Seq(Tasks) /\ QueueInv'
  <2>1. ~Due(t) /\ Live(t)
    BY <1>12 DEF GitReturns, Due, Live, Ended
  <2>. QED
    BY <1>12, <2>1, OneCall DEF GitReturns, started
<1>13. ASSUME NEW r \in Runs, RunReturns(r) PROVE ready' \in Seq(Tasks) /\ QueueInv'
  <2>1. ~Due(r) /\ Live(r)
    BY <1>13 DEF RunReturns, Due, Live, Ended
  <2>2. PICK p \in {"indexed", "filed", "failed"} : pc' = [pc EXCEPT ![r] = p]
    BY <1>13 DEF RunReturns
  <2>. QED
    BY <1>13, <2>1, <2>2, OneCall DEF RunReturns, started
<1>14. CASE StopArrives
  <2>1. ~Due(Shutdown) /\ Shutdown \notin cancelled /\ Shutdown # latest
    <3>1. pc[Shutdown] = "off" /\ cancelled = {}
      BY <1>14 DEF StopArrives, StopInv
    <3>2. Shutdown # latest
      BY IngestAssumption DEF TypeOK, Tasks, IngestAssumption
    <3>. QED
      BY <3>1, <3>2 DEF Due
  <2>. QED
    BY <1>14, <2>1, OneCall DEF StopArrives, started
<1>15. ASSUME NEW q \in Requests, Arrive(q) PROVE ready' \in Seq(Tasks) /\ QueueInv'
  <2>1. ~Due(q) /\ q \notin cancelled /\ q # latest /\ q # Bootstrap
    BY <1>15, IngestAssumption DEF Arrive, Due, StopInv, TypeOK, Tasks, IngestAssumption
  <2>. QED
    BY <1>15, <2>1, OneCall DEF Arrive, started
<1>16. CASE UNCHANGED vars
  <2>1. \A x \in Tasks : Due(x)' <=> Due(x)
    BY <1>16 DEF vars, started, Due, Live
  <2>. QED
    BY <1>16, <2>1 DEF vars, QueueInv, TypeOK
<1>. QED
  BY <1>1, <1>2, <1>3, <1>4, <1>5, <1>6, <1>7, <1>8, <1>9, <1>10, <1>11, <1>12, <1>13, <1>14,
     <1>15, <1>16
  DEF Next, Step, Returns

(***************************************************************************)
(* Where the tasks are.                                                    *)
(***************************************************************************)

(* One task moves.                                                          *)
LEMMA OneMove ==
  ASSUME TypeOK, PcInv, NEW t \in Tasks, NEW p \in PcValues, pc' = [pc EXCEPT ![t] = p],
         t = Bootstrap => p \in {"start", "done"} \cup AtCheckout,
         t \in Requests => p \in {"off", "start", "done"} \cup AtCheckout,
         t \in Runs => p \in {"off", "done"} \cup InRun,
         t = Shutdown => p \in {"off", "start", "bootstrap", "worker", "done"}
  PROVE  pc' \in [Tasks -> PcValues] /\ PcInv'
<1>1. pc' \in [Tasks -> PcValues] /\ pc'[t] = p /\ \A x \in Tasks \ {t} : pc'[x] = pc[x]
  BY DEF TypeOK
<1>. QED
  BY <1>1, Kinds DEF PcInv

(* What leaving the checkout does to everybody.                             *)
LEMMA LeavingMoves ==
  ASSUME TypeOK, PcInv, StopInv, LockInv, NEW t \in {Bootstrap} \cup Requests,
         CheckedOut(t) \/ CheckoutFailed(t)
  PROVE  /\ pc' \in [Tasks -> PcValues] /\ pc'[t] = "done"
         /\ In(Woken) \subseteq {x \in Requests \ {t} : pc[x] = "waiting"}
         /\ \A x \in In(Woken) : pc'[x] = "granted"
         /\ \A x \in Tasks \ ({t} \cup In(Woken)) :
              pc'[x] = pc[x] \/ (x \in Runs /\ pc[x] = "off" /\ pc'[x] = "begin")
         /\ \/ /\ \A x \in Tasks \ ({t} \cup In(Woken)) : pc'[x] = pc[x]
               /\ UNCHANGED started /\ ready' = Tail(ready) \o Woken
            \/ \E r \in Runs :
                 /\ pc[r] = "off" /\ pc'[r] = "begin" /\ latest' = r /\ pc[t] = "ready"
                 /\ status # "running"
                 /\ overlapped' = (overlapped \/ \E s \in Runs : pc[s] = "direct")
                 /\ \A x \in Tasks \ ({t, r} \cup In(Woken)) : pc'[x] = pc[x]
                 /\ ready' = (Tail(ready) \o Woken) \o <<r>>
<1>1. pc[t] \in {"ready", "broken"} /\ t \in Tasks
  BY Kinds DEF CheckedOut, CheckoutFailed, Turn
<1>2. In(Woken) \subseteq {x \in Requests \ {t} : pc[x] = "waiting"}
  BY <1>1, Release
<1>3. "done" \in PcValues /\ t \notin In(Woken) /\ In(Woken) \subseteq Tasks
  BY <1>2, Kinds DEF PcValues, Ended
<1>. DEFINE pcs == AfterRelease(t, "done")
<1>4. /\ pcs \in [Tasks -> PcValues] /\ pcs[t] = "done" /\ \A x \in In(Woken) : pcs[x] = "granted"
      /\ \A x \in Tasks \ ({t} \cup In(Woken)) : pcs[x] = pc[x]
  BY <1>1, <1>3, Granting
<1>5. \/ pc[t] = "ready" /\ StartWorker(t, "begin", Tail(ready) \o Woken, pcs)
      \/ pc' = pcs /\ UNCHANGED started /\ ready' = Tail(ready) \o Woken
  BY DEF CheckedOut, CheckoutFailed, Turn
<1>. HIDE DEF pcs
<1>6. CASE pc' = pcs /\ UNCHANGED started /\ ready' = Tail(ready) \o Woken
  BY <1>2, <1>4, <1>6
<1>7. ASSUME NEW r \in Unused, pc[t] = "ready", latest' = r, pc' = [pcs EXCEPT ![r] = "begin"],
             ready' = (Tail(ready) \o Woken) \o <<r>>, status # "running",
             overlapped' = (overlapped \/ \E s \in Runs :
                              pc[s] \in Scheduled /\ "direct" \in {"begin", pc[s]})
      PROVE  \E s \in Runs :
                 /\ pc[s] = "off" /\ pc'[s] = "begin" /\ latest' = s
                 /\ overlapped' = (overlapped \/ \E v \in Runs : pc[v] = "direct")
                 /\ \A x \in Tasks \ ({t, s} \cup In(Woken)) : pc'[x] = pc[x]
                 /\ ready' = (Tail(ready) \o Woken) \o <<s>>
                 /\ pc' \in [Tasks -> PcValues] /\ pc'[t] = "done"
                 /\ \A x \in Tasks \ ({t} \cup In(Woken)) :
                      pc'[x] = pc[x] \/ (x \in Runs /\ pc[x] = "off" /\ pc'[x] = "begin")
                 /\ \A x \in In(Woken) : pc'[x] = "granted"
  <2>1. r \in Runs /\ r \in Tasks /\ pc[r] = "off" /\ r # t /\ r \notin In(Woken)
    BY <1>1, <1>2, Kinds DEF Unused
  <2>2. pc' \in [Tasks -> PcValues]
    BY <1>4, <1>7 DEF PcValues
  <2>3. pc'[r] = "begin" /\ pc'[t] = "done" /\ (\A x \in In(Woken) : pc'[x] = "granted")
        /\ \A x \in Tasks \ ({t, r} \cup In(Woken)) : pc'[x] = pc[x]
    BY <1>1, <1>3, <1>4, <1>7, <2>1
  <2>4. overlapped' = (overlapped \/ \E v \in Runs : pc[v] = "direct")
    BY <1>7 DEF Scheduled
  <2>5. \A x \in Tasks \ ({t} \cup In(Woken)) :
          pc'[x] = pc[x] \/ (x \in Runs /\ pc[x] = "off" /\ pc'[x] = "begin")
    BY <2>1, <2>3
  <2>. QED
    BY <1>7, <2>1, <2>2, <2>3, <2>4, <2>5
<1>. QED
  BY <1>2, <1>5, <1>6, <1>7 DEF StartWorker, started

(* What a trigger with a directory does when it starts a run.               *)
LEMMA DirectMoves ==
  ASSUME TypeOK, NEW q \in Requests, Turn(q, "start"),
         StartWorker(q, "direct", Tail(ready), [pc EXCEPT ![q] = "done"])
  PROVE  /\ pc' \in [Tasks -> PcValues] /\ pc'[q] = "done"
         /\ \/ /\ \A x \in Tasks \ {q} : pc'[x] = pc[x]
               /\ UNCHANGED started /\ ready' = Tail(ready)
            \/ \E r \in Runs :
                 /\ pc[r] = "off" /\ pc'[r] = "direct" /\ latest' = r /\ status # "running"
                 /\ overlapped' = (overlapped \/ \E s \in Runs : pc[s] \in Scheduled)
                 /\ \A x \in Tasks \ {q, r} : pc'[x] = pc[x]
                 /\ ready' = Tail(ready) \o <<r>>
<1>1. q \in Tasks /\ "done" \in PcValues /\ "direct" \in PcValues
  BY Kinds DEF PcValues, Ended
<1>2. CASE status = "running"
  BY <1>1, <1>2 DEF StartWorker, TypeOK
<1>3. CASE status # "running"
  <2>1. PICK r \in Unused :
          /\ latest' = r /\ pc' = [[pc EXCEPT ![q] = "done"] EXCEPT ![r] = "direct"]
          /\ overlapped' = (overlapped \/ \E s \in Runs :
                              pc[s] \in Scheduled /\ "direct" \in {"direct", pc[s]})
          /\ ready' = Tail(ready) \o <<r>>
    BY <1>3 DEF StartWorker
  <2>2. r \in Runs /\ r \in Tasks /\ pc[r] = "off" /\ r # q
    BY Kinds DEF Unused
  <2>3. pc' \in [Tasks -> PcValues]
    BY <1>1, <2>1 DEF TypeOK
  <2>4. pc'[q] = "done" /\ pc'[r] = "direct" /\ \A x \in Tasks \ {q, r} : pc'[x] = pc[x]
    BY <1>1, <2>1, <2>2 DEF TypeOK
  <2>5. overlapped' = (overlapped \/ \E s \in Runs : pc[s] \in Scheduled)
    BY <2>1
  <2>. QED
    BY <1>3, <2>1, <2>2, <2>3, <2>4, <2>5
<1>. QED
  BY <1>2, <1>3

(* Each task stays where tasks of its kind can be.                          *)
LEMMA PcStep == IInv /\ [Next]_vars => pc' \in [Tasks -> PcValues] /\ PcInv'
<1>. SUFFICES ASSUME TypeOK, PcInv, StopInv, QueueInv, LockInv, [Next]_vars
              PROVE  pc' \in [Tasks -> PcValues] /\ PcInv'
  BY DEF IInv
<1>. USE Kinds DEF PcValues, Ended, AtCheckout, InRun
<1>a. ASSUME NEW t \in {Bootstrap} \cup Requests,
             NEW p \in {"start", "waiting", "granted", "git", "ready", "broken", "done"},
             pc' = [pc EXCEPT ![t] = p]
      PROVE  pc' \in [Tasks -> PcValues] /\ PcInv'
  BY <1>a, OneMove
<1>b. ASSUME NEW r \in Runs,
             NEW p \in {"index", "indexed", "file", "filed", "yield", "failed", "done"},
             pc' = [pc EXCEPT ![r] = p]
      PROVE  pc' \in [Tasks -> PcValues] /\ PcInv'
  BY <1>b, OneMove
<1>c. ASSUME NEW p \in {"start", "bootstrap", "worker", "done"}, pc' = [pc EXCEPT ![Shutdown] = p]
      PROVE  pc' \in [Tasks -> PcValues] /\ PcInv'
  BY <1>c, OneMove
<1>1. CASE BootstrapStart \/ BootstrapCancelled
  BY <1>1, <1>a DEF BootstrapStart, BootstrapCancelled, Acquire, Yield
<1>2. CASE StopBootstrap \/ StopWorker \/ Stopped \/ StopArrives
  BY <1>2, <1>c DEF StopBootstrap, StopWorker, Stopped, StopArrives, Yield, Cancel
<1>3. ASSUME NEW t \in {Bootstrap} \cup Requests, Granted(t) \/ GitReturns(t)
      PROVE  pc' \in [Tasks -> PcValues] /\ PcInv'
  BY <1>3, <1>a DEF Granted, GitReturns, Yield
<1>4. ASSUME NEW t \in {Bootstrap} \cup Requests, CheckedOut(t) \/ CheckoutFailed(t)
      PROVE  pc' \in [Tasks -> PcValues] /\ PcInv'
  <2>1. /\ pc' \in [Tasks -> PcValues] /\ pc'[t] = "done" /\ In(Woken) \subseteq Requests
        /\ \A x \in In(Woken) : pc'[x] = "granted"
        /\ \/ \A x \in Tasks \ ({t} \cup In(Woken)) : pc'[x] = pc[x]
           \/ \E r \in Runs :
                pc'[r] = "begin" /\ \A x \in Tasks \ ({t, r} \cup In(Woken)) : pc'[x] = pc[x]
    BY <1>4, LeavingMoves
  <2>. QED
    BY <2>1 DEF PcInv
<1>5. ASSUME NEW q \in Requests, Trigger(q) PROVE pc' \in [Tasks -> PcValues] /\ PcInv'
  <2>1. CASE TriggerRefused(q) \/ Acquire(q)
    BY <1>5, <2>1, <1>a DEF Trigger, Acquire, Yield
  <2>2. CASE StartWorker(q, "direct", Tail(ready), [pc EXCEPT ![q] = "done"])
    <3>1. /\ pc' \in [Tasks -> PcValues] /\ pc'[q] = "done"
          /\ \/ \A x \in Tasks \ {q} : pc'[x] = pc[x]
             \/ \E r \in Runs :
                  pc'[r] = "direct" /\ \A x \in Tasks \ {q, r} : pc'[x] = pc[x]
      BY <1>5, <2>2, DirectMoves DEF Trigger
    <3>. QED
      BY <3>1 DEF PcInv
  <2>. QED
    BY <1>5, <2>1, <2>2 DEF Trigger
<1>6. ASSUME NEW r \in Runs,
             RunBegin(r) \/ Scan(r) \/ FileDone(r) \/ GoOn(r) \/ RunFailed(r) \/ RunCancelled(r)
      PROVE  pc' \in [Tasks -> PcValues] /\ PcInv'
  BY <1>6, <1>b
  DEF RunBegin, Scan, FileDone, GoOn, RunFailed, RunCancelled, NextFile, Yield
<1>7. ASSUME NEW r \in Runs, RunReturns(r) PROVE pc' \in [Tasks -> PcValues] /\ PcInv'
  BY <1>7, <1>b DEF RunReturns
<1>8. ASSUME NEW q \in Requests, Arrive(q) PROVE pc' \in [Tasks -> PcValues] /\ PcInv'
  BY <1>8, <1>a DEF Arrive
<1>9. CASE UNCHANGED vars
  BY <1>9 DEF vars, TypeOK, PcInv
<1>. QED
  BY <1>1, <1>2, <1>3, <1>4, <1>5, <1>6, <1>7, <1>8, <1>9 DEF Next, Step, Returns

(***************************************************************************)
(* The lock of the checkout.                                               *)
(***************************************************************************)

(* A task that is not at the checkout does not go there, one that is stays. *)
LEMMA LockSame ==
  ASSUME TypeOK, LockInv, UNCHANGED checkout,
         \A x \in Tasks : pc'[x] \in AtCheckout <=> pc[x] \in AtCheckout,
         \A x \in Tasks : pc'[x] = "waiting" <=> pc[x] = "waiting",
         Live(Bootstrap)' => Live(Bootstrap) \/ \A q \in Requests : pc[q] \notin AtCheckout
  PROVE  LockInv'
<1>1. Once(checkout) /\ In(checkout)' = In(checkout) /\ Len(checkout)' = Len(checkout)
  BY DEF LockInv
<1>2. \A i \in 1..Len(checkout) : checkout[i] \in Tasks
  BY DEF LockInv, In
<1>. QED
  BY <1>1, <1>2, Kinds DEF LockInv

(* The bootstrap and the requests join the queue of the lock at its end.    *)
LEMMA LockJoined ==
  ASSUME TypeOK, PcInv, LockInv, NEW t \in {Bootstrap} \cup Requests, pc[t] = "start",
         Acquire(t), t = Bootstrap \/ ~Live(Bootstrap)
  PROVE  LockInv' /\ checkout' \in Seq(Tasks)
<1>1. t \in Tasks /\ t \notin In(checkout) /\ checkout \in Seq(Tasks) /\ Once(checkout)
  BY Kinds DEF LockInv, AtCheckout, TypeOK
<1>2. checkout' \in Seq(Tasks) /\ Once(checkout') /\ In(checkout') = In(checkout) \cup {t}
  <2>1. /\ Append(checkout, t) \in Seq(Tasks) /\ Once(Append(checkout, t))
        /\ In(Append(checkout, t)) = In(checkout) \cup {t}
    BY <1>1, OneMore
  <2>. QED
    BY <2>1 DEF Acquire
<1>3. /\ pc'[t] = IF checkout = << >> THEN "git" ELSE "waiting"
      /\ \A x \in Tasks \ {t} : pc'[x] = pc[x]
  BY <1>1 DEF Acquire, Yield, TypeOK
<1>4. In(checkout') = {x \in Tasks : pc'[x] \in AtCheckout}
  BY <1>1, <1>2, <1>3 DEF LockInv, AtCheckout
<1>5. \A i \in 1..Len(checkout') : pc'[checkout'[i]] = "waiting" <=> i > 1
  <2>1. Len(checkout') = Len(checkout) + 1 /\ checkout'[Len(checkout) + 1] = t
        /\ \A i \in 1..Len(checkout) : checkout'[i] = checkout[i]
    BY <1>1 DEF Acquire
  <2>2. \A i \in 1..Len(checkout) : checkout[i] \in Tasks \ {t}
    BY <1>1 DEF In
  <2>3. \A i \in 1..Len(checkout) : pc'[checkout'[i]] = "waiting" <=> i > 1
    BY <1>3, <2>1, <2>2 DEF LockInv
  <2>4. pc'[t] = "waiting" <=> Len(checkout) + 1 > 1
    BY <1>1, <1>3
  <2>. QED
    BY <1>1, <2>1, <2>3, <2>4
<1>6. Live(Bootstrap)' => \A q \in Requests : pc'[q] \notin AtCheckout
  BY <1>3, Kinds DEF LockInv, Live, Ended
<1>. QED
  BY <1>2, <1>4, <1>5, <1>6 DEF LockInv, Once, In

(* The lock goes on to the first waiter.                                    *)
LEMMA LockLeft ==
  ASSUME TypeOK, PcInv, StopInv, LockInv, NEW t \in {Bootstrap} \cup Requests,
         CheckedOut(t) \/ CheckoutFailed(t)
  PROVE  LockInv' /\ checkout' \in Seq(Tasks)
<1>1. pc[t] \in {"ready", "broken"} /\ checkout' = Released /\ t \in Tasks
  BY Kinds DEF CheckedOut, CheckoutFailed, Turn
<1>2. /\ Released \in Seq(Tasks) /\ Once(Released) /\ In(Released) = In(checkout) \ {t}
      /\ \A i \in 1..Len(Released) :
           pc[Released[i]] = "waiting" /\ (Released[i] \in In(Woken) <=> i = 1)
  BY <1>1, Release
<1>3. /\ pc'[t] = "done" /\ In(Woken) \subseteq {x \in Requests \ {t} : pc[x] = "waiting"}
      /\ \A x \in In(Woken) : pc'[x] = "granted"
      /\ \A x \in Tasks \ ({t} \cup In(Woken)) :
           pc'[x] = pc[x] \/ (x \in Runs /\ pc[x] = "off" /\ pc'[x] = "begin")
  BY LeavingMoves
<1>4. In(checkout') = {x \in Tasks : pc'[x] \in AtCheckout}
  <2>1. t \notin In(Woken) /\ \A x \in In(Woken) : x \in Tasks /\ pc[x] = "waiting"
    BY <1>3, Kinds
  <2>2. \A x \in Tasks : x # t => (pc'[x] \in AtCheckout <=> pc[x] \in AtCheckout)
    BY <1>3, <2>1 DEF AtCheckout
  <2>3. pc'[t] \notin AtCheckout
    BY <1>3 DEF AtCheckout
  <2>4. In(checkout) = {x \in Tasks : pc[x] \in AtCheckout}
    BY DEF LockInv
  <2>. QED
    BY <1>1, <1>2, <2>2, <2>3, <2>4
<1>5. \A i \in 1..Len(checkout') : pc'[checkout'[i]] = "waiting" <=> i > 1
  <2>. SUFFICES ASSUME NEW i \in 1..Len(Released) PROVE pc'[Released[i]] = "waiting" <=> i > 1
    BY <1>1
  <2>1. Released[i] \in Tasks \ {t} /\ i \in Nat /\ i >= 1
    BY <1>2 DEF In, LockInv
  <2>2. CASE i = 1
    BY <1>2, <1>3, <2>2
  <2>3. CASE i # 1
    BY <1>2, <1>3, <2>1, <2>3
  <2>. QED
    BY <2>2, <2>3
<1>6. Live(Bootstrap)' => \A q \in Requests : pc'[q] \notin AtCheckout
  <2>1. CASE t = Bootstrap
    BY <1>3, <2>1 DEF Live, Ended
  <2>2. CASE t \in Requests
    <3>1. pc[t] \in AtCheckout
      BY <1>1 DEF AtCheckout
    <3>2. ~Live(Bootstrap)
      BY <2>2, <3>1 DEF LockInv
    <3>3. pc'[Bootstrap] = pc[Bootstrap]
      BY <1>3, <2>2, Kinds
    <3>. QED
      BY <3>2, <3>3 DEF Live
  <2>. QED
    BY <2>1, <2>2
<1>. QED
  BY <1>1, <1>2, <1>4, <1>5, <1>6 DEF LockInv, Once, In

(* The bootstrap leaves the lock when it is cancelled, and nobody waits.    *)
LEMMA LockCancelled ==
  ASSUME TypeOK, PcInv, QueueInv, LockInv, BootstrapCancelled
  PROVE  LockInv' /\ checkout' \in Seq(Tasks)
<1>1. Live(Bootstrap) /\ Bootstrap \in Tasks
  <2>1. Due(Bootstrap)
    BY HeadIsDue DEF BootstrapCancelled
  <2>. QED
    BY <2>1, Kinds DEF Due, Live, Ended, PcInv, AtCheckout
<1>2. \A x \in Tasks : pc[x] \in AtCheckout => x = Bootstrap
  <2>1. \A q \in Requests : pc[q] \notin AtCheckout
    BY <1>1 DEF LockInv
  <2>2. \A r \in Runs : pc[r] \notin AtCheckout
    BY DEF PcInv, AtCheckout, InRun
  <2>3. pc[Shutdown] \notin AtCheckout
    BY DEF PcInv, AtCheckout
  <2>. QED
    BY <2>1, <2>2, <2>3, Kinds
<1>3. \A i \in 1..Len(checkout) : checkout[i] = Bootstrap /\ i = 1
  <2>1. \A i \in 1..Len(checkout) : checkout[i] = Bootstrap
    BY <1>2 DEF LockInv, In
  <2>2. Len(checkout) \in Nat
    BY DEF TypeOK
  <2>. QED
    BY <2>1, <2>2 DEF LockInv, Once
<1>4. checkout' = << >>
  <2>1. checkout \in Seq(Tasks) /\ Len(checkout) \in Nat
    BY DEF TypeOK
  <2>2. ASSUME NEW i \in 1..Len(checkout),
               checkout' = SubSeq(checkout, 1, i - 1) \o SubSeq(checkout, i + 1, Len(checkout))
        PROVE  checkout' = << >>
    <3>1. i = 1 /\ Len(checkout) = 1
      <4>1. Len(checkout) \in 1..Len(checkout)
        BY <2>1
      <4>. QED
        BY <1>3, <4>1
    <3>2. SubSeq(checkout, 1, 0) = << >> /\ SubSeq(checkout, 2, 1) = << >>
      BY <2>1
    <3>. QED
      BY <2>2, <3>1, <3>2
  <2>3. ASSUME Bootstrap \notin {checkout[i] : i \in 1..Len(checkout)}, UNCHANGED checkout
        PROVE  checkout' = << >>
    <3>1. Len(checkout) = 0
      BY <1>3, <2>1, <2>3
    <3>. QED
      BY <2>1, <2>3, <3>1
  <2>. QED
    BY <2>2, <2>3 DEF BootstrapCancelled
<1>5. pc'[Bootstrap] = "done" /\ \A x \in Tasks \ {Bootstrap} : pc'[x] = pc[x]
  BY <1>1 DEF BootstrapCancelled, Yield, TypeOK
<1>6. Once(checkout') /\ In(checkout') = {} /\ checkout' \in Seq(Tasks) /\ 1..Len(checkout') = {}
  BY <1>4, ShortQueues
<1>7. {x \in Tasks : pc'[x] \in AtCheckout} = {}
  BY <1>2, <1>5 DEF AtCheckout
<1>8. ~Live(Bootstrap)'
  BY <1>5 DEF Live, Ended
<1>. QED
  BY <1>6, <1>7, <1>8 DEF LockInv, Once, In

(* The queue of the lock is in order.                                       *)
LEMMA LockStep == IInv /\ [Next]_vars => LockInv' /\ checkout' \in Seq(Tasks)
<1>. SUFFICES ASSUME TypeOK, PcInv, StopInv, QueueInv, LockInv, [Next]_vars
              PROVE  LockInv' /\ checkout' \in Seq(Tasks)
  BY DEF IInv
<1>. USE Kinds
<1>a. ASSUME UNCHANGED checkout, NEW t \in Tasks, NEW p, pc' = [pc EXCEPT ![t] = p],
             \/ pc[t] \notin AtCheckout /\ p \notin AtCheckout /\ t # Bootstrap
             \/ pc[t] \in {"granted", "git"} /\ p \in {"git", "ready", "broken"}
      PROVE  LockInv' /\ checkout' \in Seq(Tasks)
  <2>1. pc'[t] = p /\ \A x \in Tasks \ {t} : pc'[x] = pc[x]
    BY <1>a DEF TypeOK
  <2>2. Live(Bootstrap)' => Live(Bootstrap)
    BY <1>a, <2>1 DEF Live, Ended
  <2>3. \A x \in Tasks : (pc'[x] \in AtCheckout <=> pc[x] \in AtCheckout)
                           /\ (pc'[x] = "waiting" <=> pc[x] = "waiting")
    BY <1>a, <2>1 DEF AtCheckout
  <2>. QED
    BY <1>a, <2>2, <2>3, LockSame DEF TypeOK
<1>1. CASE BootstrapStart
  BY <1>1, LockJoined DEF BootstrapStart, Turn
<1>2. CASE BootstrapCancelled
  BY <1>2, LockCancelled
<1>3. CASE StopBootstrap \/ StopWorker \/ Stopped \/ StopArrives
  BY <1>3, <1>a DEF StopBootstrap, StopWorker, Stopped, StopArrives, Yield, Cancel, PcInv, AtCheckout
<1>4. ASSUME NEW t \in {Bootstrap} \cup Requests, Granted(t) \/ GitReturns(t)
      PROVE  LockInv' /\ checkout' \in Seq(Tasks)
  <2>1. pc[t] \in {"granted", "git"} /\ UNCHANGED checkout
    BY <1>4 DEF Granted, GitReturns, Turn
  <2>2. PICK p \in {"git", "ready", "broken"} : pc' = [pc EXCEPT ![t] = p]
    BY <1>4 DEF Granted, GitReturns, Yield
  <2>. QED
    BY <2>1, <2>2, <1>a
<1>5. ASSUME NEW t \in {Bootstrap} \cup Requests, CheckedOut(t) \/ CheckoutFailed(t)
      PROVE  LockInv' /\ checkout' \in Seq(Tasks)
  BY <1>5, LockLeft
<1>6. ASSUME NEW q \in Requests, Trigger(q) PROVE LockInv' /\ checkout' \in Seq(Tasks)
  <2>1. CASE TriggerRefused(q)
    BY <1>6, <2>1, <1>a DEF Trigger, Turn, Yield, AtCheckout
  <2>2. CASE ~TriggerRefused(q) /\ Acquire(q)
    BY <1>6, <2>2, LockJoined DEF Trigger, Turn, TriggerRefused
  <2>3. CASE StartWorker(q, "direct", Tail(ready), [pc EXCEPT ![q] = "done"]) /\ UNCHANGED checkout
    <3>1. /\ pc'[q] = "done" /\ pc[q] = "start"
          /\ \A x \in Tasks \ {q} :
               pc'[x] = pc[x] \/ (x \in Runs /\ pc[x] = "off" /\ pc'[x] = "direct")
      BY <1>6, <2>3, DirectMoves DEF Trigger, Turn
    <3>2. \A x \in Tasks : (pc'[x] \in AtCheckout <=> pc[x] \in AtCheckout)
                             /\ (pc'[x] = "waiting" <=> pc[x] = "waiting")
      BY <3>1 DEF AtCheckout
    <3>3. Live(Bootstrap)' => Live(Bootstrap)
      BY <3>1 DEF Live
    <3>. QED
      BY <2>3, <3>2, <3>3, LockSame DEF TypeOK
  <2>. QED
    BY <1>6, <2>1, <2>2, <2>3 DEF Trigger
<1>7. ASSUME NEW r \in Runs,
             RunBegin(r) \/ Scan(r) \/ FileDone(r) \/ GoOn(r) \/ RunFailed(r) \/ RunCancelled(r)
      PROVE  LockInv' /\ checkout' \in Seq(Tasks)
  <2>1. pc[r] \notin AtCheckout
    BY DEF PcInv, AtCheckout, InRun
  <2>2. UNCHANGED checkout
    BY <1>7 DEF RunBegin, Scan, FileDone, GoOn, RunFailed, RunCancelled
  <2>3. PICK p \in {"index", "file", "yield", "done"} : pc' = [pc EXCEPT ![r] = p]
    BY <1>7 DEF RunBegin, Scan, FileDone, GoOn, RunFailed, RunCancelled, NextFile, Yield
  <2>. QED
    BY <2>1, <2>2, <2>3, <1>a DEF AtCheckout
<1>8. ASSUME NEW r \in Runs, RunReturns(r) PROVE LockInv' /\ checkout' \in Seq(Tasks)
  <2>1. pc[r] \in {"index", "file"} /\ UNCHANGED checkout
    BY <1>8 DEF RunReturns
  <2>2. PICK p \in {"indexed", "filed", "failed"} : pc' = [pc EXCEPT ![r] = p]
    BY <1>8 DEF RunReturns
  <2>. QED
    BY <2>1, <2>2, <1>a DEF AtCheckout
<1>9. ASSUME NEW q \in Requests, Arrive(q) PROVE LockInv' /\ checkout' \in Seq(Tasks)
  <2>1. pc[q] = "off" /\ UNCHANGED checkout /\ pc' = [pc EXCEPT ![q] = "start"]
    BY <1>9 DEF Arrive
  <2>. QED
    BY <2>1, <1>a DEF AtCheckout
<1>10. CASE UNCHANGED vars
  BY <1>10 DEF vars, TypeOK, LockInv, Live, Once, In
<1>. QED
  BY <1>1, <1>2, <1>3, <1>4, <1>5, <1>6, <1>7, <1>8, <1>9, <1>10 DEF Next, Step, Returns

(***************************************************************************)
(* The order of the event loop.                                            *)
(***************************************************************************)

(* The order is kept when no run begins to wait for its turn and who comes   *)
(* from the checkout joins the queue at its end.                            *)
LEMMA OrderSame ==
  ASSUME TypeOK, OrderInv, NEW m \in Seq(Tasks),
         ready' = ready \o m \/ (ready # << >> /\ ready' = Tail(ready) \o m),
         \A x \in Tasks : pc'[x] = "ready" => pc[x] = "ready" \/ x \notin In(ready),
         \A x \in Tasks : pc'[x] = "begin" => pc[x] = "begin" /\ x \notin In(m)
  PROVE  OrderInv'
<1>1. ReadyTasks' \cap In(ready) \subseteq ReadyTasks
  BY DEF ReadyTasks
<1>2. BeginTasks' \cap In(ready) \subseteq BeginTasks /\ BeginTasks' \cap In(m) = {}
  BY DEF BeginTasks
<1>3. ready \in Seq(Tasks) /\ Behind(ready, ReadyTasks, BeginTasks)
  BY DEF OrderInv, TypeOK
<1>4. /\ Behind(ready \o m, ReadyTasks', BeginTasks')
      /\ ready # << >> => Behind(Tail(ready) \o m, ReadyTasks', BeginTasks')
  BY <1>1, <1>2, <1>3, OrderKept
<1>5. Behind(ready', ReadyTasks', BeginTasks')
  BY <1>4
<1>. QED
  BY <1>5 DEF OrderInv, Behind

(* When its head leaves the checkout no other task comes from there.         *)
LEMMA OrderLeft ==
  ASSUME TypeOK, PcInv, StopInv, LockInv, NEW t \in {Bootstrap} \cup Requests,
         CheckedOut(t) \/ CheckoutFailed(t)
  PROVE  OrderInv'
<1>1. pc[t] \in {"ready", "broken"} /\ t \in Tasks
  BY Kinds DEF CheckedOut, CheckoutFailed, Turn
<1>2. ASSUME NEW x \in Tasks, pc[x] = "ready" PROVE x = t
  <2>1. x \in In(checkout) /\ t \in In(checkout)
    BY <1>1, <1>2 DEF LockInv, AtCheckout
  <2>2. PICK i \in 1..Len(checkout), j \in 1..Len(checkout) : checkout[i] = x /\ checkout[j] = t
    BY <2>1 DEF In
  <2>3. i = 1 /\ j = 1
    BY <1>1, <1>2, <2>2 DEF LockInv
  <2>. QED
    BY <2>2, <2>3
<1>3. \A x \in Tasks : pc'[x] # "ready"
  <2>1. /\ pc'[t] = "done" /\ In(Woken) \subseteq {x \in Requests \ {t} : pc[x] = "waiting"}
        /\ \A x \in In(Woken) : pc'[x] = "granted"
        /\ \A x \in Tasks \ ({t} \cup In(Woken)) : pc'[x] = pc[x] \/ pc'[x] = "begin"
    BY LeavingMoves
  <2>. QED
    BY <1>2, <2>1
<1>4. ReadyTasks' = {}
  BY <1>3 DEF ReadyTasks
<1>. QED
  BY <1>4 DEF OrderInv, Behind

(* Who comes from the checkout stands behind the runs that have not begun.   *)
LEMMA OrderStep == IInv /\ [Next]_vars => OrderInv'
<1>. SUFFICES ASSUME TypeOK, PcInv, StopInv, QueueInv, LockInv, OrderInv, [Next]_vars
              PROVE  OrderInv'
  BY DEF IInv
<1>. USE Kinds, ShortQueues
<1>a. ASSUME NEW t \in Tasks, ready # << >>,
             NEW p \in {"waiting", "git", "index", "file", "yield", "done"}, Yield(t, p, << >>)
      PROVE  OrderInv'
  BY <1>a, OrderSame DEF Yield, TypeOK
<1>b. ASSUME NEW t \in Tasks, ready # << >>, NEW u \in Tasks, NEW p \in {"yield", "done"},
             Yield(t, p, <<u>>), u = t \/ pc[u] # "begin"
      PROVE  OrderInv'
  <2>1. pc'[t] = p /\ \A x \in Tasks \ {t} : pc'[x] = pc[x]
    BY <1>b DEF Yield, TypeOK
  <2>2. <<u>> \in Seq(Tasks) /\ In(<<u>>) = {u}
    OBVIOUS
  <2>. QED
    BY <1>b, <2>1, <2>2, OrderSame DEF Yield
<1>c. ASSUME NEW t \in Tasks, ~Due(t), ready' = Append(ready, t),
             NEW p \in {"start", "ready", "broken", "indexed", "filed", "failed"},
             pc' = [pc EXCEPT ![t] = p]
      PROVE  OrderInv'
  <2>1. pc'[t] = p /\ \A x \in Tasks \ {t} : pc'[x] = pc[x]
    BY <1>c DEF TypeOK
  <2>2. ready' = ready \o <<t>> /\ <<t>> \in Seq(Tasks) /\ In(<<t>>) = {t} /\ t \notin In(ready)
    BY <1>c DEF TypeOK, QueueInv
  <2>3. \A x \in Tasks : pc'[x] = "ready" => pc[x] = "ready" \/ x \notin In(ready)
    BY <2>1, <2>2
  <2>4. \A x \in Tasks : pc'[x] = "begin" => pc[x] = "begin" /\ x \notin In(<<t>>)
    BY <2>1, <2>2
  <2>. QED
    BY <2>2, <2>3, <2>4, OrderSame
<1>d. ASSUME NEW t \in {Bootstrap} \cup Runs, NEW p \in {"bootstrap", "worker"}, ready # << >>,
             Cancel(t, p)
      PROVE  OrderInv'
  <2>1. pc'[Shutdown] = p /\ \A x \in Tasks \ {Shutdown} : pc'[x] = pc[x]
    BY <1>d DEF Cancel, TypeOK
  <2>. DEFINE m == IF pc[t] \in {"waiting", "git", "index", "file"} THEN <<t>> ELSE << >>
  <2>2. ready' = Tail(ready) \o m
    BY <1>d DEF Cancel
  <2>3. m \in Seq(Tasks) /\ \A x \in In(m) : pc[x] # "begin" /\ x # Shutdown
    OBVIOUS
  <2>4. \A x \in Tasks : pc'[x] = "begin" => pc[x] = "begin" /\ x \notin In(m)
    BY <2>1, <2>3
  <2>5. \A x \in Tasks : pc'[x] = "ready" => pc[x] = "ready"
    BY <2>1
  <2>. HIDE DEF m
  <2>. QED
    BY <1>d, <2>2, <2>3, <2>4, <2>5, OrderSame
<1>1. CASE BootstrapStart
  BY <1>1, <1>a DEF BootstrapStart, Acquire, Turn
<1>2. CASE BootstrapCancelled
  BY <1>2, <1>a, <1>b DEF BootstrapCancelled, Wakes, PcInv
<1>3. CASE StopBootstrap
  BY <1>3, <1>d DEF StopBootstrap, Turn
<1>4. CASE StopWorker
  BY <1>4, <1>a, <1>d DEF StopWorker, Turn, TypeOK
<1>5. CASE Stopped
  BY <1>5, <1>a DEF Stopped, Turn
<1>6. ASSUME NEW t \in {Bootstrap} \cup Requests, Granted(t) PROVE OrderInv'
  BY <1>6, <1>a DEF Granted, Turn
<1>7. ASSUME NEW t \in {Bootstrap} \cup Requests, CheckedOut(t) \/ CheckoutFailed(t) PROVE OrderInv'
  BY <1>7, OrderLeft
<1>8. ASSUME NEW q \in Requests, Trigger(q) PROVE OrderInv'
  <2>1. CASE TriggerRefused(q) \/ Acquire(q)
    BY <1>8, <2>1, <1>a DEF Trigger, Acquire, Turn
  <2>2. CASE StartWorker(q, "direct", Tail(ready), [pc EXCEPT ![q] = "done"])
    <3>1. pc'[q] = "done" /\ pc[q] = "start" /\ ready # << >>
      BY <1>8, <2>2, DirectMoves DEF Trigger, Turn
    <3>2. CASE (\A x \in Tasks \ {q} : pc'[x] = pc[x]) /\ ready' = Tail(ready)
      <4>1. ready' = Tail(ready) \o << >>
        BY <3>1, <3>2 DEF TypeOK
      <4>. QED
        BY <3>1, <3>2, <4>1, OrderSame
    <3>3. ASSUME NEW r \in Runs, pc'[r] = "direct", \A x \in Tasks \ {q, r} : pc'[x] = pc[x],
                 ready' = Tail(ready) \o <<r>>
          PROVE  OrderInv'
      <4>1. <<r>> \in Seq(Tasks) /\ In(<<r>>) = {r}
        OBVIOUS
      <4>. QED
        BY <3>1, <3>3, <4>1, OrderSame
    <3>. QED
      BY <1>8, <2>2, <3>2, <3>3, DirectMoves DEF Trigger
  <2>. QED
    BY <1>8, <2>1, <2>2 DEF Trigger
<1>9. ASSUME NEW r \in Runs, RunBegin(r) \/ Scan(r) \/ GoOn(r) \/ RunFailed(r) PROVE OrderInv'
  BY <1>9, <1>a DEF RunBegin, Scan, GoOn, RunFailed, NextFile, Turn
<1>10. ASSUME NEW r \in Runs, FileDone(r) PROVE OrderInv'
  BY <1>10, <1>b DEF FileDone, Turn
<1>11. ASSUME NEW r \in Runs, RunCancelled(r) PROVE OrderInv'
  BY <1>11, <1>a, <1>b DEF RunCancelled, Wakes, PcInv
<1>12. ASSUME NEW t \in {Bootstrap} \cup Requests, GitReturns(t) PROVE OrderInv'
  <2>1. ~Due(t)
    BY <1>12 DEF GitReturns, Due
  <2>. QED
    BY <1>12, <2>1, <1>c DEF GitReturns
<1>13. ASSUME NEW r \in Runs, RunReturns(r) PROVE OrderInv'
  <2>1. ~Due(r)
    BY <1>13 DEF RunReturns, Due
  <2>2. PICK p \in {"indexed", "filed", "failed"} : pc' = [pc EXCEPT ![r] = p]
    BY <1>13 DEF RunReturns
  <2>. QED
    BY <1>13, <2>1, <2>2, <1>c DEF RunReturns
<1>14. CASE StopArrives
  <2>1. ~Due(Shutdown)
    BY <1>14 DEF StopArrives, Due
  <2>. QED
    BY <1>14, <2>1, <1>c DEF StopArrives
<1>15. ASSUME NEW q \in Requests, Arrive(q) PROVE OrderInv'
  <2>1. ~Due(q)
    BY <1>15 DEF Arrive, Due
  <2>. QED
    BY <1>15, <2>1, <1>c DEF Arrive
<1>16. CASE UNCHANGED vars
  BY <1>16 DEF vars, OrderInv, Behind, ReadyTasks, BeginTasks
<1>. QED
  BY <1>1, <1>2, <1>3, <1>4, <1>5, <1>6, <1>7, <1>8, <1>9, <1>10, <1>11, <1>12, <1>13, <1>14,
     <1>15, <1>16
  DEF Next, Step, Returns

(***************************************************************************)
(* The stop.                                                               *)
(***************************************************************************)

(* Steps of others, in which none of those the stop awaits comes to life.    *)
LEMMA StopSame ==
  ASSUME StopInv, UNCHANGED cancelled, pc'[Shutdown] = pc[Shutdown],
         \A x \in {Bootstrap} \cup Requests : Live(x)' => Live(x),
         pc[Shutdown] = "worker" => latest' = latest /\ (pc'[latest] \notin Ended => Live(latest))
  PROVE  StopInv'
<1>1. pc[Shutdown] = "worker" => (Live(latest)' => Live(latest))
  BY DEF Live
<1>. QED
  BY <1>1 DEF StopInv

(* A task that could start a run is at its turn before the stop has         *)
(* cancelled anything.                                                      *)
LEMMA NoStopYet ==
  ASSUME PcInv, StopInv, NEW t \in {Bootstrap} \cup Requests, Live(t), t \notin cancelled
  PROVE  pc[Shutdown] \in {"off", "start"} /\ cancelled = {}
<1>1. pc[Shutdown] \in {"off", "start"}
  BY DEF StopInv, PcInv
<1>. QED
  BY <1>1 DEF StopInv

(* Leaving the checkout brings nobody to life but a run.                    *)
LEMMA LeavingLives ==
  ASSUME TypeOK, PcInv, StopInv, LockInv, NEW t \in {Bootstrap} \cup Requests,
         CheckedOut(t) \/ CheckoutFailed(t)
  PROVE  pc'[Shutdown] = pc[Shutdown] /\ \A x \in {Bootstrap} \cup Requests : Live(x)' => Live(x)
<1>1. /\ pc'[t] = "done" /\ In(Woken) \subseteq {x \in Requests \ {t} : pc[x] = "waiting"}
      /\ \A x \in Tasks \ ({t} \cup In(Woken)) :
           pc'[x] = pc[x] \/ (x \in Runs /\ pc[x] = "off" /\ pc'[x] = "begin")
  BY LeavingMoves
<1>2. Live(t)' => Live(t)
  BY <1>1 DEF Live, Ended
<1>3. \A x \in In(Woken) : Live(x)
  BY <1>1 DEF Live, Ended
<1>. QED
  BY <1>1, <1>2, <1>3, Kinds DEF Live

(* The stop goes on in its order.                                           *)
LEMMA StopStep == IInv /\ [Next]_vars => StopInv'
<1>. SUFFICES ASSUME TypeOK, PcInv, StopInv, QueueInv, LockInv, [Next]_vars PROVE StopInv'
  BY DEF IInv
<1>. USE Kinds
<1>a. ASSUME UNCHANGED <<cancelled, latest>>, NEW t \in Tasks \ {Shutdown}, Live(t), NEW p,
             pc' = [pc EXCEPT ![t] = p]
      PROVE  StopInv'
  <2>1. \A x \in Tasks \ {t} : pc'[x] = pc[x]
    BY <1>a DEF TypeOK
  <2>2. \A x \in Tasks : Live(x)' => Live(x)
    BY <1>a, <2>1 DEF Live
  <2>3. pc[Shutdown] = "worker" => (pc'[latest] \notin Ended => Live(latest))
    <3>1. pc[Shutdown] = "worker" => latest \in Tasks
      BY DEF StopInv
    <3>. QED
      BY <1>a, <2>1, <3>1 DEF Live
  <2>. QED
    BY <1>a, <2>1, <2>2, <2>3, StopSame
<1>b. ASSUME NEW t \in {Bootstrap} \cup Requests, Live(t), t \notin cancelled,
             pc'[Shutdown] = pc[Shutdown], UNCHANGED cancelled,
             \A x \in {Bootstrap} \cup Requests : Live(x)' => Live(x)
      PROVE  StopInv'
  <2>1. pc[Shutdown] # "worker"
    BY <1>b, NoStopYet
  <2>. QED
    BY <1>b, <2>1, StopSame
<1>1. CASE BootstrapStart
  BY <1>1, <1>a DEF BootstrapStart, Acquire, Yield, Turn, started, Live, Ended
<1>2. CASE BootstrapCancelled
  <2>1. Live(Bootstrap)
    <3>1. Due(Bootstrap)
      BY <1>2, HeadIsDue DEF BootstrapCancelled
    <3>. QED
      BY <3>1 DEF Due, Live, Ended, PcInv, AtCheckout
  <2>. QED
    BY <1>2, <2>1, <1>a DEF BootstrapCancelled, Yield, started
<1>3. CASE StopBootstrap
  <2>1. /\ pc[Shutdown] = "start" /\ pc'[Shutdown] = "bootstrap" /\ cancelled = {}
        /\ cancelled' = {Bootstrap} /\ \A x \in Tasks \ {Shutdown} : pc'[x] = pc[x]
    BY <1>3 DEF StopBootstrap, Turn, Cancel, TypeOK, StopInv
  <2>2. \A q \in Requests : ~Live(q)'
    BY <2>1 DEF StopInv, Live
  <2>. QED
    BY <2>1, <2>2 DEF StopInv
<1>4. CASE StopWorker
  <2>1. /\ pc[Shutdown] \in {"start", "bootstrap"} /\ ~Live(Bootstrap) /\ UNCHANGED latest
        /\ \A x \in Tasks \ {Shutdown} : pc'[x] = pc[x]
    BY <1>4 DEF StopWorker, Turn, Cancel, Yield, started, TypeOK
  <2>2. cancelled \subseteq {Bootstrap} /\ (\A q \in Requests : ~Live(q)') /\ ~Live(Bootstrap)'
    BY <2>1 DEF StopInv, Live
  <2>3. CASE latest # None /\ Live(latest)
    <3>1. latest \in Runs /\ pc'[Shutdown] = "worker" /\ cancelled' = cancelled \cup {latest}
      BY <1>4, <2>3 DEF StopWorker, Cancel, TypeOK
    <3>. QED
      BY <2>1, <2>2, <3>1 DEF StopInv
  <2>4. CASE ~(latest # None /\ Live(latest))
    <3>1. pc'[Shutdown] = "done" /\ UNCHANGED cancelled
      BY <1>4, <2>4 DEF StopWorker, Yield, TypeOK
    <3>. QED
      BY <2>1, <2>2, <3>1 DEF StopInv
  <2>. QED
    BY <2>3, <2>4
<1>5. CASE Stopped
  <2>1. /\ pc[Shutdown] = "worker" /\ pc'[Shutdown] = "done" /\ UNCHANGED <<cancelled, latest>>
        /\ \A x \in Tasks \ {Shutdown} : pc'[x] = pc[x]
    BY <1>5 DEF Stopped, Turn, Yield, started, TypeOK
  <2>2. (\A q \in Requests : ~Live(q)') /\ ~Live(Bootstrap)'
    BY <2>1 DEF StopInv, Live
  <2>. QED
    BY <2>1, <2>2 DEF StopInv
<1>6. ASSUME NEW t \in {Bootstrap} \cup Requests, Granted(t) PROVE StopInv'
  <2>1. UNCHANGED <<cancelled, latest>> /\ Live(t) /\ pc' = [pc EXCEPT ![t] = "git"]
    BY <1>6 DEF Granted, Turn, Yield, started, Live, Ended
  <2>. QED
    BY <2>1, <1>a
<1>7. ASSUME NEW t \in {Bootstrap} \cup Requests, CheckedOut(t) \/ CheckoutFailed(t) PROVE StopInv'
  <2>1. Live(t) /\ t \notin cancelled /\ UNCHANGED cancelled
    BY <1>7 DEF CheckedOut, CheckoutFailed, Turn, Live, Ended
  <2>2. pc'[Shutdown] = pc[Shutdown] /\ \A x \in {Bootstrap} \cup Requests : Live(x)' => Live(x)
    BY <1>7, LeavingLives
  <2>. QED
    BY <2>1, <2>2, <1>b
<1>8. ASSUME NEW q \in Requests, Trigger(q) PROVE StopInv'
  <2>1. Live(q) /\ q \notin cancelled /\ UNCHANGED cancelled
    BY <1>8 DEF Trigger, Turn, Live, Ended
  <2>2. pc'[Shutdown] = pc[Shutdown] /\ \A x \in {Bootstrap} \cup Requests : Live(x)' => Live(x)
    <3>1. CASE TriggerRefused(q) \/ Acquire(q)
      <4>1. \A x \in Tasks \ {q} : pc'[x] = pc[x]
        BY <1>8, <3>1 DEF Trigger, Acquire, Yield, TypeOK
      <4>. QED
        BY <2>1, <4>1 DEF Live
    <3>2. CASE StartWorker(q, "direct", Tail(ready), [pc EXCEPT ![q] = "done"])
      <4>1. \A x \in Tasks \ {q} : pc'[x] = pc[x] \/ x \in Runs
        BY <1>8, <3>2, DirectMoves DEF Trigger
      <4>. QED
        BY <2>1, <4>1 DEF Live
    <3>. QED
      BY <1>8, <3>1, <3>2 DEF Trigger
  <2>. QED
    BY <2>1, <2>2, <1>b
<1>9. ASSUME NEW r \in Runs,
             RunBegin(r) \/ Scan(r) \/ FileDone(r) \/ GoOn(r) \/ RunFailed(r) \/ RunCancelled(r)
      PROVE  StopInv'
  <2>1. UNCHANGED <<cancelled, latest>>
    BY <1>9 DEF RunBegin, Scan, FileDone, GoOn, RunFailed, RunCancelled, started
  <2>2. PICK p \in {"index", "file", "yield", "done"} : pc' = [pc EXCEPT ![r] = p]
    BY <1>9 DEF RunBegin, Scan, FileDone, GoOn, RunFailed, RunCancelled, NextFile, Yield
  <2>3. Live(r)
    <3>1. ready # << >> /\ Head(ready) = r
      BY <1>9 DEF RunBegin, Scan, FileDone, GoOn, RunFailed, RunCancelled, Turn
    <3>2. Due(r)
      BY <3>1, HeadIsDue
    <3>. QED
      BY <3>2 DEF Due, Live, Ended, PcInv, InRun
  <2>. QED
    BY <2>1, <2>2, <2>3, <1>a
<1>10. ASSUME NEW t \in {Bootstrap} \cup Requests, GitReturns(t) PROVE StopInv'
  <2>1. UNCHANGED <<cancelled, latest>> /\ Live(t)
    BY <1>10 DEF GitReturns, started, Live, Ended
  <2>2. PICK p \in {"ready", "broken"} : pc' = [pc EXCEPT ![t] = p]
    BY <1>10 DEF GitReturns
  <2>. QED
    BY <2>1, <2>2, <1>a
<1>11. ASSUME NEW r \in Runs, RunReturns(r) PROVE StopInv'
  <2>1. UNCHANGED <<cancelled, latest>> /\ Live(r)
    BY <1>11 DEF RunReturns, started, Live, Ended
  <2>2. PICK p \in {"indexed", "filed", "failed"} : pc' = [pc EXCEPT ![r] = p]
    BY <1>11 DEF RunReturns
  <2>. QED
    BY <2>1, <2>2, <1>a
<1>12. CASE StopArrives
  <2>1. /\ pc[Shutdown] = "off" /\ pc'[Shutdown] = "start" /\ UNCHANGED cancelled
        /\ \A x \in Tasks \ {Shutdown} : pc'[x] = pc[x]
    BY <1>12 DEF StopArrives, TypeOK
  <2>2. \A q \in Requests : ~Live(q)'
    BY <1>12, <2>1 DEF StopArrives, Live
  <2>. QED
    BY <2>1, <2>2 DEF StopInv
<1>13. ASSUME NEW q \in Requests, Arrive(q) PROVE StopInv'
  <2>1. pc[Shutdown] = "off" /\ pc'[Shutdown] = "off" /\ UNCHANGED cancelled
    BY <1>13 DEF Arrive, TypeOK
  <2>. QED
    BY <2>1 DEF StopInv
<1>14. CASE UNCHANGED vars
  BY <1>14 DEF vars, started, StopInv, Live
<1>. QED
  BY <1>1, <1>2, <1>3, <1>4, <1>5, <1>6, <1>7, <1>8, <1>9, <1>10, <1>11, <1>12, <1>13, <1>14
  DEF Next, Step, Returns

(***************************************************************************)
(* The runs and their progress.                                            *)
(***************************************************************************)
Working == {"index", "indexed", "file", "filed", "yield", "failed"}

(* The steps of others leave the runs as they are.                          *)
LEMMA RunsSame ==
  ASSUME LatestInv, ProgressTrue, UNCHANGED <<started, progress, left>>,
         \A r \in Runs : pc'[r] = pc[r],
         pc'[Shutdown] = "done" /\ ~overlapped =>
           pc[Shutdown] = "done" \/ \A r \in Runs : ~Live(r)
  PROVE  LatestInv' /\ ProgressTrue'
<1>1. \A r \in Runs : (Live(r)' <=> Live(r)) /\ (Begun(r)' <=> Begun(r))
  BY DEF Live, Begun
<1>2. LatestInv'
  BY <1>1 DEF LatestInv, started, progress
<1>3. ProgressTrue'
  BY <1>1 DEF ProgressTrue, started, progress
<1>. QED
  BY <1>2, <1>3

(* A run moves.                                                             *)
LEMMA RunMoved ==
  ASSUME TypeOK, PcInv, LatestInv, ProgressTrue, NEW r \in Runs, Live(r), NEW p,
         pc' = [pc EXCEPT ![r] = p], UNCHANGED started,
         ~overlapped =>
           /\ status' = "running" <=> p \in Working
           /\ p \in {"index", "indexed"} => done' = 0
           /\ p \in {"file", "filed", "yield"} => total' = Files /\ done' + left'[r] = total'
           /\ status' = "complete" => total' = Files /\ done' = total'
  PROVE  LatestInv' /\ ProgressTrue'
<1>. SUFFICES ASSUME ~overlapped PROVE LatestInv' /\ ProgressTrue'
  BY DEF LatestInv, ProgressTrue, started
<1>1. pc'[r] = p /\ \A x \in Tasks \ {r} : pc'[x] = pc[x]
  BY Kinds DEF TypeOK
<1>2. \A s \in Runs \ {r} : ~Live(s)
  BY DEF LatestInv
<1>3. \A s \in Runs \ {r} : ~Live(s)' /\ pc'[s] \notin Working
  BY <1>1, <1>2, Kinds DEF Live, Ended, Working
<1>4. \A s \in Runs : Begun(s)' <=> s = r /\ p \in Working
  BY <1>1, <1>3 DEF Begun, Working
<1>5. pc'[Shutdown] # "done" /\ r = latest
  BY <1>1, Kinds DEF LatestInv
<1>6. LatestInv'
  BY <1>1, <1>3, <1>5 DEF LatestInv, started, Working
<1>7. ProgressTrue'
  <2>1. \A s \in Runs \ {r} : pc'[s] \notin {"file", "filed", "yield"}
    BY <1>3 DEF Working
  <2>. QED
    BY <1>1, <1>4, <2>1 DEF ProgressTrue
<1>. QED
  BY <1>6, <1>7

(* A run starts.                                                            *)
LEMMA RunStarted ==
  ASSUME LatestInv, ProgressTrue, PcInv, NEW r \in Runs, NEW at \in {"begin", "direct"},
         pc'[r] = at, latest' = r, status # "running", UNCHANGED <<progress, left>>,
         \A x \in Runs \ {r} : pc'[x] = pc[x], pc'[Shutdown] # "done",
         overlapped => overlapped', \A s \in Runs : pc[s] \in {"begin", "direct"} => overlapped'
  PROVE  LatestInv' /\ ProgressTrue'
<1>. SUFFICES ASSUME ~overlapped' PROVE LatestInv' /\ ProgressTrue'
  BY DEF LatestInv, ProgressTrue
<1>1. \A s \in Runs : ~Begun(s) /\ pc[s] \notin {"begin", "direct"}
  BY DEF ProgressTrue
<1>2. \A s \in Runs \ {r} : ~Live(s)' /\ ~Begun(s)' /\ pc'[s] \notin Working
  BY <1>1 DEF Begun, Live, Ended, PcInv, InRun, Working
<1>3. ~Begun(r)' /\ pc'[r] \notin Working
  BY DEF Begun, Working
<1>4. LatestInv'
  BY <1>2, <1>3 DEF LatestInv, Working
<1>5. ProgressTrue'
  BY <1>2, <1>3 DEF ProgressTrue, Working, progress
<1>. QED
  BY <1>4, <1>5

(* When the head of the queue comes from the checkout every run that was     *)
(* started from there has begun.                                            *)
LEMMA NoneBefore ==
  ASSUME TypeOK, QueueInv, OrderInv, NEW t \in Tasks, Turn(t, "ready")
  PROVE  \A r \in Runs : pc[r] # "begin"
<1>. SUFFICES ASSUME NEW r \in Runs, pc[r] = "begin" PROVE FALSE
  OBVIOUS
<1>1. r \in In(ready)
  BY Kinds DEF QueueInv, Due
<1>2. PICK j \in 1..Len(ready) : ready[j] = r
  BY <1>1 DEF In
<1>3. Len(ready) \in Nat \ {0} /\ 1 \in 1..Len(ready) /\ ready[1] = t
  BY DEF Turn, TypeOK
<1>4. ready[1] \in ReadyTasks /\ ready[j] \in BeginTasks
  BY <1>2, <1>3, Kinds DEF Turn, ReadyTasks, BeginTasks
<1>5. j < 1
  BY <1>2, <1>3, <1>4 DEF OrderInv, Behind
<1>. QED
  BY <1>2, <1>5

(* The latest run is the only one, and the progress is that of this run.     *)
LEMMA RunStep == IInv /\ [Next]_vars => LatestInv' /\ ProgressTrue'
<1>. SUFFICES ASSUME TypeOK, PcInv, StopInv, QueueInv, LockInv, OrderInv, LeftInv, LatestInv,
                     ProgressTrue, [Next]_vars
              PROVE  LatestInv' /\ ProgressTrue'
  BY DEF IInv
<1>. USE Kinds
<1>a. ASSUME NEW t \in {Bootstrap} \cup Requests, NEW p, pc' = [pc EXCEPT ![t] = p],
             UNCHANGED <<started, progress, left>>
      PROVE  LatestInv' /\ ProgressTrue'
  <2>1. \A x \in Tasks \ {t} : pc'[x] = pc[x]
    BY <1>a DEF TypeOK
  <2>2. (\A r \in Runs : pc'[r] = pc[r]) /\ pc'[Shutdown] = pc[Shutdown]
    BY <2>1
  <2>. QED
    BY <1>a, <2>2, RunsSame
<1>1. CASE BootstrapStart \/ BootstrapCancelled
  BY <1>1, <1>a DEF BootstrapStart, BootstrapCancelled, Acquire, Yield
<1>2. CASE StopBootstrap \/ StopArrives
  <2>1. pc'[Shutdown] # "done" /\ (\A r \in Runs : pc'[r] = pc[r])
        /\ UNCHANGED <<started, progress, left>>
    BY <1>2 DEF StopBootstrap, StopArrives, Cancel, TypeOK
  <2>. QED
    BY <2>1, RunsSame
<1>3. CASE StopWorker
  <2>1. (\A r \in Runs : pc'[r] = pc[r]) /\ UNCHANGED <<started, progress, left>>
    BY <1>3 DEF StopWorker, Cancel, Yield, TypeOK
  <2>2. CASE latest # None /\ Live(latest)
    <3>1. pc'[Shutdown] = "worker"
      BY <1>3, <2>2 DEF StopWorker, Cancel, TypeOK
    <3>. QED
      BY <2>1, <3>1, RunsSame
  <2>3. CASE ~(latest # None /\ Live(latest))
    <3>1. ~overlapped => \A r \in Runs : ~Live(r)
      BY <2>3 DEF LatestInv
    <3>. QED
      BY <2>1, <3>1, RunsSame
  <2>. QED
    BY <2>2, <2>3
<1>4. CASE Stopped
  <2>. SUFFICES ASSUME ~overlapped PROVE LatestInv' /\ ProgressTrue'
    BY <1>4 DEF LatestInv, ProgressTrue, Stopped, started
  <2>1. /\ ready # << >> /\ Head(ready) = Shutdown /\ pc[Shutdown] = "worker" /\ status' = "idle"
        /\ (\A r \in Runs : pc'[r] = pc[r]) /\ UNCHANGED <<started, total, done, left>>
    BY <1>4 DEF Stopped, Turn, Yield, TypeOK
  <2>2. ~Live(latest)
    BY <2>1, HeadIsDue DEF Due
  <2>3. \A r \in Runs : ~Live(r)
    BY <2>2 DEF LatestInv
  <2>4. \A r \in Runs : ~Live(r)' /\ ~Begun(r)' /\ pc'[r] \notin Working
    BY <2>1, <2>3 DEF Live, Ended, Begun, Working
  <2>. QED
    BY <2>1, <2>4 DEF LatestInv, ProgressTrue, Working
<1>5. ASSUME NEW t \in {Bootstrap} \cup Requests, Granted(t) \/ GitReturns(t)
      PROVE  LatestInv' /\ ProgressTrue'
  <2>1. UNCHANGED <<started, progress, left>>
    BY <1>5 DEF Granted, GitReturns
  <2>2. \E p : pc' = [pc EXCEPT ![t] = p]
    BY <1>5 DEF Granted, GitReturns, Yield
  <2>. QED
    BY <2>1, <2>2, <1>a
<1>6. ASSUME NEW t \in {Bootstrap} \cup Requests, CheckedOut(t) \/ CheckoutFailed(t)
      PROVE  LatestInv' /\ ProgressTrue'
  <2>1. UNCHANGED <<progress, left>> /\ In(Woken) \cap Runs = {} /\ t \notin Runs
        /\ pc'[Shutdown] = pc[Shutdown]
    <3>1. In(Woken) \subseteq Requests
      BY <1>6, LeavingMoves
    <3>2. pc'[Shutdown] = pc[Shutdown]
      BY <1>6, LeavingLives
    <3>. QED
      BY <1>6, <3>1, <3>2 DEF CheckedOut, CheckoutFailed
  <2>2. CASE (\A x \in Tasks \ ({t} \cup In(Woken)) : pc'[x] = pc[x]) /\ UNCHANGED started
    <3>1. \A r \in Runs : pc'[r] = pc[r]
      BY <2>1, <2>2
    <3>. QED
      BY <2>1, <2>2, <3>1, RunsSame
  <2>3. ASSUME NEW r \in Runs, pc'[r] = "begin", latest' = r, pc[t] = "ready", status # "running",
               overlapped' = (overlapped \/ \E s \in Runs : pc[s] = "direct"),
               \A x \in Tasks \ ({t, r} \cup In(Woken)) : pc'[x] = pc[x]
        PROVE  LatestInv' /\ ProgressTrue'
    <3>1. Turn(t, "ready") /\ t \in Tasks
      BY <1>6, <2>3 DEF CheckedOut, CheckoutFailed, Turn
    <3>2. \A s \in Runs : pc[s] # "begin"
      BY <3>1, NoneBefore
    <3>3. pc[Shutdown] \in {"off", "start"}
      BY <3>1, NoStopYet DEF Turn, Live, Ended
    <3>4. \A x \in Runs \ {r} : pc'[x] = pc[x]
      BY <2>1, <2>3
    <3>5. \A s \in Runs : pc[s] \in {"begin", "direct"} => overlapped'
      BY <2>3, <3>2
    <3>. QED
      BY <2>1, <2>3, <3>3, <3>4, <3>5, RunStarted
  <2>. QED
    BY <1>6, <2>2, <2>3, LeavingMoves
<1>7. ASSUME NEW q \in Requests, Trigger(q) PROVE LatestInv' /\ ProgressTrue'
  <2>1. CASE TriggerRefused(q) \/ (Acquire(q) /\ UNCHANGED started)
    <3>1. UNCHANGED <<started, progress, left>> /\ \E p : pc' = [pc EXCEPT ![q] = p]
      BY <1>7, <2>1 DEF Trigger, Acquire, Yield, TypeOK
    <3>. QED
      BY <3>1, <1>a
  <2>2. CASE StartWorker(q, "direct", Tail(ready), [pc EXCEPT ![q] = "done"])
    <3>1. UNCHANGED <<progress, left>> /\ pc[Shutdown] \in {"off", "start"}
      BY <1>7, NoStopYet DEF Trigger, Turn, Live, Ended
    <3>2. CASE (\A x \in Tasks \ {q} : pc'[x] = pc[x]) /\ UNCHANGED started
      <4>1. (\A r \in Runs : pc'[r] = pc[r]) /\ pc'[Shutdown] = pc[Shutdown]
        BY <3>2
      <4>. QED
        BY <3>1, <3>2, <4>1, RunsSame
    <3>3. ASSUME NEW r \in Runs, pc'[r] = "direct", latest' = r, status # "running",
                 overlapped' = (overlapped \/ \E s \in Runs : pc[s] \in Scheduled),
                 \A x \in Tasks \ {q, r} : pc'[x] = pc[x]
          PROVE  LatestInv' /\ ProgressTrue'
      <4>1. (\A x \in Runs \ {r} : pc'[x] = pc[x]) /\ pc'[Shutdown] = pc[Shutdown]
        BY <3>3
      <4>2. \A s \in Runs : pc[s] \in {"begin", "direct"} => overlapped'
        BY <3>3 DEF Scheduled
      <4>. QED
        BY <3>1, <3>3, <4>1, <4>2, RunStarted
    <3>. QED
      BY <1>7, <2>2, <3>2, <3>3, DirectMoves DEF Trigger
  <2>. QED
    BY <1>7, <2>1, <2>2 DEF Trigger, started
<1>8. ASSUME NEW q \in Requests, Arrive(q) PROVE LatestInv' /\ ProgressTrue'
  BY <1>8, <1>a DEF Arrive
<1>9. ASSUME NEW r \in Runs, ready # << >>, Head(ready) = r PROVE Live(r)
  <2>1. Due(r)
    BY <1>9, HeadIsDue
  <2>. QED
    BY <2>1 DEF Due, Live, Ended, PcInv, InRun
<1>b. ASSUME ~overlapped, NEW r \in Runs, Live(r)
      PROVE  /\ pc[r] \in Working => status = "running"
             /\ pc[r] \in {"index", "indexed"} => done = 0
             /\ pc[r] \in {"file", "filed", "yield"} => total = Files /\ done + left[r] = total
             /\ pc[r] \notin Working => status # "running"
             /\ status = "complete" => total = Files /\ done = total
  <2>1. \A s \in Runs \ {r} : ~Live(s) /\ ~Begun(s)
    BY <1>b DEF LatestInv, Live, Ended, Begun
  <2>. QED
    BY <1>b, <2>1 DEF LatestInv, ProgressTrue, Begun, Working
<1>10. ASSUME NEW r \in Runs, RunBegin(r) PROVE LatestInv' /\ ProgressTrue'
  <2>1. /\ ready # << >> /\ Head(ready) = r /\ status' = "running" /\ done' = 0
        /\ UNCHANGED started /\ pc' = [pc EXCEPT ![r] = "index"]
    BY <1>10 DEF RunBegin, Turn, Yield
  <2>. QED
    BY <2>1, <1>9, RunMoved DEF Working
<1>11. ASSUME NEW r \in Runs, RunReturns(r) PROVE LatestInv' /\ ProgressTrue'
  <2>1. pc[r] \in {"index", "file"} /\ Live(r) /\ UNCHANGED <<started, progress, left>>
    BY <1>11 DEF RunReturns, Live, Ended
  <2>2. PICK p \in {"indexed", "filed", "failed"} :
          /\ pc' = [pc EXCEPT ![r] = p]
          /\ p = "indexed" => pc[r] = "index"
          /\ p = "filed" => pc[r] = "file"
    BY <1>11, <2>1 DEF RunReturns
  <2>3. ~overlapped =>
          /\ status' = "running" <=> p \in Working
          /\ p \in {"index", "indexed"} => done' = 0
          /\ p \in {"file", "filed", "yield"} => total' = Files /\ done' + left'[r] = total'
          /\ status' = "complete" => total' = Files /\ done' = total'
    BY <1>b, <2>1, <2>2 DEF Working, progress
  <2>. QED
    BY <2>1, <2>2, <2>3, RunMoved
<1>12. ASSUME NEW r \in Runs, Scan(r) PROVE LatestInv' /\ ProgressTrue'
  <2>1. /\ ready # << >> /\ Head(ready) = r /\ pc[r] = "indexed" /\ total' = Files
        /\ left'[r] = Files /\ UNCHANGED <<started, done>> /\ NextFile(r, Files)
    BY <1>12 DEF Scan, Turn, TypeOK
  <2>2. Live(r) /\ Files \in Nat
    BY <2>1, <1>9, IngestAssumption DEF IngestAssumption
  <2>3. ~overlapped => status = "running" /\ done = 0
    BY <1>b, <2>1, <2>2 DEF Working
  <2>4. CASE Files = 0
    BY <2>1, <2>2, <2>3, <2>4, RunMoved DEF NextFile, Yield, Working
  <2>5. CASE Files # 0
    <3>1. status' = status /\ pc' = [pc EXCEPT ![r] = "file"]
      BY <2>1, <2>5 DEF NextFile, Yield
    <3>2. ~overlapped => done' + left'[r] = total'
      BY <2>1, <2>2, <2>3
    <3>. QED
      BY <2>1, <2>2, <2>3, <3>1, <3>2, RunMoved DEF Working
  <2>. QED
    BY <2>4, <2>5
<1>13. ASSUME NEW r \in Runs, FileDone(r) PROVE LatestInv' /\ ProgressTrue'
  <2>1. /\ ready # << >> /\ Head(ready) = r /\ pc[r] = "filed" /\ done' = done + 1
        /\ left'[r] = left[r] - 1 /\ UNCHANGED <<started, status, total>>
        /\ pc' = [pc EXCEPT ![r] = "yield"]
    BY <1>13 DEF FileDone, Turn, Yield, TypeOK
  <2>2. Live(r) /\ done \in Nat /\ left[r] \in Nat
    BY <2>1, <1>9, IngestAssumption DEF IngestAssumption, TypeOK
  <2>3. ~overlapped => status = "running" /\ total = Files /\ done + left[r] = total
    BY <1>b, <2>1, <2>2 DEF Working
  <2>4. ~overlapped => done' + left'[r] = total'
    BY <2>1, <2>2, <2>3
  <2>. QED
    BY <2>1, <2>2, <2>3, <2>4, RunMoved DEF Working
<1>14. ASSUME NEW r \in Runs, GoOn(r) PROVE LatestInv' /\ ProgressTrue'
  <2>1. /\ ready # << >> /\ Head(ready) = r /\ pc[r] = "yield" /\ NextFile(r, left[r])
        /\ UNCHANGED <<started, total, done, left>>
    BY <1>14 DEF GoOn, Turn
  <2>2. Live(r) /\ done \in Nat /\ left[r] \in Nat
    BY <2>1, <1>9, IngestAssumption DEF IngestAssumption, TypeOK
  <2>3. ~overlapped => status = "running" /\ total = Files /\ done + left[r] = total
    BY <1>b, <2>1, <2>2 DEF Working
  <2>4. CASE left[r] = 0
    <3>1. ~overlapped => done' = total'
      BY <2>1, <2>2, <2>3, <2>4
    <3>2. status' = "complete" /\ pc' = [pc EXCEPT ![r] = "done"]
      BY <2>1, <2>4 DEF NextFile, Yield
    <3>. QED
      BY <2>1, <2>2, <2>3, <3>1, <3>2, RunMoved DEF Working
  <2>5. CASE left[r] # 0
    <3>1. status' = status /\ pc' = [pc EXCEPT ![r] = "file"]
      BY <2>1, <2>5 DEF NextFile, Yield
    <3>. QED
      BY <2>1, <2>2, <2>3, <3>1, RunMoved DEF Working
  <2>. QED
    BY <2>4, <2>5
<1>15. ASSUME NEW r \in Runs, RunFailed(r) PROVE LatestInv' /\ ProgressTrue'
  <2>1. /\ ready # << >> /\ Head(ready) = r /\ status' = "error" /\ UNCHANGED started
        /\ pc' = [pc EXCEPT ![r] = "done"]
    BY <1>15 DEF RunFailed, Turn, Yield
  <2>. QED
    BY <2>1, <1>9, RunMoved DEF Working
<1>16. ASSUME NEW r \in Runs, RunCancelled(r) PROVE LatestInv' /\ ProgressTrue'
  <2>1. /\ ready # << >> /\ Head(ready) = r /\ UNCHANGED <<started, total, done, left>>
        /\ status' = (IF pc[r] \in Scheduled THEN status ELSE "idle")
        /\ pc' = [pc EXCEPT ![r] = "done"]
    BY <1>16 DEF RunCancelled, Yield
  <2>2. Live(r)
    BY <2>1, <1>9
  <2>3. pc[r] \in Scheduled => pc[r] \notin Working
    BY DEF Scheduled, Working
  <2>4. ~overlapped =>
          status' # "running" /\ (status' = "complete" => total' = Files /\ done' = total')
    BY <1>b, <2>1, <2>2, <2>3
  <2>. QED
    BY <2>1, <2>2, <2>4, RunMoved DEF Working
<1>17. CASE UNCHANGED vars
  BY <1>17, RunsSame DEF vars
<1>. QED
  BY <1>1, <1>2, <1>3, <1>4, <1>5, <1>6, <1>7, <1>8, <1>10, <1>11, <1>12, <1>13, <1>14, <1>15,
     <1>16, <1>17
  DEF Next, Step, Returns

(* A run has a file left while it works on one.                             *)
LEMMA LeftStep == IInv /\ [Next]_vars => LeftInv' /\ left' \in [Runs -> 0..Files]
<1>. SUFFICES ASSUME TypeOK, PcInv, StopInv, LockInv, LeftInv, [Next]_vars
              PROVE  LeftInv' /\ left' \in [Runs -> 0..Files]
  BY DEF IInv
<1>. USE Kinds
<1>a. ASSUME UNCHANGED left, \A r \in Runs : pc'[r] = pc[r] \/ pc'[r] \notin {"file", "filed"}
      PROVE  LeftInv' /\ left' \in [Runs -> 0..Files]
  BY <1>a DEF LeftInv, TypeOK
<1>b. ASSUME UNCHANGED left, NEW t \in Tasks, NEW p, pc' = [pc EXCEPT ![t] = p],
             t \notin Runs \/ p \notin {"file", "filed"}
      PROVE  LeftInv' /\ left' \in [Runs -> 0..Files]
  <2>1. pc'[t] = p /\ \A x \in Tasks \ {t} : pc'[x] = pc[x]
    BY <1>b DEF TypeOK
  <2>. QED
    BY <1>a, <1>b, <2>1
<1>1. CASE BootstrapStart \/ BootstrapCancelled
  BY <1>1, <1>b DEF BootstrapStart, BootstrapCancelled, Acquire, Yield
<1>2. CASE StopBootstrap \/ StopWorker \/ Stopped \/ StopArrives
  BY <1>2, <1>b DEF StopBootstrap, StopWorker, Stopped, StopArrives, Cancel, Yield
<1>3. ASSUME NEW t \in {Bootstrap} \cup Requests, Granted(t) \/ GitReturns(t)
      PROVE  LeftInv' /\ left' \in [Runs -> 0..Files]
  <2>1. UNCHANGED left /\ \E p : pc' = [pc EXCEPT ![t] = p]
    BY <1>3 DEF Granted, GitReturns, Yield
  <2>. QED
    BY <2>1, <1>b
<1>4. ASSUME NEW t \in {Bootstrap} \cup Requests, CheckedOut(t) \/ CheckoutFailed(t)
      PROVE  LeftInv' /\ left' \in [Runs -> 0..Files]
  <2>1. UNCHANGED left /\ t \notin Runs
    BY <1>4 DEF CheckedOut, CheckoutFailed
  <2>2. In(Woken) \subseteq Requests
    BY <1>4, LeavingMoves
  <2>3. \A x \in Tasks \ ({t} \cup In(Woken)) :
          pc'[x] = pc[x] \/ (x \in Runs /\ pc[x] = "off" /\ pc'[x] = "begin")
    BY <1>4, LeavingMoves
  <2>4. \A r \in Runs : pc'[r] = pc[r] \/ pc'[r] = "begin"
    BY <2>1, <2>2, <2>3
  <2>. QED
    BY <2>1, <2>4, <1>a
<1>5. ASSUME NEW q \in Requests, Trigger(q) PROVE LeftInv' /\ left' \in [Runs -> 0..Files]
  <2>1. CASE TriggerRefused(q) \/ Acquire(q)
    BY <1>5, <2>1, <1>b DEF Trigger, Acquire, Yield
  <2>2. CASE StartWorker(q, "direct", Tail(ready), [pc EXCEPT ![q] = "done"])
    <3>1. \A r \in Runs : pc'[r] = pc[r] \/ pc'[r] = "direct"
      BY <1>5, <2>2, DirectMoves DEF Trigger
    <3>. QED
      BY <1>5, <3>1, <1>a DEF Trigger
  <2>. QED
    BY <1>5, <2>1, <2>2 DEF Trigger
<1>6. ASSUME NEW q \in Requests, Arrive(q) PROVE LeftInv' /\ left' \in [Runs -> 0..Files]
  BY <1>6, <1>b DEF Arrive
<1>7. ASSUME NEW r \in Runs, RunBegin(r) \/ RunFailed(r) \/ RunCancelled(r)
      PROVE  LeftInv' /\ left' \in [Runs -> 0..Files]
  <2>1. UNCHANGED left /\ \E p \in {"index", "done"} : pc' = [pc EXCEPT ![r] = p]
    BY <1>7 DEF RunBegin, RunFailed, RunCancelled, Yield
  <2>. QED
    BY <2>1, <1>b
<1>8. ASSUME NEW r \in Runs, RunReturns(r) PROVE LeftInv' /\ left' \in [Runs -> 0..Files]
  <2>1. PICK p : pc' = [pc EXCEPT ![r] = p] /\ (p = "file" => FALSE) /\ (p = "filed" => pc[r] = "file")
    BY <1>8 DEF RunReturns
  <2>2. pc'[r] = p /\ \A x \in Tasks \ {r} : pc'[x] = pc[x]
    BY <2>1 DEF TypeOK
  <2>. QED
    BY <1>8, <2>1, <2>2 DEF RunReturns, LeftInv, TypeOK
<1>9. ASSUME NEW r \in Runs, Scan(r) PROVE LeftInv' /\ left' \in [Runs -> 0..Files]
  <2>1. Files \in Nat /\ Files \in 0..Files
    BY IngestAssumption DEF IngestAssumption
  <2>2. left' = [left EXCEPT ![r] = Files]
    BY <1>9 DEF Scan
  <2>3. left' \in [Runs -> 0..Files] /\ left'[r] = Files /\ \A s \in Runs \ {r} : left'[s] = left[s]
    BY <2>1, <2>2 DEF TypeOK
  <2>4. (pc'[r] \in {"file", "filed"} => Files # 0) /\ \A s \in Runs \ {r} : pc'[s] = pc[s]
    BY <1>9 DEF Scan, NextFile, Yield, TypeOK
  <2>5. \A s \in Runs : pc'[s] \in {"file", "filed"} => left'[s] > 0
    BY <2>1, <2>3, <2>4 DEF LeftInv
  <2>. QED
    BY <2>3, <2>5 DEF LeftInv
<1>10. ASSUME NEW r \in Runs, FileDone(r) PROVE LeftInv' /\ left' \in [Runs -> 0..Files]
  <2>1. pc[r] = "filed" /\ left' = [left EXCEPT ![r] = @ - 1] /\ pc' = [pc EXCEPT ![r] = "yield"]
    BY <1>10 DEF FileDone, Turn, Yield
  <2>2. left[r] - 1 \in 0..Files
    <3>1. left[r] \in 0..Files /\ left[r] > 0 /\ Files \in Nat
      BY <2>1, IngestAssumption DEF LeftInv, TypeOK, IngestAssumption
    <3>. QED
      BY <3>1
  <2>3. left' \in [Runs -> 0..Files] /\ \A s \in Runs \ {r} : left'[s] = left[s]
    BY <2>1, <2>2 DEF TypeOK
  <2>4. pc'[r] = "yield" /\ \A s \in Runs \ {r} : pc'[s] = pc[s]
    BY <2>1 DEF TypeOK
  <2>. QED
    BY <2>3, <2>4 DEF LeftInv
<1>11. ASSUME NEW r \in Runs, GoOn(r) PROVE LeftInv' /\ left' \in [Runs -> 0..Files]
  <2>1. UNCHANGED left /\ (pc'[r] \in {"file", "filed"} => left[r] # 0)
          /\ \A s \in Runs \ {r} : pc'[s] = pc[s]
    BY <1>11 DEF GoOn, NextFile, Yield, TypeOK
  <2>2. \A s \in Runs : left[s] \in Nat
    BY IngestAssumption DEF TypeOK, IngestAssumption
  <2>3. \A s \in Runs : pc'[s] \in {"file", "filed"} => left[s] > 0
    BY <2>1, <2>2 DEF LeftInv
  <2>. QED
    BY <2>1, <2>3 DEF LeftInv, TypeOK
<1>12. CASE UNCHANGED vars
  BY <1>12 DEF vars, LeftInv, TypeOK
<1>. QED
  BY <1>1, <1>2, <1>3, <1>4, <1>5, <1>6, <1>7, <1>8, <1>9, <1>10, <1>11, <1>12
  DEF Next, Step, Returns

(* What the loops count and report is of its type.                          *)
LEMMA ProgressTypes ==
  ASSUME IInv, [Next]_vars
  PROVE  /\ status' \in {"idle", "running", "complete", "error"} /\ total' \in {0, Files}
         /\ done' \in Nat /\ (~overlapped' => done' <= Files)
<1>. USE DEF IInv, TypeOK
<1>1. overlapped => overlapped'
  BY DEF Next, Step, Returns, vars, started, BootstrapStart, BootstrapCancelled, StopBootstrap,
         StopWorker, Stopped, Granted, CheckedOut, CheckoutFailed, Trigger, RunBegin, Scan,
         FileDone, GoOn, RunFailed, RunCancelled, GitReturns, RunReturns, StopArrives, Arrive,
         StartWorker
<1>2. ASSUME UNCHANGED done
      PROVE  done' \in Nat /\ (~overlapped' => done' <= Files)
  BY <1>1, <1>2
<1>3. ASSUME NEW r \in Runs, RunBegin(r)
      PROVE  /\ status' \in {"idle", "running", "complete", "error"} /\ total' \in {0, Files}
             /\ done' \in Nat /\ (~overlapped' => done' <= Files)
  <2>1. status' = "running" /\ total' = 0 /\ done' = 0 /\ Files \in Nat
    BY <1>3, IngestAssumption DEF RunBegin, IngestAssumption
  <2>. QED
    BY <2>1
<1>4. ASSUME NEW r \in Runs, Scan(r) \/ GoOn(r) \/ RunFailed(r) \/ RunCancelled(r)
      PROVE  /\ status' \in {"idle", "running", "complete", "error"} /\ total' \in {0, Files}
             /\ UNCHANGED done
  BY <1>4 DEF Scan, GoOn, RunFailed, RunCancelled, NextFile
<1>5. ASSUME NEW r \in Runs, FileDone(r)
      PROVE  UNCHANGED <<status, total>> /\ done' \in Nat /\ (~overlapped' => done' <= Files)
  <2>1. pc[r] = "filed" /\ done' = done + 1 /\ UNCHANGED <<status, total>>
    BY <1>5 DEF FileDone, Turn
  <2>2. left[r] \in Nat /\ left[r] > 0 /\ Files \in Nat /\ done \in Nat
    BY <2>1, IngestAssumption DEF LeftInv, IngestAssumption
  <2>3. ~overlapped => done + left[r] = Files
    BY <2>1 DEF ProgressTrue
  <2>. QED
    BY <1>1, <2>1, <2>2, <2>3
<1>6. CASE Stopped
  <2>1. status' = "idle" /\ total' = total /\ done' = done
    BY <1>6 DEF Stopped
  <2>. QED
    BY <1>2, <2>1
<1>7. CASE UNCHANGED progress
  BY <1>2, <1>7 DEF progress
<1>8. CASE \E r \in Runs :
        RunBegin(r) \/ Scan(r) \/ FileDone(r) \/ GoOn(r) \/ RunFailed(r) \/ RunCancelled(r)
  <2>1. PICK r \in Runs :
        RunBegin(r) \/ Scan(r) \/ FileDone(r) \/ GoOn(r) \/ RunFailed(r) \/ RunCancelled(r)
    BY <1>8
  <2>2. CASE RunBegin(r)
    BY <1>3, <2>2
  <2>3. CASE Scan(r) \/ GoOn(r) \/ RunFailed(r) \/ RunCancelled(r)
    BY <1>2, <1>4, <2>3
  <2>4. CASE FileDone(r)
    BY <1>5, <2>4
  <2>. QED
    BY <2>1, <2>2, <2>3, <2>4
<1>9. \/ UNCHANGED progress \/ Stopped
      \/ \E r \in Runs :
           RunBegin(r) \/ Scan(r) \/ FileDone(r) \/ GoOn(r) \/ RunFailed(r) \/ RunCancelled(r)
  BY DEF Next, Step, Returns, vars, BootstrapStart, BootstrapCancelled, StopBootstrap, StopWorker,
         Granted, CheckedOut, CheckoutFailed, Trigger, GitReturns, RunReturns, StopArrives, Arrive
<1>. QED
  BY <1>6, <1>7, <1>8, <1>9

(* What is known of the queue, the lock and the loops keeps its type; the   *)
(* rest are the tasks to cancel, the latest run and what was answered.      *)
LEMMA TypeStep ==
  ASSUME IInv, [Next]_vars
  PROVE  TypeOK'
<1>. USE DEF IInv, TypeOK
<1>1. ready' \in Seq(Tasks)
  BY QueueStep
<1>2. pc' \in [Tasks -> PcValues]
  BY PcStep
<1>3. checkout' \in Seq(Tasks)
  BY LockStep
<1>4. left' \in [Runs -> 0..Files]
  BY LeftStep
<1>5. /\ status' \in {"idle", "running", "complete", "error"} /\ total' \in {0, Files}
      /\ done' \in Nat /\ (~overlapped' => done' <= Files)
  BY ProgressTypes
<1>6. cancelled' \subseteq Tasks
  <2>1. CASE StopBootstrap
    BY <2>1 DEF StopBootstrap, Cancel, Tasks
  <2>2. CASE StopWorker
    BY <2>2 DEF StopWorker, Cancel, Tasks
  <2>3. CASE UNCHANGED cancelled
    BY <2>3
  <2>4. StopBootstrap \/ StopWorker \/ UNCHANGED cancelled
    BY DEF Next, Step, Returns, vars, BootstrapStart, BootstrapCancelled, Stopped, Granted,
           CheckedOut, CheckoutFailed, Trigger, RunBegin, Scan, FileDone, GoOn, RunFailed,
           RunCancelled, GitReturns, RunReturns, StopArrives, Arrive
  <2>. QED
    BY <2>1, <2>2, <2>3, <2>4
<1>7. latest' \in Runs \cup {None} /\ overlapped' \in BOOLEAN
  <2>1. ASSUME NEW t, NEW at, NEW before, NEW pcs, StartWorker(t, at, before, pcs)
        PROVE  latest' \in Runs \cup {None} /\ overlapped' \in BOOLEAN
    <3>1. CASE UNCHANGED started
      BY <3>1 DEF started
    <3>2. CASE \E r \in Unused :
                 /\ latest' = r
                 /\ overlapped' = (overlapped \/ \E s \in Runs :
                                    pc[s] \in Scheduled /\ "direct" \in {at, pc[s]})
      BY <3>2 DEF Unused
    <3>. QED
      BY <2>1, <3>1, <3>2 DEF StartWorker
  <2>2. CASE UNCHANGED started
    BY <2>2 DEF started
  <2>3. \/ UNCHANGED started
        \/ \E t \in {Bootstrap} \cup Requests : CheckedOut(t)
        \/ \E q \in Requests : Trigger(q)
    BY DEF Next, Step, Returns, vars, BootstrapStart, BootstrapCancelled, StopBootstrap, StopWorker,
           Stopped, Granted, CheckoutFailed, RunBegin, Scan, FileDone, GoOn, RunFailed,
           RunCancelled, GitReturns, RunReturns, StopArrives, Arrive
  <2>4. ASSUME NEW t, CheckedOut(t) PROVE latest' \in Runs \cup {None} /\ overlapped' \in BOOLEAN
    BY <2>1, <2>4 DEF CheckedOut
  <2>5. ASSUME NEW q, Trigger(q) PROVE latest' \in Runs \cup {None} /\ overlapped' \in BOOLEAN
    BY <2>1, <2>2, <2>5 DEF Trigger
  <2>. QED
    BY <2>2, <2>3, <2>4, <2>5
<1>8. reply' \in [Requests -> {"none", "running", "started", "error"}]
  <2>1. \/ UNCHANGED reply
        \/ \E q \in Requests, a \in {"running", "started", "error"} :
             reply' = [reply EXCEPT ![q] = a]
    BY DEF Next, Step, Returns, vars, BootstrapStart, BootstrapCancelled, StopBootstrap, StopWorker,
           Stopped, Granted, CheckedOut, CheckoutFailed, Trigger, RunBegin, Scan, FileDone, GoOn,
           RunFailed, RunCancelled, GitReturns, RunReturns, StopArrives, Arrive
  <2>. QED
    BY <2>1
<1>. QED
  BY <1>1, <1>2, <1>3, <1>4, <1>5, <1>6, <1>7, <1>8

(***************************************************************************)
(* The theorems.                                                           *)
(***************************************************************************)

(* The bootstrap alone is scheduled when the program starts.                *)
LEMMA IngestInit == Init => IInv
<1>. SUFFICES ASSUME Init PROVE IInv
  OBVIOUS
<1>. USE DEF Init
<1>1. /\ Len(ready) = 1 /\ ready[1] = Bootstrap /\ Len(checkout) = 0
      /\ ready \in Seq(Tasks) /\ checkout \in Seq(Tasks)
  BY DEF Tasks
<1>2. /\ pc[Bootstrap] = "start" /\ \A t \in Tasks : t # Bootstrap => pc[t] = "off"
      /\ Bootstrap \in Tasks /\ Shutdown \in Tasks /\ Shutdown # Bootstrap
      /\ Requests \subseteq Tasks \ {Bootstrap} /\ Runs \subseteq Tasks \ {Bootstrap}
  BY IngestAssumption DEF Tasks, IngestAssumption
<1>3. TypeOK
  <2>1. pc \in [Tasks -> PcValues] /\ Files \in Nat
    BY IngestAssumption DEF IngestAssumption, PcValues, Ended
  <2>2. left \in [Runs -> 0..Files] /\ reply \in [Requests -> {"none", "running", "started", "error"}]
    BY <2>1
  <2>3. done \in Nat /\ done <= Files /\ total \in {0, Files} /\ cancelled \subseteq Tasks
    BY <2>1
  <2>4. latest \in Runs \cup {None} /\ overlapped \in BOOLEAN
    OBVIOUS
  <2>5. status \in {"idle", "running", "complete", "error"}
    OBVIOUS
  <2>. HIDE DEF Init
  <2>. QED
    BY <1>1, <2>1, <2>2, <2>3, <2>4, <2>5 DEF TypeOK
<1>4. PcInv
  BY <1>2 DEF PcInv
<1>5. QueueInv
  <2>1. Due(Bootstrap) /\ \A t \in Tasks : Due(t) => t = Bootstrap
    BY <1>2 DEF Due
  <2>2. In(ready) = {Bootstrap} /\ Once(ready)
    BY <1>1 DEF In, Once
  <2>. QED
    BY <1>2, <2>1, <2>2 DEF QueueInv
<1>6. OrderInv
  BY <1>1, <1>2 DEF OrderInv, Behind, ReadyTasks
<1>7. LockInv
  <2>1. \A t \in Tasks : pc[t] \notin AtCheckout
    BY <1>2 DEF AtCheckout
  <2>2. 1..Len(checkout) = {}
    BY <1>1
  <2>. QED
    BY <1>2, <2>1, <2>2 DEF LockInv, Once, In
<1>8. StopInv
  BY <1>2 DEF StopInv
<1>9. LeftInv /\ LatestInv
  BY <1>2 DEF LeftInv, LatestInv, Live, Ended
<1>10. ProgressTrue
  BY <1>2 DEF ProgressTrue, Begun
<1>. QED
  BY <1>3, <1>4, <1>5, <1>6, <1>7, <1>8, <1>9, <1>10 DEF IInv

(* The inductive invariant, from the steps of the lemmas.                   *)
THEOREM Invariant == Spec => []IInv
<1>1. IInv /\ [Next]_vars => IInv'
  BY TypeStep, QueueStep, PcStep, LockStep, OrderStep, StopStep, LeftStep, RunStep DEF IInv
<1>. QED
  BY IngestInit, <1>1, PTL DEF Spec

(* The job's state has its type, the counts of the files among it.          *)
THEOREM TypeCorrect == Spec => []TypeOK
<1>1. IInv => TypeOK
  BY DEF IInv
<1>. QED
  BY Invariant, <1>1, PTL

(* Two triggers never lead to two runs at a time, in whatever order the     *)
(* checkout, the threads and the event loop take their turns.               *)
THEOREM OneRunAtATime == Spec => []OneRun
<1>1. IInv => OneRun
  BY DEF IInv, LatestInv, OneRun
<1>. QED
  BY Invariant, <1>1, PTL

(* The progress that GET /admin/ingest/status reads is that of the run.     *)
THEOREM ProgressIsTrue == Spec => []ProgressTrue
<1>1. IInv => ProgressTrue
  BY DEF IInv
<1>. QED
  BY Invariant, <1>1, PTL

(* When job.stop() has returned no task of the job is left to step.         *)
THEOREM StoppingLeavesNothing == Spec => []StopLeavesNothing
<1>1. IInv => StopLeavesNothing
  <2>. SUFFICES ASSUME IInv, pc[Shutdown] = "done", ~overlapped
                PROVE  ready = << >> /\ \A t \in Tasks : ~Live(t)
    BY DEF StopLeavesNothing
  <2>1. \A t \in Tasks : ~Live(t)
    <3>1. ~Live(Shutdown)
      BY DEF Live, Ended
    <3>2. ~Live(Bootstrap) /\ \A q \in Requests : ~Live(q)
      BY DEF IInv, StopInv
    <3>3. \A r \in Runs : ~Live(r)
      BY DEF IInv, LatestInv
    <3>. QED
      BY <3>1, <3>2, <3>3 DEF Tasks
  <2>2. \A t \in Tasks : ~Due(t)
    BY <2>1 DEF Due, Live, Ended
  <2>3. In(ready) = {}
    BY <2>2 DEF IInv, QueueInv
  <2>4. ready = << >>
    <3>1. ready \in Seq(Tasks)
      BY DEF IInv, TypeOK
    <3>2. ready # << >> => ready[1] \in In(ready)
      BY <3>1 DEF In
    <3>. QED
      BY <2>3, <3>2
  <2>. QED
    BY <2>1, <2>4
<1>. QED
  BY Invariant, <1>1, PTL
================================================================================
