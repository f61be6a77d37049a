------------------------- MODULE SearchProjectionProofs -------------------------
(***************************************************************************)
(* The index follows the database, proved for any writers, entries and     *)
(* bounds.                                                                 *)
(*                                                                         *)
(* The argument: as long as the history is orderly, an entry is on its way *)
(* with one sender at most, and what that sender has read is what is       *)
(* committed.  An entry that is on its way with nobody is settled: the     *)
(* last of Meilisearch's tasks that names it, or the index when there is   *)
(* none, holds its committed version.                                      *)
(***************************************************************************)
EXTENDS SearchProjection, SequenceTheorems, TLAPS

(* The task i is the last one that names e, and brings its version.         *)
Brings(i, e) ==
  /\ i \in 1..Len(queue) /\ e \in DOMAIN queue[i] /\ queue[i][e] = db[e]
  /\ \A j \in (i + 1)..Len(queue) : e \notin DOMAIN queue[j]

Settled(e) ==
  \/ \E i \in 1..Len(queue) : Brings(i, e)
  \/ doc[e] = db[e] /\ \A i \in 1..Len(queue) : e \notin DOMAIN queue[i]

(* Nothing is known of an entry that was never committed.                   *)
KnownInv ==
  \A e \in Entries : db[e] = 0 =>
    /\ doc[e] = 0
    /\ \A s \in Senders : e \notin ids[s]
    /\ \A i \in 1..Len(queue) : e \notin DOMAIN queue[i]

IdleInv == \A s \in Senders : pc[s] = "idle" => ids[s] = {}

(* An entry is on its way with one sender, which read what is committed.    *)
FlightInv ==
  orderly =>
    /\ \A s, t \in Senders : s # t => ids[s] \cap ids[t] = {}
    /\ \A s \in Senders : pc[s] = "read" => \A e \in ids[s] : snap[s][e] = db[e]

SettledInv ==
  orderly => \A e \in Entries : (\A s \in Senders : e \notin ids[s]) => Settled(e)

IInv == TypeOK /\ KnownInv /\ IdleInv /\ FlightInv /\ SettledInv

------------------------------------------------------------------------------
(* What is sent is a function from some entries to versions.                *)
LEMMA VersionsMember ==
  ASSUME NEW x \in Versions
  PROVE  /\ DOMAIN x \subseteq Entries
         /\ \A e \in DOMAIN x : x[e] \in 0..MaxVersion
BY DEF Versions

(* And every such function can be sent.                                     *)
LEMMA MemberOfVersions ==
  ASSUME NEW E \in SUBSET Entries, NEW x \in [E -> 0..MaxVersion]
  PROVE  x \in Versions
BY DEF Versions

(* A sender that has nothing to send has documents of no entry.             *)
LEMMA NothingSent == Nothing \in Versions /\ DOMAIN Nothing = {}
<1>1. Nothing \in [{} -> 0..MaxVersion] /\ DOMAIN Nothing = {}
  BY DEF Nothing
<1>. QED
  BY <1>1, MemberOfVersions

(* The invariant holds of an index that is what the database is.            *)
LEMMA InitInv == Init => IInv
<1>. SUFFICES ASSUME Init PROVE IInv
  OBVIOUS
<1>1. TypeOK
  BY ProjectionAssumption, NothingSent
  DEF Init, TypeOK, ProjectionAssumption, Senders
<1>2. KnownInv /\ IdleInv /\ FlightInv
  BY DEF Init, KnownInv, IdleInv, FlightInv
<1>3. SettledInv
  BY DEF Init, SettledInv, Settled
<1>. QED
  BY <1>1, <1>2, <1>3 DEF IInv

(* Type correctness is preserved.                                           *)
LEMMA TypeStep == TypeOK /\ [Next]_vars => TypeOK'
<1>. SUFFICES ASSUME TypeOK, [Next]_vars PROVE TypeOK'
  OBVIOUS
<1>. USE ProjectionAssumption DEF ProjectionAssumption
<1>1. ASSUME NEW w \in Writers, NEW E \in SUBSET Entries, Commit(w, E) PROVE TypeOK'
  <2>1. w \in Senders
    BY DEF Senders
  <2>2. db' \in [Entries -> 0..MaxVersion]
    BY <1>1 DEF Commit, TypeOK
  <2>3. orderly' \in BOOLEAN
    BY <1>1 DEF Commit, TypeOK
  <2>. QED
    BY <1>1, <2>1, <2>2, <2>3 DEF Commit, TypeOK
<1>2. ASSUME NEW w \in Writers, Load(w) PROVE TypeOK'
  <2>1. w \in Senders
    BY DEF Senders
  <2>2. [e \in ids[w] |-> db[e]] \in Versions
    <3>1. ids[w] \in SUBSET Entries
      BY <2>1 DEF TypeOK
    <3>2. [e \in ids[w] |-> db[e]] \in [ids[w] -> 0..MaxVersion]
      BY <3>1 DEF TypeOK
    <3>. QED
      BY <3>1, <3>2, MemberOfVersions
  <2>. QED
    BY <1>2, <2>1, <2>2 DEF Load, TypeOK
<1>3. CASE StartRebuild
  <2>. DEFINE E == {e \in Entries : db[e] > 0}
  <2>1. Rebuild \in Senders
    BY DEF Senders
  <2>2. [e \in E |-> db[e]] \in Versions
    <3>1. [e \in E |-> db[e]] \in [E -> 0..MaxVersion]
      BY DEF TypeOK
    <3>. QED
      BY <3>1, MemberOfVersions
  <2>3. /\ pc' = [pc EXCEPT ![Rebuild] = "read"]
        /\ ids' = [ids EXCEPT ![Rebuild] = E]
        /\ snap' = [snap EXCEPT ![Rebuild] = [e \in E |-> db[e]]]
        /\ orderly' \in BOOLEAN
        /\ UNCHANGED <<db, queue, doc>>
    BY <1>3 DEF StartRebuild
  <2>. QED
    BY <2>1, <2>2, <2>3 DEF TypeOK
<1>4. CASE Apply
  <2>1. Head(queue) \in Versions /\ Tail(queue) \in Seq(Versions)
    BY <1>4 DEF Apply, TypeOK
  <2>2. doc' \in [Entries -> 0..MaxVersion]
    BY <1>4, <2>1, VersionsMember DEF Apply, TypeOK
  <2>. QED
    BY <1>4, <2>1, <2>2 DEF Apply, TypeOK
<1>5. CASE Crash
  BY <1>5, NothingSent DEF Crash, TypeOK
<1>6. ASSUME NEW s \in Senders, Send(s) PROVE TypeOK'
  <2>1. queue' \in Seq(Versions)
    BY <1>6 DEF Send, TypeOK
  <2>. QED
    BY <1>6, <2>1, NothingSent DEF Send, Finish, TypeOK
<1>7. ASSUME NEW s \in Senders, Skip(s) PROVE TypeOK'
  BY <1>7, NothingSent DEF Skip, Finish, TypeOK
<1>8. CASE UNCHANGED vars
  BY <1>8 DEF vars, TypeOK
<1>. QED
  BY <1>1, <1>2, <1>3, <1>4, <1>5, <1>6, <1>7, <1>8 DEF Next

(* An entry comes to be known by its commit, and nothing is read or sent of *)
(* an entry that is not known.                                              *)
LEMMA KnownStep == IInv /\ [Next]_vars => KnownInv'
<1>. SUFFICES ASSUME TypeOK, KnownInv, [Next]_vars,
                     NEW e \in Entries, db'[e] = 0
              PROVE  /\ doc'[e] = 0
                     /\ \A s \in Senders : e \notin ids'[s]
                     /\ \A i \in 1..Len(queue') : e \notin DOMAIN queue'[i]
  BY DEF IInv, KnownInv
<1>. USE ProjectionAssumption DEF ProjectionAssumption
<1>1. ASSUME NEW w \in Writers, NEW E \in SUBSET Entries, Commit(w, E)
      PROVE  /\ db[e] = 0 /\ e \notin E
             /\ UNCHANGED <<doc, queue>>
             /\ \A s \in Senders : ids'[s] \subseteq ids[s] \cup E
  <2>1. /\ db' = [x \in Entries |-> IF x \in E THEN db[x] + 1 ELSE db[x]]
        /\ UNCHANGED <<doc, queue>>
        /\ ids' = [ids EXCEPT ![w] = E] \/ ids' = ids
    BY <1>1 DEF Commit
  <2>2. e \notin E /\ db[e] = 0
    BY <2>1 DEF TypeOK
  <2>. QED
    BY <2>1, <2>2 DEF TypeOK
<1>2. ASSUME NEW w \in Writers, Load(w) PROVE UNCHANGED <<db, doc, queue, ids>>
  BY <1>2 DEF Load
<1>3. CASE StartRebuild
  <2>1. /\ ids' = [ids EXCEPT ![Rebuild] = {x \in Entries : db[x] > 0}]
        /\ UNCHANGED <<db, doc, queue>>
    BY <1>3 DEF StartRebuild
  <2>2. \A s \in Senders : ids'[s] = ids[s] \/ ids'[s] = {x \in Entries : db[x] > 0}
    BY <2>1 DEF TypeOK
  <2>. QED
    BY <2>1, <2>2 DEF KnownInv
<1>4. CASE Apply
  <2>1. queue # << >> /\ queue' = Tail(queue) /\ queue \in Seq(Versions)
        /\ UNCHANGED <<db, ids>> /\ 1 \in 1..Len(queue) /\ Head(queue) = queue[1]
    BY <1>4 DEF Apply, TypeOK
  <2>2. \A i \in 1..Len(queue') : i + 1 \in 1..Len(queue) /\ queue'[i] = queue[i + 1]
    BY <2>1
  <2>3. doc'[e] = 0
    BY <1>4, <2>1 DEF Apply, KnownInv
  <2>. QED
    BY <2>1, <2>2, <2>3 DEF KnownInv
<1>5. CASE Crash
  BY <1>5 DEF Crash, KnownInv
<1>6. ASSUME NEW s \in Senders, Send(s)
      PROVE  /\ doc'[e] = 0
             /\ \A t \in Senders : e \notin ids'[t]
             /\ \A i \in 1..Len(queue') : e \notin DOMAIN queue'[i]
  <2>1. /\ pc[s] = "read" /\ queue' = Append(queue, snap[s])
        /\ ids' = [ids EXCEPT ![s] = {}] /\ UNCHANGED <<db, doc>>
    BY <1>6 DEF Send, Finish
  <2>2. e \notin DOMAIN snap[s]
    BY <2>1 DEF TypeOK, KnownInv
  <2>3. snap[s] \in Versions /\ queue \in Seq(Versions) /\ ids \in [Senders -> SUBSET Entries]
    BY DEF TypeOK
  <2>4. \A i \in 1..Len(queue') :
          queue'[i] = snap[s] \/ (i \in 1..Len(queue) /\ queue'[i] = queue[i])
    BY <2>1, <2>3
  <2>. QED
    BY <2>1, <2>2, <2>3, <2>4 DEF KnownInv
<1>7. ASSUME NEW s \in Senders, Skip(s)
      PROVE  UNCHANGED <<db, doc, queue>> /\ \A t \in Senders : ids'[t] \subseteq ids[t]
  BY <1>7 DEF Skip, Finish, TypeOK
<1>8. CASE UNCHANGED vars
  BY <1>8 DEF vars, KnownInv
<1>. QED
  BY <1>1, <1>2, <1>3, <1>4, <1>5, <1>6, <1>7, <1>8 DEF Next, KnownInv

(* A sender that has nothing to send has no entries.                        *)
LEMMA IdleStep == IInv /\ [Next]_vars => IdleInv'
<1>. SUFFICES ASSUME TypeOK, IdleInv, [Next]_vars, NEW s \in Senders, pc'[s] = "idle"
              PROVE  ids'[s] = {}
  BY DEF IInv, IdleInv
<1>1. ASSUME NEW w \in Writers, NEW E \in SUBSET Entries, Commit(w, E) PROVE ids'[s] = {}
  BY <1>1 DEF Commit, TypeOK, IdleInv, Senders
<1>2. ASSUME NEW w \in Writers, Load(w) PROVE ids'[s] = {}
  BY <1>2 DEF Load, TypeOK, IdleInv, Senders
<1>3. CASE StartRebuild
  BY <1>3 DEF StartRebuild, TypeOK, IdleInv, Senders
<1>4. CASE Apply
  BY <1>4 DEF Apply, IdleInv
<1>5. CASE Crash
  BY <1>5 DEF Crash, IdleInv
<1>6. ASSUME NEW t \in Senders, Send(t) \/ Skip(t) PROVE ids'[s] = {}
  BY <1>6 DEF Send, Skip, Finish, TypeOK, IdleInv
<1>7. CASE UNCHANGED vars
  BY <1>7 DEF vars, IdleInv
<1>. QED
  BY <1>1, <1>2, <1>3, <1>4, <1>5, <1>6, <1>7 DEF Next

(* Entries in flight: a commit of one of them ends the orderly history, so  *)
(* what was read of the others is still what is committed.                  *)
LEMMA FlightStep == IInv /\ [Next]_vars => FlightInv'
<1>. SUFFICES ASSUME TypeOK, IdleInv, FlightInv, [Next]_vars, orderly'
              PROVE  /\ \A s, t \in Senders : s # t => ids'[s] \cap ids'[t] = {}
                     /\ \A s \in Senders : pc'[s] = "read" =>
                          \A e \in ids'[s] : snap'[s][e] = db'[e]
  BY DEF IInv, FlightInv
<1>. USE ProjectionAssumption DEF ProjectionAssumption
<1>1. ASSUME NEW w \in Writers, NEW E \in SUBSET Entries, Commit(w, E) PROVE FlightInv'
  <2>1. /\ pc[w] = "idle" /\ orderly /\ ~Shared(w, E)
        /\ pc' = [pc EXCEPT ![w] = "committed"] /\ ids' = [ids EXCEPT ![w] = E]
        /\ db' = [e \in Entries |-> IF e \in E THEN db[e] + 1 ELSE db[e]]
        /\ UNCHANGED snap
    BY <1>1 DEF Commit, TypeOK
  <2>2. \A t \in Senders \ {w} : ids[t] \cap E = {}
    BY <2>1 DEF Shared, IdleInv
  <2>3. w \in Senders /\ ids \in [Senders -> SUBSET Entries] /\ pc \in [Senders -> {"idle", "committed", "read"}]
    BY DEF Senders, TypeOK
  <2>4. \A s, t \in Senders : s # t => ids'[s] \cap ids'[t] = {}
    BY <2>1, <2>2, <2>3 DEF FlightInv
  <2>5. ASSUME NEW s \in Senders, pc'[s] = "read", NEW e \in ids'[s]
        PROVE  snap'[s][e] = db'[e]
    <3>1. s # w /\ pc[s] = "read" /\ e \in ids[s] /\ e \notin E /\ e \in Entries
      BY <2>1, <2>2, <2>3, <2>5
    <3>. QED
      BY <2>1, <3>1 DEF FlightInv
  <2>. QED
    BY <2>4, <2>5 DEF FlightInv
<1>2. ASSUME NEW w \in Writers, Load(w) PROVE FlightInv'
  BY <1>2 DEF Load, FlightInv, TypeOK, Senders
<1>3. CASE StartRebuild
  <2>. DEFINE E == {e \in Entries : db[e] > 0}
  <2>1. /\ pc[Rebuild] = "idle" /\ \A w \in Writers : pc[w] = "idle"
        /\ pc' = [pc EXCEPT ![Rebuild] = "read"]
        /\ ids' = [ids EXCEPT ![Rebuild] = E]
        /\ snap' = [snap EXCEPT ![Rebuild] = [e \in E |-> db[e]]]
        /\ UNCHANGED db
    BY <1>3 DEF StartRebuild
  <2>2. \A s \in Senders : s # Rebuild => ids'[s] = {} /\ pc'[s] = "idle"
    BY <2>1 DEF IdleInv, TypeOK, Senders
  <2>3. ids'[Rebuild] = E /\ snap'[Rebuild] = [e \in E |-> db[e]]
    BY <2>1 DEF TypeOK, Senders
  <2>. QED
    BY <2>1, <2>2, <2>3 DEF FlightInv
<1>4. CASE Apply
  BY <1>4 DEF Apply, FlightInv
<1>5. CASE Crash
  BY <1>5 DEF Crash
<1>6. ASSUME NEW s \in Senders, Send(s) PROVE FlightInv'
  BY <1>6 DEF Send, Finish, FlightInv, TypeOK
<1>7. ASSUME NEW s \in Senders, Skip(s) PROVE FALSE
  BY <1>7 DEF Skip
<1>8. CASE UNCHANGED vars
  BY <1>8 DEF vars, FlightInv
<1>. QED
  BY <1>1, <1>2, <1>3, <1>4, <1>5, <1>6, <1>7, <1>8 DEF Next, FlightInv

(* An entry that nobody has in flight is settled: sending makes it so, and  *)
(* applying a task keeps it so.                                             *)
LEMMA SettledStep == IInv /\ [Next]_vars => SettledInv'
<1>. SUFFICES ASSUME TypeOK, KnownInv, IdleInv, FlightInv, SettledInv, [Next]_vars, orderly',
                     NEW e \in Entries, \A s \in Senders : e \notin ids'[s]
              PROVE  Settled(e)'
  BY DEF IInv, SettledInv
<1>. USE ProjectionAssumption DEF ProjectionAssumption
<1>q. queue \in Seq(Versions) /\ ids \in [Senders -> SUBSET Entries]
  BY DEF TypeOK
<1>k. ASSUME UNCHANGED <<doc, queue>>, db'[e] = db[e], Settled(e) PROVE Settled(e)'
  BY <1>k DEF Settled, Brings
<1>1. ASSUME NEW w \in Writers, NEW E \in SUBSET Entries, Commit(w, E) PROVE Settled(e)'
  <2>1. /\ pc[w] = "idle" /\ orderly /\ UNCHANGED <<doc, queue>>
        /\ ids' = [ids EXCEPT ![w] = E]
        /\ db' = [x \in Entries |-> IF x \in E THEN db[x] + 1 ELSE db[x]]
    BY <1>1 DEF Commit, TypeOK
  <2>2. w \in Senders /\ ids[w] = {}
    BY <2>1 DEF IdleInv, Senders
  <2>3. e \notin E /\ \A s \in Senders : e \notin ids[s]
    BY <1>q, <2>1, <2>2
  <2>. QED
    BY <1>k, <2>1, <2>3 DEF SettledInv
<1>2. ASSUME NEW w \in Writers, Load(w) PROVE Settled(e)'
  BY <1>2, <1>k DEF Load, SettledInv
<1>3. CASE StartRebuild
  <2>1. UNCHANGED <<doc, queue, db>> /\ e \notin {x \in Entries : db[x] > 0}
    BY <1>3, <1>q DEF StartRebuild, Senders
  <2>2. db[e] = 0
    BY <2>1 DEF TypeOK
  <2>. QED
    BY <2>1, <2>2 DEF KnownInv, Settled
<1>4. CASE Apply
  <2>1. /\ queue # << >> /\ queue' = Tail(queue) /\ UNCHANGED <<db, ids, orderly>>
        /\ doc' = [x \in Entries |-> IF x \in DOMAIN Head(queue) THEN Head(queue)[x] ELSE doc[x]]
    BY <1>4 DEF Apply
  <2>2. 1 \in 1..Len(queue) /\ Head(queue) = queue[1] /\ Len(queue') = Len(queue) - 1
        /\ Len(queue) \in Nat
    BY <1>q, <2>1
  <2>3. \A i \in 1..Len(queue') : i + 1 \in 1..Len(queue) /\ queue'[i] = queue[i + 1]
    BY <1>q, <2>1
  <2>4. Settled(e)
    BY <2>1 DEF SettledInv
  <2>5. CASE doc[e] = db[e] /\ \A i \in 1..Len(queue) : e \notin DOMAIN queue[i]
    BY <2>1, <2>2, <2>3, <2>5 DEF Settled
  <2>6. ASSUME NEW i \in 1..Len(queue), Brings(i, e) PROVE Settled(e)'
    <3>1. CASE i = 1
      <4>1. doc'[e] = db'[e]
        BY <2>1, <2>2, <2>6, <3>1 DEF Brings
      <4>2. \A j \in 1..Len(queue') : e \notin DOMAIN queue'[j]
        BY <2>2, <2>3, <2>6, <3>1 DEF Brings
      <4>. QED
        BY <4>1, <4>2 DEF Settled
    <3>2. CASE i # 1
      <4>1. i - 1 \in 1..Len(queue') /\ queue'[i - 1] = queue[i]
        BY <2>2, <2>3, <3>2
      <4>2. \A j \in ((i - 1) + 1)..Len(queue') : e \notin DOMAIN queue'[j]
        BY <2>2, <2>3, <2>6, <3>2 DEF Brings
      <4>3. Brings(i - 1, e)'
        BY <2>1, <2>6, <4>1, <4>2 DEF Brings
      <4>. QED
        BY <4>1, <4>3 DEF Settled
    <3>. QED
      BY <3>1, <3>2
  <2>. QED
    BY <2>4, <2>5, <2>6 DEF Settled
<1>5. CASE Crash
  BY <1>5 DEF Crash
<1>6. ASSUME NEW s \in Senders, Send(s) PROVE Settled(e)'
  <2>1. /\ pc[s] = "read" /\ queue' = Append(queue, snap[s])
        /\ ids' = [ids EXCEPT ![s] = {}] /\ UNCHANGED <<db, doc, orderly>>
    BY <1>6 DEF Send, Finish
  <2>2. DOMAIN snap[s] = ids[s] /\ snap[s] \in Versions
    BY <2>1 DEF TypeOK
  <2>3. /\ Len(queue') = Len(queue) + 1 /\ Len(queue) \in Nat
        /\ queue'[Len(queue) + 1] = snap[s]
        /\ \A i \in 1..Len(queue) : queue'[i] = queue[i]
    BY <1>q, <2>1, <2>2
  <2>4. CASE e \in ids[s]
    <3>1. snap[s][e] = db[e]
      BY <2>1, <2>4 DEF FlightInv
    <3>2. PICK n \in Nat : n = Len(queue) + 1
      BY <2>3
    <3>3. Brings(n, e)'
      BY <2>1, <2>2, <2>3, <2>4, <3>1, <3>2 DEF Brings
    <3>. QED
      BY <2>3, <3>2, <3>3 DEF Settled
  <2>5. CASE e \notin ids[s]
    <3>1. Settled(e)
      BY <1>q, <2>1, <2>5 DEF SettledInv
    <3>2. CASE doc[e] = db[e] /\ \A i \in 1..Len(queue) : e \notin DOMAIN queue[i]
      BY <2>1, <2>2, <2>3, <2>5, <3>2 DEF Settled
    <3>3. ASSUME NEW i \in 1..Len(queue), Brings(i, e) PROVE Settled(e)'
      <4>1. Brings(i, e)'
        BY <2>1, <2>2, <2>3, <2>5, <3>3 DEF Brings
      <4>2. i \in 1..Len(queue')
        BY <2>3
      <4>. QED
        BY <4>1, <4>2 DEF Settled
    <3>. QED
      BY <3>1, <3>2, <3>3 DEF Settled
  <2>. QED
    BY <2>4, <2>5
<1>7. ASSUME NEW s \in Senders, Skip(s) PROVE FALSE
  BY <1>7 DEF Skip
<1>8. CASE UNCHANGED vars
  BY <1>8, <1>k DEF vars, SettledInv
<1>. QED
  BY <1>1, <1>2, <1>3, <1>4, <1>5, <1>6, <1>7, <1>8 DEF Next

------------------------------------------------------------------------------
(* The strengthening is an invariant.                                       *)
THEOREM Invariant == Spec => []IInv
<1>1. IInv /\ [Next]_vars => IInv'
  BY TypeStep, KnownStep, IdleStep, FlightStep, SettledStep DEF IInv
<1>. QED
  BY <1>1, InitInv, PTL DEF Spec

(* Every variable of the projection keeps its type.                         *)
THEOREM TypeCorrect == Spec => []TypeOK
<1>1. IInv => TypeOK
  BY DEF IInv
<1>. QED
  BY <1>1, Invariant, PTL

(* When nothing is under way and no document was lost or overtaken, the     *)
(* index is what the database is, for any number of writers.                *)
THEOREM IndexIsCurrent == Spec => []OrderlyMeansCurrent
<1>1. IInv => OrderlyMeansCurrent
  <2>. SUFFICES ASSUME TypeOK, IdleInv, SettledInv, orderly, Quiet PROVE doc = db
    BY DEF IInv, OrderlyMeansCurrent
  <2>1. \A e \in Entries : Settled(e)
    BY DEF Quiet, IdleInv, SettledInv
  <2>2. \A e \in Entries : doc[e] = db[e]
    BY <2>1 DEF Quiet, Settled
  <2>. QED
    BY <2>2 DEF TypeOK
<1>. QED
  BY <1>1, Invariant, PTL
================================================================================
