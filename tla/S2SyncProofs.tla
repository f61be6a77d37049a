----------------------------- MODULE S2SyncProofs -----------------------------
(***************************************************************************)
(* What S2Sync keeps, proved for any number of workers, entries, papers    *)
(* and citations, whatever the resolvers match and the API answers.        *)
(*                                                                         *)
(* The argument: a claim has one holder, so an entry that is being         *)
(* resolved stays unresolved; a row lock has one holder, so a row that is  *)
(* about to be inserted as a stub stays absent, and a hydration that       *)
(* reaches its commit has every row its links need, in its own             *)
(* transaction or committed.                                               *)
(***************************************************************************)
EXTENDS S2Sync, TLAPS

Hydrating == {"fetch", "stubs", "commit"}

(* Where a call is says what it knows of its entry and its paper.          *)
CallInv ==
  \A w \in Workers :
    /\ pc[w] \in InSync => entry[w] \in Entries
    /\ pc[w] \in {"setid", "check", "corpus", "api"} \cup InTx => s2id[w] \in Papers
    /\ pc[w] \in {"resolve", "setid"} => entryS2[entry[w]] = None
    /\ pc[w] = "setid" => s2id[w] \in Matches[entry[w]]
    /\ pc[w] \in {"check", "corpus", "api"} \cup InTx => entryS2[entry[w]] = s2id[w]
    /\ want[w] # None => pc[w] \in {"upsert", "stubs"}
    /\ pc[w] = "upsert" => want[w] = s2id[w]
    /\ pc[w] = "stubs" => want[w] \in todo[w]
    /\ pc[w] = "commit" => todo[w] = {}

(* Row locks: one holder each, the hydrated paper first, and otherwise     *)
(* only rows nobody has committed.                                         *)
LockInv ==
  /\ \A v, w \in Workers : v # w => locks[v] \cap locks[w] = {}
  /\ \A w \in Workers :
       /\ pc[w] \notin Hydrating => locks[w] = {}
       /\ pc[w] \in Hydrating => s2id[w] \in locks[w]
       /\ \A p \in locks[w] : p = s2id[w] \/ row[p] = "absent"

(* The ends of fetched links: the paper itself, still to be written,       *)
(* written by this transaction, or there already.                          *)
FetchedInv ==
  \A w \in Workers : pc[w] \in {"stubs", "commit"} =>
    \A l \in got[w].citations \cup got[w].references :
      /\ l[1] = s2id[w] \/ l[2] = s2id[w]
      /\ \A p \in {l[1], l[2]} :
           p = s2id[w] \/ p \in todo[w] \/ p \in locks[w] \/ row[p] # "absent"

IInv == TypeOK /\ ClaimsExact /\ CallInv /\ LockInv /\ FetchedInv /\ LinksGrounded
------------------------------------------------------------------------------
(* The statement that writes the rows of links moves between typed states. *)
NextRowTyped(w) ==
  /\ todo' \in [Workers -> SUBSET Papers]
  /\ want' \in [Workers -> Papers \cup {None}]
  /\ pc' \in [Workers -> PcValues]

(* So does every row it writes.                                            *)
LEMMA NextRowTypes ==
  ASSUME TypeOK, NEW w \in Workers, NEW rest \in SUBSET Papers, NextRow(w, rest)
  PROVE  NextRowTyped(w)
<1>1. todo' \in [Workers -> SUBSET Papers]
  BY DEF NextRow, TypeOK
<1>2. CASE rest = {}
  <2>1. want' = [want EXCEPT ![w] = None] /\ pc' = [pc EXCEPT ![w] = "commit"]
    BY <1>2 DEF NextRow
  <2>2. want' \in [Workers -> Papers \cup {None}]
    BY <2>1 DEF TypeOK
  <2>3. pc' \in [Workers -> PcValues]
    BY <2>1 DEF TypeOK, PcValues, InSync, InTx
  <2>. QED
    BY <1>1, <2>2, <2>3 DEF NextRowTyped
<1>3. CASE rest # {}
  <2>1. PICK p \in rest : want' = [want EXCEPT ![w] = p]
    BY <1>3 DEF NextRow
  <2>2. want' \in [Workers -> Papers \cup {None}]
    BY <2>1 DEF TypeOK
  <2>3. pc' = [pc EXCEPT ![w] = "stubs"]
    BY <1>3 DEF NextRow
  <2>4. pc' \in [Workers -> PcValues]
    BY <2>3 DEF TypeOK, PcValues, InSync, InTx
  <2>. QED
    BY <1>1, <2>2, <2>4 DEF NextRowTyped
<1>. QED
  BY <1>2, <1>3

(* Every step keeps the types.                                             *)
LEMMA TypeStep ==
  ASSUME TypeOK, CallInv, Next
  PROVE  TypeOK'
<1>. USE DEF TypeOK, PcValues, InSync, InTx, StatusValues, NoLinks, store, call, tx
<1>1. ASSUME NEW w \in Workers, NEW e \in Entries, Claim(w, e) PROVE TypeOK'
  <2>1. CASE e \in claimed
    BY <1>1, <2>1 DEF Claim, Answer
  <2>2. CASE e \notin claimed
    <3>1. pc' = [pc EXCEPT ![w] = "load"] /\ entry' = [entry EXCEPT ![w] = e]
      BY <1>1, <2>2 DEF Claim, Goto
    <3>2. claimed' \subseteq Entries
      BY <1>1, <2>2 DEF Claim
    <3>. QED
      BY <1>1, <2>2, <3>1, <3>2 DEF Claim
  <2>. QED
    BY <2>1, <2>2
<1>2. ASSUME NEW w \in Workers, LoadEntry(w) PROVE TypeOK'
  <2>1. PICK to \in {"resolve", "check", "release"} : pc' = [pc EXCEPT ![w] = to]
    BY <1>2 DEF LoadEntry, Goto
  <2>2. s2id' \in [Workers -> Papers \cup {None}]
    BY <1>2 DEF LoadEntry, Goto, CallInv
  <2>3. status' \in [Workers -> StatusValues \cup {None}]
    BY <1>2 DEF LoadEntry, Answer
  <2>. QED
    BY <1>2, <2>1, <2>2, <2>3 DEF LoadEntry
<1>3. ASSUME NEW w \in Workers, Resolve(w) PROVE TypeOK'
  <2>1. CASE \E p \in Matches[entry[w]] :
               /\ Goto(w, "resolve", "setid")
               /\ s2id' = [s2id EXCEPT ![w] = p]
               /\ UNCHANGED status
    <3>1. PICK p \in Matches[entry[w]] : s2id' = [s2id EXCEPT ![w] = p]
      BY <2>1
    <3>2. p \in Papers
      BY <1>3, SyncAssumption DEF Resolve, CallInv
    <3>. QED
      BY <1>3, <2>1, <3>1, <3>2 DEF Resolve, Goto
  <2>2. CASE Goto(w, "resolve", "release") /\ Answer(w, "no_match") /\ UNCHANGED s2id
    BY <1>3, <2>2 DEF Resolve, Goto, Answer
  <2>. QED
    BY <1>3, <2>1, <2>2 DEF Resolve
<1>4. ASSUME NEW w \in Workers, SetEntryId(w) PROVE TypeOK'
  BY <1>4 DEF SetEntryId, Goto
<1>5. ASSUME NEW w \in Workers, CheckStale(w) PROVE TypeOK'
  BY <1>5 DEF CheckStale, Goto, Answer
<1>6. ASSUME NEW w \in Workers, GetPaper(w) PROVE TypeOK'
  <2>1. pc' \in [Workers -> PcValues]
    <3>1. PICK to \in {"upsert", "api", "release"} : pc' = [pc EXCEPT ![w] = to]
      BY <1>6 DEF GetPaper, Goto
    <3>. QED
      BY <3>1
  <2>2. byApi' \in [Workers -> BOOLEAN]
    BY <1>6 DEF GetPaper
  <2>3. want' \in [Workers -> Papers \cup {None}]
    <3>1. s2id[w] \in Papers \cup {None}
      OBVIOUS
    <3>. QED
      BY <1>6, <3>1 DEF GetPaper
  <2>4. status' \in [Workers -> StatusValues \cup {None}]
    BY <1>6 DEF GetPaper, Answer
  <2>. QED
    BY <1>6, <2>1, <2>2, <2>3, <2>4 DEF GetPaper
<1>7. ASSUME NEW w \in Workers, UpsertPaper(w) PROVE TypeOK'
  BY <1>7 DEF UpsertPaper, Goto, CallInv
<1>8. ASSUME NEW w \in Workers, FetchLinks(w) PROVE TypeOK'
  <2>1. PICK c \in SUBSET Links, r \in SUBSET Links :
          /\ c \subseteq Citations(s2id[w]) /\ r \subseteq References(s2id[w])
          /\ got' = [got EXCEPT ![w] = [citations |-> c, references |-> r]]
          /\ NextRow(w, Ends(c \cup r) \ {s2id[w]})
    BY <1>8 DEF FetchLinks, Pages, Citations, References
  <2>2. Ends(c \cup r) \ {s2id[w]} \subseteq Papers
    BY SyncAssumption DEF Ends
  <2>3. NextRowTyped(w)
    BY <2>1, <2>2, NextRowTypes
  <2>4. got' \in [Workers -> [citations : SUBSET Links, references : SUBSET Links]]
    BY <2>1
  <2>. QED
    BY <1>8, <2>3, <2>4 DEF FetchLinks, NextRowTyped
<1>9. ASSUME NEW w \in Workers, InsertStub(w) PROVE TypeOK'
  <2>1. NextRowTyped(w)
    BY <1>9, NextRowTypes DEF InsertStub
  <2>2. locks' \in [Workers -> SUBSET Papers]
    BY <1>9 DEF InsertStub, CallInv
  <2>. QED
    BY <1>9, <2>1, <2>2 DEF InsertStub, NextRowTyped
<1>10. ASSUME NEW w \in Workers, Commit(w) PROVE TypeOK'
  <2>1. stored' \subseteq Links
    BY <1>10 DEF Commit
  <2>2. row' \in [Papers -> {"absent", "stub", "full"}] /\ fresh' \in [Papers -> BOOLEAN]
    BY <1>10 DEF Commit
  <2>. QED
    BY <1>10, <2>1, <2>2 DEF Commit, Goto, Answer, EndTx
<1>11. ASSUME NEW w \in Workers, Raise(w) PROVE TypeOK'
  BY <1>11 DEF Raise, Answer, EndTx
<1>12. ASSUME NEW w \in Workers, DeadlockVictim(w) PROVE TypeOK'
  BY <1>12 DEF DeadlockVictim, Answer, EndTx
<1>13. ASSUME NEW w \in Workers, Release(w) PROVE TypeOK'
  BY <1>13 DEF Release, Goto
<1>14. ASSUME NEW p \in Papers, Expire(p) PROVE TypeOK'
  BY <1>14 DEF Expire
<1>15. CASE Restart
  BY <1>15 DEF Restart
<1>. QED
  BY <1>1, <1>2, <1>3, <1>4, <1>5, <1>6, <1>7, <1>8, <1>9, <1>10, <1>11, <1>12, <1>13, <1>14, <1>15 DEF Next, Step

(* Whoever waits for a row is in a statement that writes one.               *)
LEMMA WaiterWrites ==
  ASSUME TypeOK, CallInv, NEW w \in Workers, DeadlockVictim(w)
  PROVE  pc[w] \in {"upsert", "stubs"}
<1>1. PICK v \in Workers : want[w] \in locks[v]
  BY DEF DeadlockVictim, Cycle, Waits
<1>2. want[w] # None
  BY <1>1, SyncAssumption DEF TypeOK
<1>. QED
  BY <1>2 DEF CallInv

(* The task goes on with its call; the others stay where they are.          *)
Moves(w) ==
  /\ pc[w] \in InSync /\ pc'[w] \in InSync
  /\ \A v \in Workers \ {w} : pc'[v] = pc[v]

(* Claims stay exact in a step that starts and ends no call.                *)
LEMMA ClaimsFrame ==
  ASSUME ClaimsExact, UNCHANGED <<claimed, entry>>, NEW w \in Workers, Moves(w)
  PROVE  ClaimsExact'
BY DEF Moves, ClaimsExact

(* A claim is taken by one task and given back by the same task.           *)
LEMMA ClaimsStep ==
  ASSUME IInv, Next
  PROVE  ClaimsExact'
<1>. USE DEF IInv, PcValues, InSync, InTx, StatusValues, NoLinks, store, call, tx
<1>1. ASSUME NEW w \in Workers, NEW e \in Entries, Claim(w, e) PROVE ClaimsExact'
  <2>1. CASE e \in claimed
    BY <1>1, <2>1 DEF Claim, ClaimsExact
  <2>2. CASE e \notin claimed
    <3>1. /\ claimed' = claimed \cup {e}
          /\ pc[w] = "idle" /\ pc'[w] = "load" /\ entry'[w] = e
          /\ \A v \in Workers \ {w} : pc'[v] = pc[v] /\ entry'[v] = entry[v]
      BY <1>1, <2>2 DEF Claim, Goto, TypeOK
    <3>. QED
      BY <2>2, <3>1 DEF ClaimsExact
  <2>. QED
    BY <2>1, <2>2
<1>2. ASSUME NEW w \in Workers, LoadEntry(w) PROVE ClaimsExact'
  <2>1. Moves(w)
    BY <1>2 DEF LoadEntry, Goto, Moves, TypeOK
  <2>. QED
    BY <1>2, <2>1, ClaimsFrame DEF LoadEntry
<1>3. ASSUME NEW w \in Workers, Resolve(w) PROVE ClaimsExact'
  <2>1. Moves(w)
    BY <1>3 DEF Resolve, Goto, Moves, TypeOK
  <2>. QED
    BY <1>3, <2>1, ClaimsFrame DEF Resolve
<1>4. ASSUME NEW w \in Workers, SetEntryId(w) PROVE ClaimsExact'
  <2>1. Moves(w)
    BY <1>4 DEF SetEntryId, Goto, Moves, TypeOK
  <2>. QED
    BY <1>4, <2>1, ClaimsFrame DEF SetEntryId
<1>5. ASSUME NEW w \in Workers, CheckStale(w) PROVE ClaimsExact'
  <2>1. Moves(w)
    BY <1>5 DEF CheckStale, Goto, Moves, TypeOK
  <2>. QED
    BY <1>5, <2>1, ClaimsFrame DEF CheckStale
<1>6. ASSUME NEW w \in Workers, GetPaper(w) PROVE ClaimsExact'
  <2>1. Moves(w)
    BY <1>6 DEF GetPaper, Goto, Moves, TypeOK
  <2>. QED
    BY <1>6, <2>1, ClaimsFrame DEF GetPaper
<1>7. ASSUME NEW w \in Workers, UpsertPaper(w) PROVE ClaimsExact'
  <2>1. Moves(w)
    BY <1>7 DEF UpsertPaper, Goto, Moves, TypeOK
  <2>. QED
    BY <1>7, <2>1, ClaimsFrame DEF UpsertPaper
<1>8. ASSUME NEW w \in Workers, FetchLinks(w) PROVE ClaimsExact'
  <2>1. Moves(w)
    BY <1>8 DEF FetchLinks, NextRow, Moves, TypeOK
  <2>. QED
    BY <1>8, <2>1, ClaimsFrame DEF FetchLinks
<1>9. ASSUME NEW w \in Workers, InsertStub(w) PROVE ClaimsExact'
  <2>1. Moves(w)
    BY <1>9 DEF InsertStub, NextRow, Moves, TypeOK
  <2>. QED
    BY <1>9, <2>1, ClaimsFrame DEF InsertStub
<1>10. ASSUME NEW w \in Workers, Commit(w) PROVE ClaimsExact'
  <2>1. Moves(w)
    BY <1>10 DEF Commit, Goto, Moves, TypeOK
  <2>. QED
    BY <1>10, <2>1, ClaimsFrame DEF Commit
<1>11. ASSUME NEW w \in Workers, Raise(w) PROVE ClaimsExact'
  <2>1. Moves(w)
    BY <1>11 DEF Raise, Moves, TypeOK
  <2>. QED
    BY <1>11, <2>1, ClaimsFrame DEF Raise
<1>12. ASSUME NEW w \in Workers, DeadlockVictim(w) PROVE ClaimsExact'
  <2>1. Moves(w)
    BY <1>12, WaiterWrites DEF DeadlockVictim, Moves, TypeOK
  <2>. QED
    BY <1>12, <2>1, ClaimsFrame DEF DeadlockVictim
<1>13. ASSUME NEW w \in Workers, Release(w) PROVE ClaimsExact'
  BY <1>13 DEF Release, Goto, TypeOK, ClaimsExact
<1>14. ASSUME NEW p \in Papers, Expire(p) PROVE ClaimsExact'
  BY <1>14 DEF Expire, ClaimsExact
<1>15. CASE Restart
  BY <1>15 DEF Restart, ClaimsExact
<1>. QED
  BY <1>1, <1>2, <1>3, <1>4, <1>5, <1>6, <1>7, <1>8, <1>9, <1>10, <1>11, <1>12, <1>13, <1>14, <1>15 DEF Next, Step

(* A task keeps knowing its entry and its paper; no other task resolves its entry.*)
LEMMA CallStep ==
  ASSUME IInv, Next
  PROVE  CallInv'
<1>. USE DEF IInv, TypeOK, ClaimsExact, CallInv, PcValues, InSync, InTx, StatusValues, NoLinks, store, call, tx
<1>1. ASSUME NEW w \in Workers, NEW e \in Entries, Claim(w, e) PROVE CallInv'
  BY <1>1 DEF Claim, Goto, Answer
<1>2. ASSUME NEW w \in Workers, LoadEntry(w) PROVE CallInv'
  BY <1>2 DEF LoadEntry, Goto
<1>3. ASSUME NEW w \in Workers, Resolve(w) PROVE CallInv'
  <2>1. ASSUME NEW p \in Matches[entry[w]], s2id' = [s2id EXCEPT ![w] = p],
               Goto(w, "resolve", "setid")
        PROVE  CallInv'
    <3>1. p \in Papers
      BY <1>3, SyncAssumption DEF Resolve
    <3>. QED
      BY <1>3, <2>1, <3>1 DEF Resolve, Goto
  <2>2. CASE Goto(w, "resolve", "release")
    BY <1>3, <2>2 DEF Resolve, Goto
  <2>. QED
    BY <1>3, <2>1, <2>2 DEF Resolve
<1>4. ASSUME NEW w \in Workers, SetEntryId(w) PROVE CallInv'
  BY <1>4 DEF SetEntryId, Goto
<1>5. ASSUME NEW w \in Workers, CheckStale(w) PROVE CallInv'
  BY <1>5 DEF CheckStale, Goto, Answer
<1>6. ASSUME NEW w \in Workers, GetPaper(w) PROVE CallInv'
  BY <1>6 DEF GetPaper, Goto, Answer
<1>7. ASSUME NEW w \in Workers, UpsertPaper(w) PROVE CallInv'
  BY <1>7 DEF UpsertPaper, Goto, RowFree
<1>8. ASSUME NEW w \in Workers, FetchLinks(w) PROVE CallInv'
  <2>1. PICK rest : NextRow(w, rest)
    BY <1>8 DEF FetchLinks
  <2>2. pc[w] = "fetch"
    BY <1>8 DEF FetchLinks
  <2>3. \/ pc'[w] = "commit" /\ todo'[w] = {} /\ want'[w] = None
        \/ pc'[w] = "stubs" /\ want'[w] \in todo'[w]
    <3>1. CASE rest = {}
      BY <2>1, <3>1 DEF NextRow
    <3>2. CASE rest # {}
      BY <2>1, <3>2 DEF NextRow
    <3>. QED
      BY <3>1, <3>2
  <2>4. \A v \in Workers \ {w} : pc'[v] = pc[v] /\ todo'[v] = todo[v] /\ want'[v] = want[v]
    BY <1>8, <2>1 DEF NextRow
  <2>. QED
    BY <1>8, <2>2, <2>3, <2>4 DEF FetchLinks
<1>9. ASSUME NEW w \in Workers, InsertStub(w) PROVE CallInv'
  BY <1>9 DEF InsertStub, NextRow, RowFree
<1>10. ASSUME NEW w \in Workers, Commit(w) PROVE CallInv'
  BY <1>10 DEF Commit, Goto, Answer, EndTx
<1>11. ASSUME NEW w \in Workers, Raise(w) PROVE CallInv'
  BY <1>11 DEF Raise, Answer, EndTx
<1>12. ASSUME NEW w \in Workers, DeadlockVictim(w) PROVE CallInv'
  <2>1. pc' = [pc EXCEPT ![w] = "release"] /\ want' = [want EXCEPT ![w] = None]
    BY <1>12 DEF DeadlockVictim, EndTx
  <2>2. pc[w] \in {"upsert", "stubs"}
    BY <1>12, WaiterWrites
  <2>. QED
    BY <1>12, <2>1, <2>2 DEF DeadlockVictim, EndTx
<1>13. ASSUME NEW w \in Workers, Release(w) PROVE CallInv'
  BY <1>13 DEF Release, Goto
<1>14. ASSUME NEW p \in Papers, Expire(p) PROVE CallInv'
  BY <1>14 DEF Expire
<1>15. CASE Restart
  BY <1>15 DEF Restart
<1>. QED
  BY <1>1, <1>2, <1>3, <1>4, <1>5, <1>6, <1>7, <1>8, <1>9, <1>10, <1>11, <1>12, <1>13, <1>14, <1>15 DEF Next, Step

(* Locks stay disjoint, and what they cover otherwise stays uncommitted.   *)
LEMMA LockStep ==
  ASSUME IInv, Next
  PROVE  LockInv'
<1>. USE DEF IInv, TypeOK, CallInv, LockInv, Hydrating, PcValues, InSync, InTx, StatusValues, NoLinks, store, call, tx
<1>1. ASSUME NEW w \in Workers, NEW e \in Entries, Claim(w, e) PROVE LockInv'
  BY <1>1 DEF Claim, Goto, Answer
<1>2. ASSUME NEW w \in Workers, LoadEntry(w) PROVE LockInv'
  BY <1>2 DEF LoadEntry, Goto
<1>3. ASSUME NEW w \in Workers, Resolve(w) PROVE LockInv'
  <2>1. pc'[w] \notin Hydrating /\ \A v \in Workers \ {w} : pc'[v] = pc[v] /\ s2id'[v] = s2id[v]
    BY <1>3 DEF Resolve, Goto
  <2>. QED
    BY <1>3, <2>1 DEF Resolve
<1>4. ASSUME NEW w \in Workers, SetEntryId(w) PROVE LockInv'
  BY <1>4 DEF SetEntryId, Goto
<1>5. ASSUME NEW w \in Workers, CheckStale(w) PROVE LockInv'
  BY <1>5 DEF CheckStale, Goto, Answer
<1>6. ASSUME NEW w \in Workers, GetPaper(w) PROVE LockInv'
  BY <1>6 DEF GetPaper, Goto, Answer
<1>7. ASSUME NEW w \in Workers, UpsertPaper(w) PROVE LockInv'
  BY <1>7 DEF UpsertPaper, Goto, RowFree
<1>8. ASSUME NEW w \in Workers, FetchLinks(w) PROVE LockInv'
  <2>1. PICK rest : NextRow(w, rest)
    BY <1>8 DEF FetchLinks
  <2>. QED
    BY <1>8, <2>1 DEF FetchLinks, NextRow
<1>9. ASSUME NEW w \in Workers, InsertStub(w) PROVE LockInv'
  BY <1>9 DEF InsertStub, NextRow, RowFree
<1>10. ASSUME NEW w \in Workers, Commit(w) PROVE LockInv'
  BY <1>10 DEF Commit, Goto, Answer, EndTx
<1>11. ASSUME NEW w \in Workers, Raise(w) PROVE LockInv'
  BY <1>11 DEF Raise, Answer, EndTx
<1>12. ASSUME NEW w \in Workers, DeadlockVictim(w) PROVE LockInv'
  BY <1>12 DEF DeadlockVictim, Answer, EndTx
<1>13. ASSUME NEW w \in Workers, Release(w) PROVE LockInv'
  BY <1>13 DEF Release, Goto
<1>14. ASSUME NEW p \in Papers, Expire(p) PROVE LockInv'
  BY <1>14 DEF Expire
<1>15. CASE Restart
  BY <1>15 DEF Restart
<1>. QED
  BY <1>1, <1>2, <1>3, <1>4, <1>5, <1>6, <1>7, <1>8, <1>9, <1>10, <1>11, <1>12, <1>13, <1>14, <1>15 DEF Next, Step

(* A row that a hydration needs is not lost once it is there.              *)
LEMMA FetchedStep ==
  ASSUME IInv, Next
  PROVE  FetchedInv'
<1>. USE DEF IInv, TypeOK, CallInv, LockInv, FetchedInv, Hydrating, PcValues, InSync, InTx, StatusValues, NoLinks, store, call, tx
<1>1. ASSUME NEW w \in Workers, NEW e \in Entries, Claim(w, e) PROVE FetchedInv'
  BY <1>1 DEF Claim, Goto, Answer
<1>2. ASSUME NEW w \in Workers, LoadEntry(w) PROVE FetchedInv'
  BY <1>2 DEF LoadEntry, Goto
<1>3. ASSUME NEW w \in Workers, Resolve(w) PROVE FetchedInv'
  <2>1. pc'[w] \notin {"stubs", "commit"}
    BY <1>3 DEF Resolve, Goto
  <2>2. \A v \in Workers \ {w} : pc'[v] = pc[v] /\ s2id'[v] = s2id[v]
    BY <1>3 DEF Resolve, Goto
  <2>. QED
    BY <1>3, <2>1, <2>2 DEF Resolve
<1>4. ASSUME NEW w \in Workers, SetEntryId(w) PROVE FetchedInv'
  BY <1>4 DEF SetEntryId, Goto
<1>5. ASSUME NEW w \in Workers, CheckStale(w) PROVE FetchedInv'
  BY <1>5 DEF CheckStale, Goto, Answer
<1>6. ASSUME NEW w \in Workers, GetPaper(w) PROVE FetchedInv'
  BY <1>6 DEF GetPaper, Goto, Answer
<1>7. ASSUME NEW w \in Workers, UpsertPaper(w) PROVE FetchedInv'
  BY <1>7 DEF UpsertPaper, Goto, RowFree
<1>8. ASSUME NEW w \in Workers, FetchLinks(w) PROVE FetchedInv'
  <2>1. PICK c \in SUBSET Links, r \in SUBSET Links :
          /\ c \subseteq Citations(s2id[w]) /\ r \subseteq References(s2id[w])
          /\ got' = [got EXCEPT ![w] = [citations |-> c, references |-> r]]
          /\ NextRow(w, Ends(c \cup r) \ {s2id[w]})
    BY <1>8 DEF FetchLinks, Pages, Citations, References
  <2>2. \A l \in c \cup r : l[1] = s2id[w] \/ l[2] = s2id[w]
    BY <2>1 DEF Citations, References
  <2>3. \A l \in c \cup r : {l[1], l[2]} \subseteq todo'[w] \cup {s2id[w]}
    BY <2>1 DEF NextRow, Ends
  <2>4. got'[w].citations \cup got'[w].references = c \cup r
    BY <2>1
  <2>5. \A v \in Workers \ {w} : pc'[v] = pc[v] /\ got'[v] = got[v] /\ todo'[v] = todo[v]
    BY <2>1 DEF NextRow
  <2>. QED
    BY <1>8, <2>2, <2>3, <2>4, <2>5 DEF FetchLinks
<1>9. ASSUME NEW w \in Workers, InsertStub(w) PROVE FetchedInv'
  BY <1>9 DEF InsertStub, NextRow, RowFree
<1>10. ASSUME NEW w \in Workers, Commit(w) PROVE FetchedInv'
  <2>1. \A p \in Papers : row[p] # "absent" => row'[p] # "absent"
    BY <1>10 DEF Commit
  <2>2. \A v \in Workers \ {w} :
          pc'[v] = pc[v] /\ got'[v] = got[v] /\ todo'[v] = todo[v] /\ locks'[v] = locks[v]
    BY <1>10 DEF Commit, Goto, EndTx
  <2>3. pc'[w] = "release" /\ s2id' = s2id
    BY <1>10 DEF Commit, Goto
  <2>4. \A l \in Links : l[1] \in Papers /\ l[2] \in Papers
    BY SyncAssumption
  <2>. QED
    BY <2>1, <2>2, <2>3, <2>4
<1>11. ASSUME NEW w \in Workers, Raise(w) PROVE FetchedInv'
  BY <1>11 DEF Raise, Answer, EndTx
<1>12. ASSUME NEW w \in Workers, DeadlockVictim(w) PROVE FetchedInv'
  BY <1>12 DEF DeadlockVictim, Answer, EndTx
<1>13. ASSUME NEW w \in Workers, Release(w) PROVE FetchedInv'
  BY <1>13 DEF Release, Goto
<1>14. ASSUME NEW p \in Papers, Expire(p) PROVE FetchedInv'
  BY <1>14 DEF Expire
<1>15. CASE Restart
  BY <1>15 DEF Restart
<1>. QED
  BY <1>1, <1>2, <1>3, <1>4, <1>5, <1>6, <1>7, <1>8, <1>9, <1>10, <1>11, <1>12, <1>13, <1>14, <1>15 DEF Next, Step

(* A commit brings the rows of its links along.                            *)
LEMMA LinksStep ==
  ASSUME IInv, Next
  PROVE  LinksGrounded'
<1>. USE DEF IInv, TypeOK, CallInv, LockInv, FetchedInv, LinksGrounded, Hydrating, PcValues, InSync, InTx, StatusValues, NoLinks, store, call, tx
<1>1. ASSUME NEW w \in Workers, NEW e \in Entries, Claim(w, e) PROVE LinksGrounded'
  BY <1>1 DEF Claim, Goto, Answer
<1>2. ASSUME NEW w \in Workers, LoadEntry(w) PROVE LinksGrounded'
  BY <1>2 DEF LoadEntry, Goto
<1>3. ASSUME NEW w \in Workers, Resolve(w) PROVE LinksGrounded'
  BY <1>3 DEF Resolve, Goto, Answer
<1>4. ASSUME NEW w \in Workers, SetEntryId(w) PROVE LinksGrounded'
  BY <1>4 DEF SetEntryId, Goto
<1>5. ASSUME NEW w \in Workers, CheckStale(w) PROVE LinksGrounded'
  BY <1>5 DEF CheckStale, Goto, Answer
<1>6. ASSUME NEW w \in Workers, GetPaper(w) PROVE LinksGrounded'
  BY <1>6 DEF GetPaper, Goto, Answer
<1>7. ASSUME NEW w \in Workers, UpsertPaper(w) PROVE LinksGrounded'
  BY <1>7 DEF UpsertPaper, Goto, RowFree
<1>8. ASSUME NEW w \in Workers, FetchLinks(w) PROVE LinksGrounded'
  BY <1>8 DEF FetchLinks, NextRow, Citations, References, Ends
<1>9. ASSUME NEW w \in Workers, InsertStub(w) PROVE LinksGrounded'
  BY <1>9 DEF InsertStub, NextRow, RowFree
<1>10. ASSUME NEW w \in Workers, Commit(w) PROVE LinksGrounded'
  <2>1. pc[w] = "commit" /\ s2id[w] \in Papers /\ row'[s2id[w]] = "full"
    BY <1>10 DEF Commit, Goto
  <2>2. ASSUME NEW l \in got[w].citations \cup got[w].references
        PROVE  /\ row'[l[1]] # "absent" /\ row'[l[2]] # "absent"
               /\ row'[l[1]] = "full" \/ row'[l[2]] = "full"
    <3>1. l[1] \in Papers /\ l[2] \in Papers
      BY SyncAssumption
    <3>2. \A p \in {l[1], l[2]} : p = s2id[w] \/ p \in locks[w] \/ row[p] # "absent"
      BY <2>1
    <3>3. \A p \in {l[1], l[2]} : row'[p] # "absent"
      BY <1>10, <3>1, <3>2 DEF Commit
    <3>4. l[1] = s2id[w] \/ l[2] = s2id[w]
      BY <2>1
    <3>. QED
      BY <2>1, <3>3, <3>4
  <2>3. ASSUME NEW l \in stored
        PROVE  /\ row'[l[1]] # "absent" /\ row'[l[2]] # "absent"
               /\ row'[l[1]] = "full" \/ row'[l[2]] = "full"
    <3>1. l[1] \in Papers /\ l[2] \in Papers
      BY SyncAssumption
    <3>2. \A p \in Papers : row[p] # "absent" => row'[p] # "absent"
      BY <1>10 DEF Commit
    <3>3. \A p \in Papers : row[p] = "full" => row'[p] = "full"
      BY <1>10, <2>1 DEF Commit
    <3>. QED
      BY <3>1, <3>2, <3>3
  <2>4. stored' = stored \cup got[w].citations \cup got[w].references
    BY <1>10 DEF Commit
  <2>. QED
    BY <2>2, <2>3, <2>4
<1>11. ASSUME NEW w \in Workers, Raise(w) PROVE LinksGrounded'
  BY <1>11 DEF Raise, Answer, EndTx
<1>12. ASSUME NEW w \in Workers, DeadlockVictim(w) PROVE LinksGrounded'
  BY <1>12 DEF DeadlockVictim, Answer, EndTx
<1>13. ASSUME NEW w \in Workers, Release(w) PROVE LinksGrounded'
  BY <1>13 DEF Release, Goto
<1>14. ASSUME NEW p \in Papers, Expire(p) PROVE LinksGrounded'
  BY <1>14 DEF Expire
<1>15. CASE Restart
  BY <1>15 DEF Restart
<1>. QED
  BY <1>1, <1>2, <1>3, <1>4, <1>5, <1>6, <1>7, <1>8, <1>9, <1>10, <1>11, <1>12, <1>13, <1>14, <1>15 DEF Next, Step

------------------------------------------------------------------------------
(* Every step keeps the invariant.                                         *)
LEMMA Inductive == IInv /\ [Next]_vars => IInv'
<1>1. ASSUME IInv, Next PROVE IInv'
  BY <1>1, TypeStep, ClaimsStep, CallStep, LockStep, FetchedStep, LinksStep DEF IInv
<1>2. ASSUME IInv, UNCHANGED vars PROVE IInv'
  BY <1>2 DEF IInv, TypeOK, ClaimsExact, CallInv, LockInv, FetchedInv, LinksGrounded,
     vars, store, call, tx
<1>. QED
  BY <1>1, <1>2

(* It holds in every state that the calls can reach.                       *)
THEOREM Invariant == Spec => []IInv
<1>1. Init => IInv
  BY SyncAssumption DEF Init, IInv, TypeOK, ClaimsExact, CallInv, LockInv, FetchedInv,
     LinksGrounded, PcValues, InSync, InTx, StatusValues, NoLinks, Hydrating
<1>. QED
  BY <1>1, Inductive, PTL DEF Spec

(* Every variable keeps its type.                                           *)
THEOREM TypeCorrect == Spec => []TypeOK
BY Invariant, PTL DEF IInv

(* Whatever the interleaving, the failures and the restarts, the registry   *)
(* of ensure_synced holds exactly the entries being synced, each for one    *)
(* task.                                                                    *)
THEOREM ClaimsAreExact == Spec => []ClaimsExact
BY Invariant, PTL DEF IInv

(* A stored link always has both its papers, one of them hydrated: readers  *)
(* of s2_citations meet no half of a hydration.                             *)
THEOREM LinksAreGrounded == Spec => []LinksGrounded
BY Invariant, PTL DEF IInv

(* set_entry_s2_id never replaces the paper another resolution found: the   *)
(* entry of a task that resolves has none.                                  *)
THEOREM EntriesResolvedOnce == Spec => ResolvedOnce
<1>1. ASSUME IInv, [Next]_vars
      PROVE  [\A e \in Entries : entryS2[e] # None => entryS2'[e] = entryS2[e]]_vars
  <2>1. ASSUME NEW w \in Workers, SetEntryId(w), NEW e \in Entries, entryS2[e] # None
        PROVE  entryS2'[e] = entryS2[e]
    <3>1. entryS2' = [entryS2 EXCEPT ![entry[w]] = s2id[w]] /\ pc[w] = "setid"
      BY <2>1 DEF SetEntryId, Goto
    <3>2. entry[w] # e
      BY <1>1, <2>1, <3>1 DEF IInv, CallInv
    <3>. QED
      BY <1>1, <3>1, <3>2 DEF IInv, TypeOK
  <2>2. ASSUME NEW w \in Workers, Step(w), ~SetEntryId(w) PROVE entryS2' = entryS2
    BY <2>2 DEF Step, LoadEntry, Resolve, CheckStale, GetPaper, UpsertPaper, FetchLinks,
       InsertStub, Commit, Raise, DeadlockVictim, Release, store
  <2>3. ASSUME NEW w \in Workers, NEW e \in Entries, Claim(w, e) PROVE entryS2' = entryS2
    BY <2>3 DEF Claim, store
  <2>4. ASSUME Restart \/ UNCHANGED vars \/ \E p \in Papers : Expire(p)
        PROVE  entryS2' = entryS2
    BY <2>4 DEF Restart, Expire, vars, store
  <2>. QED
    BY <1>1, <2>1, <2>2, <2>3, <2>4 DEF Next
<1>. QED
  BY <1>1, Invariant, PTL DEF Spec, ResolvedOnce


------------------------------------------------------------------------------
(* The entries that calls hold, and what a step of S2Sync leaves of them.   *)
held == [w \in Workers |-> IF pc[w] \in InSync THEN entry[w] ELSE None]

(* A call that moves on within its hydration holds the same entry.         *)
LEMMA HeldFrame ==
  ASSUME TypeOK, UNCHANGED entry, NEW w \in Workers, Moves(w)
  PROVE  held' = held
BY DEF Moves, held, TypeOK

(* Every step of a call is one of EntrySync's, or leaves its state alone.   *)
LEMMA StepKeepsPromise ==
  ASSUME IInv, Next
  PROVE  [Promise!Next]_(Promise!vars)
<1>. USE DEF IInv, store, call, tx
<1>a. ClaimsExact' /\ CallInv' /\ TypeOK'
  BY TypeStep, ClaimsStep, CallStep
<1>1. ASSUME NEW w \in Workers, NEW e \in Entries, Claim(w, e)
      PROVE  [Promise!Next]_(Promise!vars)
  <2>1. CASE e \in claimed
    BY <1>1, <2>1 DEF Claim, Promise!vars
  <2>2. CASE e \notin claimed
    <3>1. pc[w] = "idle" /\ pc' = [pc EXCEPT ![w] = "load"] /\ entry' = [entry EXCEPT ![w] = e]
      BY <1>1, <2>2 DEF Claim, Goto
    <3>2. held' = [held EXCEPT ![w] = e] /\ held[w] = None
      BY <3>1 DEF held, TypeOK, InSync, InTx
    <3>3. \A v \in Workers : held[v] # e
      BY <2>2, SyncAssumption DEF held, ClaimsExact
    <3>4. UNCHANGED <<entryS2, row, stored>>
      BY <1>1, <2>2 DEF Claim
    <3>5. Promise!Begin(w, e)
      BY <3>2, <3>3, <3>4 DEF Promise!Begin, held
    <3>. QED
      BY <3>5 DEF Promise!Next
  <2>. QED
    BY <2>1, <2>2
<1>2. ASSUME NEW w \in Workers,
             \/ LoadEntry(w) \/ Resolve(w) \/ CheckStale(w) \/ GetPaper(w) \/ UpsertPaper(w)
             \/ FetchLinks(w) \/ InsertStub(w) \/ Raise(w) \/ DeadlockVictim(w)
      PROVE  UNCHANGED Promise!vars
  <2>1. UNCHANGED <<entry, entryS2, row, stored>>
    BY <1>2 DEF LoadEntry, Resolve, CheckStale, GetPaper, UpsertPaper, FetchLinks,
       InsertStub, Raise, DeadlockVictim
  <2>2. Moves(w)
    <3>. USE DEF Moves, TypeOK, InSync, InTx
    <3>1. CASE LoadEntry(w)
      BY <3>1 DEF LoadEntry, Goto
    <3>2. CASE Resolve(w)
      BY <3>2 DEF Resolve, Goto
    <3>3. CASE CheckStale(w)
      BY <3>3 DEF CheckStale, Goto
    <3>4. CASE GetPaper(w)
      BY <3>4 DEF GetPaper, Goto
    <3>5. CASE UpsertPaper(w)
      BY <3>5 DEF UpsertPaper, Goto
    <3>6. CASE FetchLinks(w)
      BY <3>6 DEF FetchLinks, NextRow
    <3>7. CASE InsertStub(w)
      BY <3>7 DEF InsertStub, NextRow
    <3>8. CASE Raise(w)
      BY <3>8 DEF Raise
    <3>9. CASE DeadlockVictim(w)
      BY <3>9, WaiterWrites DEF DeadlockVictim
    <3>. QED
      BY <1>2, <3>1, <3>2, <3>3, <3>4, <3>5, <3>6, <3>7, <3>8, <3>9
  <2>3. held' = held
    BY <2>1, <2>2, HeldFrame
  <2>. QED
    BY <2>1, <2>3 DEF Promise!vars, held
<1>3. ASSUME NEW w \in Workers, SetEntryId(w) PROVE Promise!Resolve(w)
  <2>1. /\ pc[w] = "setid" /\ pc' = [pc EXCEPT ![w] = "check"]
        /\ entryS2' = [entryS2 EXCEPT ![entry[w]] = s2id[w]]
        /\ UNCHANGED <<entry, row, stored>>
    BY <1>3 DEF SetEntryId, Goto
  <2>2. held' = held
    BY <2>1, HeldFrame DEF Moves, InSync, InTx, TypeOK
  <2>3. held[w] = entry[w] /\ entry[w] \in Entries /\ entry[w] # None
    BY <2>1, SyncAssumption DEF held, CallInv, InSync, InTx
  <2>4. entryS2[entry[w]] = None /\ s2id[w] \in Matches[entry[w]]
    BY <2>1 DEF CallInv
  <2>. QED
    BY <2>1, <2>2, <2>3, <2>4 DEF Promise!Resolve, held
<1>4. ASSUME NEW w \in Workers, Commit(w) PROVE Promise!Hydrate(w)
  <2>1. /\ pc[w] = "commit" /\ pc' = [pc EXCEPT ![w] = "release"]
        /\ stored' = stored \cup (got[w].citations \cup got[w].references)
        /\ UNCHANGED <<entry, entryS2>>
    BY <1>4 DEF Commit, Goto
  <2>2. held' = held
    BY <2>1, HeldFrame DEF Moves, InSync, InTx, TypeOK
  <2>3. held[w] = entry[w] /\ entry[w] # None /\ entryS2[entry[w]] = s2id[w] /\ s2id[w] \in Papers
    BY <2>1, SyncAssumption DEF held, CallInv, InSync, InTx
  <2>4. {p \in Papers : row'[p] = "full"} = {p \in Papers : row[p] = "full"} \cup {s2id[w]}
    <3>1. \A p \in locks[w] : p = s2id[w] \/ row[p] = "absent"
      BY DEF LockInv
    <3>. QED
      BY <1>4, <2>3, <3>1 DEF Commit
  <2>5. got[w].citations \cup got[w].references
          \in SUBSET {l \in Links : s2id[w] \in {l[1], l[2]}}
    BY <2>1 DEF FetchedInv, TypeOK
  <2>6. s2id[w] # None
    BY <2>3, SyncAssumption
  <2>. QED
    BY <2>1, <2>2, <2>3, <2>4, <2>5, <2>6 DEF Promise!Hydrate, held
<1>5. ASSUME NEW w \in Workers, Release(w) PROVE Promise!End(w)
  <2>1. /\ pc[w] = "release" /\ pc' = [pc EXCEPT ![w] = "idle"]
        /\ entry' = [entry EXCEPT ![w] = None]
        /\ UNCHANGED <<entryS2, row, stored>>
    BY <1>5 DEF Release, Goto
  <2>2. held' = [held EXCEPT ![w] = None]
    BY <2>1 DEF held, TypeOK, InSync, InTx
  <2>3. held[w] # None
    BY <2>1, SyncAssumption DEF held, CallInv, InSync, InTx
  <2>. QED
    BY <2>1, <2>2, <2>3 DEF Promise!End, held
<1>6. ASSUME NEW p \in Papers, Expire(p) PROVE UNCHANGED Promise!vars
  BY <1>6 DEF Expire, Promise!vars
<1>7. CASE Restart
  <2>1. held' = [w \in Workers |-> None]
    BY <1>7 DEF Restart, held, InSync, InTx
  <2>2. Promise!Crash
    BY <1>7, <2>1 DEF Restart, Promise!Crash, held
  <2>. QED
    BY <2>2 DEF Promise!Next
<1>. QED
  BY <1>1, <1>2, <1>3, <1>4, <1>5, <1>6, <1>7 DEF Next, Step, Promise!Next

(* S2Sync implements EntrySync: locks, rollbacks, deadlocks and restarts    *)
(* never show in what ensure_synced promises.                               *)
THEOREM Implements == Spec => KeepsPromise
<1>1. Init => Promise!Init
  BY SyncAssumption DEF Init, Promise!Init, InSync, InTx
<1>2. IInv /\ [Next]_vars => [Promise!Next]_(Promise!vars)
  <2>1. UNCHANGED vars => UNCHANGED Promise!vars
    BY DEF vars, store, call, tx, Promise!vars
  <2>. QED
    BY <2>1, StepKeepsPromise
<1>. QED
  BY <1>1, <1>2, Invariant, PTL DEF Spec, KeepsPromise, Promise!Spec

==============================================================================
