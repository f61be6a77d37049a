------------------------------ MODULE BackupProofs ------------------------------
(***************************************************************************)
(* What the requests of users keep, proved for any number of users,        *)
(* collections, entries and requests and for any backups.                  *)
(*                                                                         *)
(* A request writes what it decided on when it read, and others were       *)
(* answered in between.  The argument is about what it still may rely on:  *)
(* the names and members that a restore has written are locked until it    *)
(* ends, so that a name stays unique; a position that was behind all       *)
(* members stays behind those that keep theirs; and a restore that is      *)
(* alone finds everything as it read it.                                   *)
(***************************************************************************)
EXTENDS Backup, FiniteSetTheorems, WellFoundedInduction, TLAPS

Mark == Marks \cup {NoMark}

(***************************************************************************)
(* The invariants.                                                         *)
(***************************************************************************)
TablesInv ==
  /\ \A i \in Ids : collections[i] \in Collection \cup {NoCollection}
  /\ \A i \in Existing : IsFiniteSet(Members(i))
  /\ \A i, j \in Existing : collections[i].name = collections[j].name => i = j
  /\ DOMAIN collections = Ids
  /\ marks \in [Entries -> Mark]
  /\ file = NoFile \/ IsBackup(file)

\* What a request has read and is going to write.
RequestInv(r) ==
  /\ r.op = "none" => r = Idle
  /\ r.op = "create" => r.name \in Names
  /\ r.op = "add" =>
       /\ r.id \in Ids /\ r.entry \in Entries /\ r.position \in Nat
       /\ \A e \in DOMAIN r.before : r.before[e] \in Nat /\ r.before[e] < r.position
  /\ r.op \in {"remove", "delete"} => r.id \in Ids
  /\ r.op = "mark" => r.entry \in Entries /\ r.mark \in Mark
  /\ r.op = "export" => \A e \in DOMAIN r.marks : r.marks[e] \in Mark
  /\ r.op \in {"import", "commit"} => IsBackup(r.file)
  /\ r.op = "import" => r.write \subseteq Entries \cap DOMAIN r.file.marks
  /\ r.op = "commit" => r.new \subseteq DOMAIN r.file.collections

\* What a restore has written and not committed.
LockInv ==
  /\ held \subseteq Ids \X Entries /\ naming \subseteq Names
  /\ DOMAIN marking \subseteq Entries /\ \A e \in DOMAIN marking : marking[e] \in Mark
  /\ \A c, d \in Clients : Pending(c, "commit") /\ Pending(d, "commit") => c = d
  /\ \A c \in Clients : Pending(c, "commit") => call[c].new = naming
  /\ \A n \in naming : Named(n) = {}
  /\ (\A c \in Clients : ~Pending(c, "commit")) => held = {} /\ naming = {} /\ marking = Nothing

Differing(f) == {e \in Entries \cap DOMAIN f.marks : f.marks[e] # marks[e]}

\* A restore that is alone: all is as it has read it.
AsRead(r) ==
  /\ r.op = "import" => r.write = Differing(r.file)
  /\ r.op = "commit" =>
       /\ marking = [e \in Differing(r.file) |-> r.file.marks[e]]
       /\ naming = {n \in DOMAIN r.file.collections : Named(n) = {}}
       /\ held = Replaced(r.file)

AloneInv ==
  \A c \in alone : call[c] # Idle =>
    (\A d \in Clients \ {c} : call[d] = Idle) /\ AsRead(call[c])

IInv ==
  /\ TablesInv /\ LockInv /\ AloneInv
  /\ DOMAIN call = Clients /\ alone \subseteq Clients
  /\ \A c \in Clients : RequestInv(call[c])

(***************************************************************************)
(* Collections, positions and lists.                                       *)
(***************************************************************************)

(* Finitely many numbers have a largest one, the one with the fewest above  *)
(* it.                                                                      *)
LEMMA LargestPosition ==
  ASSUME NEW S \in SUBSET Nat, IsFiniteSet(S), S # {}
  PROVE  Max(S) \in S /\ \A s \in S : s <= Max(S)
<1>. DEFINE Above(r) == {s \in S : s > r}
            Counts == {Cardinality(Above(r)) : r \in S}
<1>1. \A r \in S : IsFiniteSet(Above(r)) /\ Cardinality(Above(r)) \in Nat
  BY FS_Subset, FS_CardinalityType
<1>2. Counts \subseteq Nat /\ Counts # {}
  BY <1>1
<1>3. PICK n \in Counts : \A k \in Counts : ~(<<k, n>> \in OpToRel(<, Nat))
  <2>. HIDE DEF Counts
  <2>. QED
    BY <1>2, NatLessThanWellFounded, WFMin
<1>4. \A k \in Counts : ~(k < n)
  <2>1. \A k, l \in Nat : k < l => <<k, l>> \in OpToRel(<, Nat)
    BY DEF OpToRel
  <2>. HIDE DEF Counts
  <2>. QED
    BY <1>2, <1>3, <2>1
<1>5. PICK m \in S : n = Cardinality(Above(m))
  OBVIOUS
<1>6. ASSUME NEW s \in S, s > m PROVE FALSE
  <2>1. m \in Nat /\ s \in Nat /\ (\A x \in S : x \in Nat) /\ ~(s > s)
    OBVIOUS
  <2>2. \A x \in S : x > s => x > m
    BY <1>6, <2>1
  <2>3. Above(s) \in SUBSET Above(m) /\ s \in Above(m) /\ s \notin Above(s)
    BY <1>6, <2>1, <2>2
  <2>4. Cardinality(Above(s)) \in Counts
    OBVIOUS
  <2>. HIDE DEF Above, Counts
  <2>5. Cardinality(Above(s)) <= Cardinality(Above(m))
        /\ Cardinality(Above(s)) # Cardinality(Above(m))
    BY <1>1, <2>3, FS_Subset
  <2>. QED
    BY <1>1, <1>4, <1>5, <2>4, <2>5
<1>7. \A s \in S : m >= s
  BY <1>6
<1>8. Max(S) \in S /\ \A s \in S : Max(S) >= s
  BY <1>7 DEF Max
<1>. QED
  BY <1>8

(* What is a collection, and what is made one.                              *)
LEMMA Parts ==
  ASSUME NEW x \in Collection
  PROVE  /\ x.name \in Names /\ DOMAIN x.members \subseteq Entries
         /\ x.members \in [DOMAIN x.members -> Nat]
BY DEF Collection

LEMMA MadeOf ==
  ASSUME NEW n \in Names, NEW E \in SUBSET Entries, NEW m \in [E -> Nat]
  PROVE  [name |-> n, members |-> m] \in Collection
<1>1. m \in UNION {[D -> Nat] : D \in SUBSET Entries}
  OBVIOUS
<1>. QED
  BY <1>1 DEF Collection

LEMMA Changed ==
  ASSUME NEW x \in Collection, NEW E \in SUBSET Entries, NEW m \in [E -> Nat]
  PROVE  /\ [x EXCEPT !.members = m] = [name |-> x.name, members |-> m]
         /\ [x EXCEPT !.members = m] \in Collection
<1>1. x \in [name : Names, members : UNION {[D -> Nat] : D \in SUBSET Entries}]
  BY DEF Collection
<1>2. [x EXCEPT !.members = m] = [name |-> x.name, members |-> m]
  <2>. DEFINE M == UNION {[D -> Nat] : D \in SUBSET Entries}
  <2>. HIDE DEF M
  <2>1. x \in [name : Names, members : M]
    BY <1>1 DEF M
  <2>. QED
    BY <2>1
<1>3. [name |-> x.name, members |-> m] \in Collection
  BY MadeOf, Parts
<1>. QED
  BY <1>2, <1>3

(* The position of an addition is behind all members.                       *)
LEMMA NextIsBehind ==
  ASSUME NEW i \in Existing, collections[i] \in Collection, IsFiniteSet(Members(i))
  PROVE  /\ NextPosition(i) \in Nat
         /\ \A e \in Members(i) :
              collections[i].members[e] \in Nat /\ collections[i].members[e] < NextPosition(i)
<1>. DEFINE at == collections[i].members
<1>1. at \in [Members(i) -> Nat]
  BY Parts DEF Members
<1>2. Positions(i) \in SUBSET Nat
  BY <1>1 DEF Positions
<1>3. CASE Members(i) = {}
  BY <1>3 DEF NextPosition
<1>4. CASE Members(i) # {}
  <2>1. [e \in Members(i) |-> at[e]] \in Surjection(Members(i), Positions(i))
    BY DEF Surjection, Positions
  <2>2. IsFiniteSet(Positions(i)) /\ Positions(i) # {}
    BY <2>1, <1>4, FS_Surjection DEF Positions
  <2>3. Max(Positions(i)) \in Nat /\ \A s \in Positions(i) : s <= Max(Positions(i))
    BY <2>2, <1>2, LargestPosition
  <2>4. \A e \in Members(i) : at[e] \in Nat /\ at[e] <= Max(Positions(i))
    BY <1>1, <2>3 DEF Positions
  <2>5. NextPosition(i) = Max(Positions(i)) + 1
    BY <1>4 DEF NextPosition
  <2>. QED
    BY <2>3, <2>4, <2>5
<1>. QED
  BY <1>3, <1>4

(* A list of finitely many members.                                         *)
LEMMA ListOf ==
  ASSUME NEW S, IsFiniteSet(S), NEW l \in SetToSeqs(S)
  PROVE  l \in Seq(S) /\ DOMAIN l = 1..Len(l) /\ Len(l) \in Nat
<1>1. Cardinality(S) \in Nat
  BY FS_CardinalityType
<1>2. l \in [1..Cardinality(S) -> S]
  BY DEF SetToSeqs
<1>. QED
  BY <1>1, <1>2

(* What a restore makes of a list.                                          *)
LEMMA RestoredIs ==
  ASSUME NEW keys \in Seq(Entries \cup {Unknown})
  PROVE  /\ DOMAIN Restored(keys) = ToSet(keys) \cap Entries
         /\ Restored(keys) \in [DOMAIN Restored(keys) -> Nat]
         /\ IsFiniteSet(DOMAIN Restored(keys))
<1>1. DOMAIN Restored(keys) = ToSet(keys) \cap Entries
  BY DEF Restored
<1>2. ASSUME NEW e \in ToSet(keys) PROVE \E p \in 0..Len(keys) - 1 : keys[p + 1] = e
  <2>1. PICK j \in 1..Len(keys) : keys[j] = e
    BY <1>2 DEF ToSet
  <2>2. j - 1 \in 0..Len(keys) - 1 /\ (j - 1) + 1 = j
    BY <2>1
  <2>. QED
    BY <2>1, <2>2
<1>3. \A e \in DOMAIN Restored(keys) : Restored(keys)[e] \in 0..Len(keys) - 1
  BY <1>1, <1>2 DEF Restored
<1>4. \A e \in DOMAIN Restored(keys) : Restored(keys)[e] \in Nat
  BY <1>3
<1>5. Restored(keys) \in [DOMAIN Restored(keys) -> Nat]
  BY <1>4 DEF Restored
<1>6. IsFiniteSet(ToSet(keys))
  <2>1. [j \in 1..Len(keys) |-> keys[j]] \in Surjection(1..Len(keys), ToSet(keys))
    BY DEF Surjection, ToSet
  <2>. QED
    BY <2>1, FS_Surjection, FS_Interval
<1>. QED
  BY <1>1, <1>5, <1>6, FS_Subset

(***************************************************************************)
(* Requests and answers.                                                   *)
(***************************************************************************)

(* What a request that arrives is going to write.                           *)
LEMMA Begun ==
  ASSUME TablesInv, NEW c \in Clients, BackupBegin(c)
  PROVE  \E r : /\ Begin(c, r) /\ UNCHANGED Everyone
                /\ RequestInv(r) /\ r.op # "commit"
                /\ r.op = "import" => r.write = Differing(r.file)
<1>. DEFINE Good(r) == /\ RequestInv(r) /\ r.op # "commit"
                       /\ r.op = "import" => r.write = Differing(r.file)
<1>1. Good(Idle)
  BY DEF RequestInv, Idle
<1>2. ASSUME NEW n \in Names, BeginCreate(c, n) PROVE \E r : Begin(c, r) /\ Good(r)
  <2>1. Good([op |-> "create", name |-> n])
    BY DEF RequestInv
  <2>2. CASE Named(n) # {}
    BY <1>1, <1>2, <2>2 DEF BeginCreate
  <2>3. CASE Named(n) = {}
    BY <1>2, <2>1, <2>3 DEF BeginCreate
  <2>. QED
    BY <2>2, <2>3
<1>3. ASSUME NEW i \in Ids, NEW e \in Entries \cup {Unknown}, BeginAdd(c, i, e)
      PROVE  \E r : Begin(c, r) /\ Good(r)
  <2>. DEFINE q == [op |-> "add", id |-> i, entry |-> e, position |-> NextPosition(i),
                    before |-> collections[i].members]
  <2>1. CASE i \notin Existing \/ e \notin Entries \/ e \in Members(i)
    BY <1>1, <1>3, <2>1 DEF BeginAdd
  <2>2. CASE i \in Existing /\ e \in Entries /\ e \notin Members(i)
    <3>1. collections[i] \in Collection
      BY <2>2 DEF TablesInv, Existing
    <3>2. /\ NextPosition(i) \in Nat
          /\ \A m \in DOMAIN collections[i].members :
               collections[i].members[m] \in Nat
                 /\ collections[i].members[m] < NextPosition(i)
      BY <2>2, <3>1, NextIsBehind DEF TablesInv, Members
    <3>3. Good(q)
      BY <2>2, <3>2 DEF RequestInv
    <3>4. Begin(c, q)
      BY <1>3, <2>2 DEF BeginAdd
    <3>. HIDE DEF q, Good
    <3>. QED
      BY <3>3, <3>4
  <2>. QED
    BY <2>1, <2>2
<1>4. ASSUME NEW i \in Ids, NEW e \in Entries \cup {Unknown}, BeginRemove(c, i, e)
      PROVE  \E r : Begin(c, r) /\ Good(r)
  <2>1. Good([op |-> "remove", id |-> i, entry |-> e])
    BY DEF RequestInv
  <2>2. CASE i \notin Existing \/ e \notin Members(i)
    BY <1>1, <1>4, <2>2 DEF BeginRemove
  <2>3. CASE i \in Existing /\ e \in Members(i)
    BY <1>4, <2>1, <2>3 DEF BeginRemove
  <2>. QED
    BY <2>2, <2>3
<1>5. ASSUME NEW i \in Ids, BeginDelete(c, i) PROVE \E r : Begin(c, r) /\ Good(r)
  <2>1. Good([op |-> "delete", id |-> i])
    BY DEF RequestInv
  <2>2. CASE i \notin Existing
    BY <1>1, <1>5, <2>2 DEF BeginDelete
  <2>3. CASE i \in Existing
    BY <1>5, <2>1, <2>3 DEF BeginDelete
  <2>. QED
    BY <2>2, <2>3
<1>6. ASSUME BeginCollection(c), UNCHANGED Everyone
      PROVE  \E r : Begin(c, r) /\ Good(r) /\ UNCHANGED Everyone
  BY <1>2, <1>3, <1>4, <1>5, <1>6 DEF BeginCollection
<1>7. ASSUME NEW e \in Entries, NEW m \in Marks \cup {NoMark}, BeginMark(c, e, m)
      PROVE  \E r : Begin(c, r) /\ Good(r) /\ UNCHANGED Everyone
  <2>1. Good([op |-> "mark", entry |-> e, seen |-> marks[e], mark |-> m])
    BY DEF RequestInv, Mark
  <2>. QED
    BY <1>7, <2>1 DEF BeginMark
<1>8. ASSUME BeginExport(c)
      PROVE  \E r : Begin(c, r) /\ Good(r) /\ UNCHANGED Everyone
  <2>. DEFINE q == [op |-> "export", marks |-> [e \in {x \in Entries : marks[x] # NoMark} |-> marks[e]]]
  <2>1. Good(q)
    BY DEF RequestInv, TablesInv, Mark
  <2>2. Begin(c, q) /\ UNCHANGED Everyone
    BY <1>8 DEF BeginExport
  <2>. HIDE DEF q, Good
  <2>. QED
    BY <2>1, <2>2
<1>9. ASSUME BeginImport(c)
      PROVE  \E r : Begin(c, r) /\ Good(r) /\ UNCHANGED Everyone
  <2>. DEFINE q == [op |-> "import", file |-> file,
                    write |-> {e \in Entries \cap DOMAIN file.marks : file.marks[e] # marks[e]}]
  <2>1. IsBackup(file)
    BY <1>9 DEF BeginImport, TablesInv
  <2>2. q.op = "import" /\ q.file = file /\ q.write = Differing(file)
    BY DEF Differing
  <2>3. Begin(c, q) /\ UNCHANGED Everyone
    BY <1>9 DEF BeginImport
  <2>4. Differing(file) \subseteq Entries \cap DOMAIN file.marks
    BY DEF Differing
  <2>. HIDE DEF q
  <2>5. Good(q)
    BY <2>1, <2>2, <2>4 DEF RequestInv
  <2>. QED
    BY <2>3, <2>5
<1>. QED
  BY <1>6, <1>7, <1>8, <1>9 DEF BackupBegin

(* A request that is no restore comes or goes: what is locked stays so.     *)
LEMMA LocksStay ==
  ASSUME IInv, NEW c \in Clients, NEW r, RequestInv(r), r.op # "commit",
         ~Pending(c, "commit"), call' = [call EXCEPT ![c] = r],
         UNCHANGED <<held, naming, marking>>, \A n \in naming : Named(n)' = {}
  PROVE  /\ LockInv' /\ DOMAIN call' = Clients
         /\ \A d \in Clients : RequestInv(call'[d])
<1>1. /\ DOMAIN call' = Clients /\ call'[c] = r
      /\ \A d \in Clients : d # c => call'[d] = call[d]
  BY DEF IInv
<1>2. \A d \in Clients : Pending(d, "commit")' <=> Pending(d, "commit")
  BY <1>1 DEF Pending
<1>3. \A d \in Clients : Pending(d, "commit") => call'[d] = call[d]
  BY <1>1
<1>4. \A d \in Clients : RequestInv(call'[d])
  BY <1>1 DEF IInv
<1>5. /\ held' \subseteq Ids \X Entries /\ naming' \subseteq Names
      /\ DOMAIN marking' \subseteq Entries /\ \A e \in DOMAIN marking' : marking'[e] \in Mark
  BY DEF IInv, LockInv
<1>6. /\ \A d, e \in Clients : Pending(d, "commit")' /\ Pending(e, "commit")' => d = e
      /\ \A d \in Clients : Pending(d, "commit")' => call'[d].new = naming'
      /\ \A n \in naming' : Named(n)' = {}
      /\ (\A d \in Clients : ~Pending(d, "commit")')
           => held' = {} /\ naming' = {} /\ marking' = Nothing
  BY <1>2, <1>3 DEF IInv, LockInv
<1>. QED
  BY <1>1, <1>4, <1>5, <1>6 DEF LockInv

(* The tables after the change of one collection.                           *)
LEMMA OneChanged ==
  ASSUME TablesInv, NEW i \in Ids, NEW x \in Collection \cup {NoCollection},
         collections' = [collections EXCEPT ![i] = x],
         x # NoCollection =>
           IsFiniteSet(DOMAIN x.members)
             /\ \A j \in Existing \ {i} : collections[j].name # x.name,
         UNCHANGED <<marks, file>>
  PROVE  TablesInv'
<1>1. /\ DOMAIN collections' = Ids /\ collections'[i] = x
      /\ \A j \in Ids : j # i => collections'[j] = collections[j]
  BY DEF TablesInv
<1>2. \A j \in Ids : collections'[j] \in Collection \cup {NoCollection}
  BY <1>1 DEF TablesInv
<1>3. Existing' \ {i} = Existing \ {i} /\ (i \in Existing' <=> x # NoCollection)
  BY <1>1 DEF Existing
<1>4. \A j \in Existing' : IsFiniteSet(DOMAIN collections'[j].members)
  <2>1. \A j \in Existing' \ {i} : IsFiniteSet(DOMAIN collections[j].members)
    BY <1>3 DEF TablesInv, Members
  <2>2. \A j \in Existing' \ {i} : collections'[j] = collections[j]
    BY <1>1 DEF Existing
  <2>. QED
    BY <1>1, <1>3, <2>1, <2>2
<1>5. ASSUME NEW j \in Existing', NEW k \in Existing', collections'[j].name = collections'[k].name
      PROVE  j = k
  <2>1. \A l \in Existing' : l # i => l \in Existing \ {i} /\ collections'[l] = collections[l]
    BY <1>1, <1>3 DEF Existing
  <2>2. CASE j # i /\ k # i
    BY <1>5, <2>1, <2>2 DEF TablesInv
  <2>3. CASE j = i \/ k = i
    BY <1>1, <1>3, <1>5, <2>1, <2>3
  <2>. QED
    BY <2>2, <2>3
<1>. QED
  BY <1>1, <1>2, <1>4, <1>5 DEF TablesInv, Members

(* And the names that a restore has inserted.                               *)
LEMMA NamesStay ==
  ASSUME IInv, NEW i \in Ids, NEW x \in Collection \cup {NoCollection},
         collections' = [collections EXCEPT ![i] = x],
         x # NoCollection => (i \in Existing /\ x.name = collections[i].name) \/ x.name \notin naming
  PROVE  \A n \in naming : Named(n)' = {}
<1>1. /\ collections'[i] = x
      /\ \A j \in Ids : j # i => collections'[j] = collections[j]
  BY DEF IInv, TablesInv
<1>2. \A n \in naming : \A j \in Ids : collections[j] # NoCollection => collections[j].name # n
  BY DEF IInv, LockInv, Named, Existing
<1>3. ASSUME NEW n \in naming, NEW j \in Ids, collections'[j] # NoCollection
      PROVE  collections'[j].name # n
  BY <1>1, <1>2, <1>3 DEF Existing
<1>. QED
  BY <1>3 DEF Named, Existing

(***************************************************************************)
(* The steps of the requests.                                              *)
(***************************************************************************)
Kept ==
  TablesInv' /\ LockInv' /\ DOMAIN call' = Clients /\ \A d \in Clients : RequestInv(call'[d])

(* An answer that leaves the collections as they are.                       *)
LEMMA NothingChanged ==
  ASSUME IInv, UNCHANGED <<collections, marks, file>>
  PROVE  TablesInv' /\ \A n \in naming : Named(n)' = {}
<1>1. Existing' = Existing /\ \A i \in Ids : Members(i)' = Members(i)
  BY DEF Existing, Members
<1>2. \A n \in naming : Named(n)' = Named(n)
  BY <1>1 DEF Named
<1>3. \A i \in Existing : IsFiniteSet(Members(i)')
  BY <1>1 DEF IInv, TablesInv, Existing
<1>4. TablesInv'
  BY <1>1, <1>3 DEF IInv, TablesInv
<1>. QED
  BY <1>2, <1>4 DEF IInv, LockInv

(* An answered request.                                                     *)
LEMMA Answered ==
  ASSUME IInv, NEW c \in Clients, NEW new, Answer(c, new), ~Pending(c, "commit"),
         UNCHANGED marking, TablesInv', \A n \in naming : Named(n)' = {}
  PROVE  Kept
<1>1. RequestInv(Idle) /\ Idle.op # "commit"
  BY DEF RequestInv, Idle
<1>2. call' = [call EXCEPT ![c] = Idle] /\ UNCHANGED <<held, naming, marking>>
  BY DEF Answer
<1>. QED
  BY <1>1, <1>2, LocksStay DEF Kept

(* An answered request that has changed one collection at most.             *)
LEMMA AnsweredWith ==
  ASSUME IInv, NEW c \in Clients, NEW i \in Ids, NEW x \in Collection \cup {NoCollection},
         Answer(c, [collections EXCEPT ![i] = x]), ~Pending(c, "commit"), UNCHANGED Everyone,
         x # NoCollection => IsFiniteSet(DOMAIN x.members),
         x # NoCollection => \/ i \in Existing /\ x.name = collections[i].name
                             \/ x.name \notin naming /\ Named(x.name) = {}
  PROVE  Kept
<1>1. collections' = [collections EXCEPT ![i] = x]
  BY DEF Answer
<1>2. ASSUME x # NoCollection, NEW j \in Existing \ {i} PROVE collections[j].name # x.name
  <2>1. CASE i \in Existing /\ x.name = collections[i].name
    BY <1>2, <2>1 DEF IInv, TablesInv
  <2>2. CASE Named(x.name) = {}
    BY <1>2, <2>2 DEF Named
  <2>. QED
    BY <1>2, <2>1, <2>2
<1>3. TablesInv'
  BY <1>1, <1>2, OneChanged DEF IInv, Everyone
<1>4. \A n \in naming : Named(n)' = {}
  BY <1>1, NamesStay
<1>. QED
  BY <1>3, <1>4, Answered DEF Everyone

LEMMA CreateStep ==
  ASSUME IInv, NEW c \in Clients, EndCreate(c), UNCHANGED Everyone
  PROVE  Kept
<1>. DEFINE n == call[c].name
<1>1. n \in Names /\ n \notin naming /\ ~Pending(c, "commit")
  BY DEF EndCreate, IInv, RequestInv, Pending
<1>2. CASE Named(n) # {}
  BY <1>1, <1>2, NothingChanged, Answered DEF EndCreate, Answer, Everyone
<1>3. CASE Named(n) = {}
  <2>1. PICK i \in Ids \ Existing :
          Answer(c, [collections EXCEPT ![i] = [name |-> n, members |-> NoMembers]])
    BY <1>3 DEF EndCreate
  <2>2. NoMembers \in [{} -> Nat] /\ DOMAIN NoMembers = {}
    BY DEF NoMembers
  <2>3. [name |-> n, members |-> NoMembers] \in Collection
    BY <1>1, <2>2, MadeOf
  <2>. QED
    BY <1>1, <1>3, <2>1, <2>2, <2>3, AnsweredWith, FS_EmptySet
<1>. QED
  BY <1>2, <1>3

(* What is there of a collection.                                           *)
LEMMA Stands ==
  ASSUME TablesInv, NEW i \in Existing
  PROVE  /\ i \in Ids /\ collections[i] \in Collection /\ Members(i) \subseteq Entries
         /\ collections[i].members \in [Members(i) -> Nat] /\ IsFiniteSet(Members(i))
         /\ collections[i].name \in Names
<1>1. i \in Ids /\ collections[i] \in Collection /\ IsFiniteSet(Members(i))
  BY DEF TablesInv, Existing
<1>. QED
  BY <1>1, Parts DEF Members

(* One more member, at the position that the request has read.              *)
LEMMA AddStep ==
  ASSUME IInv, NEW c \in Clients, EndAdd(c), UNCHANGED Everyone
  PROVE  Kept
<1>. DEFINE i == call[c].id
            e == call[c].entry
            new == [m \in Members(i) \cup {e} |->
                      IF m = e THEN call[c].position ELSE collections[i].members[m]]
<1>1. i \in Ids /\ e \in Entries /\ call[c].position \in Nat /\ ~Pending(c, "commit")
  BY DEF EndAdd, IInv, RequestInv, Pending
<1>2. CASE Answer(c, collections)
  BY <1>1, <1>2, NothingChanged, Answered DEF Answer, Everyone
<1>3. CASE i \in Existing /\ e \notin Members(i)
  <2>1. /\ collections[i] \in Collection /\ Members(i) \subseteq Entries
        /\ collections[i].members \in [Members(i) -> Nat] /\ IsFiniteSet(Members(i))
    BY <1>3, Stands DEF IInv
  <2>2. collections' = [collections EXCEPT ![i].members = new] /\ Answer(c, collections')
    BY <1>3 DEF EndAdd, Answer, Members
  <2>3. [collections EXCEPT ![i].members = new]
          = [collections EXCEPT ![i] = [collections[i] EXCEPT !.members = new]]
    BY <1>1 DEF IInv, TablesInv
  <2>4. new \in [Members(i) \cup {e} -> Nat] /\ Members(i) \cup {e} \subseteq Entries
    BY <1>1, <2>1
  <2>5. IsFiniteSet(DOMAIN new)
    BY <2>1, FS_AddElement
  <2>. HIDE DEF new
  <2>6. /\ [collections[i] EXCEPT !.members = new]
             = [name |-> collections[i].name, members |-> new]
        /\ [collections[i] EXCEPT !.members = new] \in Collection
    BY <2>1, <2>4, Changed
  <2>. QED
    BY <1>1, <1>3, <2>2, <2>3, <2>5, <2>6, AnsweredWith
<1>. QED
  BY <1>2, <1>3 DEF EndAdd

(* One member less.                                                         *)
LEMMA RemoveStep ==
  ASSUME IInv, NEW c \in Clients, EndRemove(c), UNCHANGED Everyone
  PROVE  Kept
<1>. DEFINE i == call[c].id
            new == [m \in Members(i) \ {call[c].entry} |-> collections[i].members[m]]
<1>1. i \in Ids /\ ~Pending(c, "commit")
  BY DEF EndRemove, IInv, RequestInv, Pending
<1>2. CASE i \notin Existing
  <2>1. Answer(c, collections)
    BY <1>2 DEF EndRemove
  <2>. QED
    BY <1>1, <2>1, NothingChanged, Answered DEF Answer, Everyone
<1>3. CASE i \in Existing
  <2>1. /\ collections[i] \in Collection /\ Members(i) \subseteq Entries
        /\ collections[i].members \in [Members(i) -> Nat] /\ IsFiniteSet(Members(i))
    BY <1>3, Stands DEF IInv
  <2>2. collections' = [collections EXCEPT ![i].members = new] /\ Answer(c, collections')
    BY <1>3 DEF EndRemove, Answer, Members
  <2>3. [collections EXCEPT ![i].members = new]
          = [collections EXCEPT ![i] = [collections[i] EXCEPT !.members = new]]
    BY <1>1 DEF IInv, TablesInv
  <2>4. new \in [Members(i) \ {call[c].entry} -> Nat] /\ Members(i) \ {call[c].entry} \subseteq Entries
    BY <2>1
  <2>5. IsFiniteSet(DOMAIN new)
    BY <2>1, FS_RemoveElement
  <2>. HIDE DEF new
  <2>6. /\ [collections[i] EXCEPT !.members = new]
             = [name |-> collections[i].name, members |-> new]
        /\ [collections[i] EXCEPT !.members = new] \in Collection
    BY <2>1, <2>4, Changed
  <2>. QED
    BY <1>1, <1>3, <2>2, <2>3, <2>5, <2>6, AnsweredWith
<1>. QED
  BY <1>2, <1>3

LEMMA DeleteStep ==
  ASSUME IInv, NEW c \in Clients, EndDelete(c), UNCHANGED Everyone
  PROVE  Kept
<1>1. call[c].id \in Ids /\ ~Pending(c, "commit")
  BY DEF EndDelete, IInv, RequestInv, Pending
<1>. QED
  BY <1>1, AnsweredWith DEF EndDelete

LEMMA MarkStep ==
  ASSUME IInv, NEW c \in Clients, EndMark(c)
  PROVE  Kept
<1>1. call[c].entry \in Entries /\ call[c].mark \in Mark /\ ~Pending(c, "commit")
  BY DEF EndMark, IInv, RequestInv, Pending
<1>2. marks' \in [Entries -> Mark] /\ collections' = collections /\ file' = file
  BY <1>1 DEF EndMark, Answer, IInv, TablesInv
<1>3. TablesInv' /\ \A n \in naming : Named(n)' = {}
  BY <1>2 DEF IInv, TablesInv, LockInv, Existing, Members, Named
<1>. QED
  BY <1>1, <1>3, Answered DEF EndMark

(* What is exported is a backup.                                            *)
LEMMA ExportStep ==
  ASSUME IInv, NEW c \in Clients, EndExport(c)
  PROVE  Kept
<1>1. (\A e \in DOMAIN call[c].marks : call[c].marks[e] \in Mark) /\ ~Pending(c, "commit")
  BY DEF EndExport, IInv, RequestInv, Pending
<1>2. PICK lists \in [{collections[i].name : i \in Existing} ->
                        UNION {SetToSeqs(Members(i)) : i \in Existing}] :
        /\ \A i \in Existing : lists[collections[i].name] \in SetToSeqs(Members(i))
        /\ file' = [marks |-> call[c].marks, collections |-> lists]
  BY DEF EndExport
<1>3. ASSUME NEW n \in DOMAIN lists PROVE n \in Names /\ lists[n] \in Seq(Entries \cup {Unknown})
  <2>1. PICK i \in Existing : n = collections[i].name
    BY <1>3
  <2>2. /\ n \in Names /\ Members(i) \subseteq Entries /\ IsFiniteSet(Members(i))
        /\ lists[n] \in SetToSeqs(Members(i))
    BY <1>2, <2>1, Stands DEF IInv
  <2>3. lists[n] \in Seq(Members(i))
    BY <2>2, ListOf
  <2>. QED
    BY <2>2, <2>3
<1>4. IsBackup([marks |-> call[c].marks, collections |-> lists])
  BY <1>1, <1>3 DEF IsBackup, Mark
<1>5. IsBackup(file') /\ UNCHANGED <<collections, marks>>
  BY <1>2, <1>4 DEF EndExport, Answer
<1>6. TablesInv' /\ \A n \in naming : Named(n)' = {}
  BY <1>5 DEF IInv, TablesInv, LockInv, Existing, Members, Named
<1>. QED
  BY <1>1, <1>6, Answered DEF EndExport

(* An import that loses leaves everything as it was.                        *)
LEMMA LoseStep ==
  ASSUME IInv, NEW c \in Clients, ImportLoses(c)
  PROVE  Kept
<1>1. ~Pending(c, "commit") /\ UNCHANGED <<collections, held, naming, marks, marking, file>>
  BY DEF ImportLoses, Pending, Answer, Everyone
<1>2. TablesInv' /\ \A n \in naming : Named(n)' = {}
  BY <1>1, NothingChanged DEF Everyone
<1>. QED
  BY <1>1, <1>2, Answered DEF ImportLoses

(* A request that arrives.                                                  *)
LEMMA BeginStep ==
  ASSUME IInv, NEW c \in Clients, BackupBegin(c)
  PROVE  Kept
<1>1. PICK r : Begin(c, r) /\ UNCHANGED Everyone /\ RequestInv(r) /\ r.op # "commit"
  BY Begun DEF IInv
<1>2. ~Pending(c, "commit")
  BY <1>1 DEF Begin, Pending, Idle
<1>3. TablesInv' /\ \A n \in naming : Named(n)' = {}
  BY <1>1, NothingChanged DEF Begin, Everyone
<1>. QED
  BY <1>1, <1>2, <1>3, LocksStay DEF Begin, Everyone, Kept

(***************************************************************************)
(* The restore.                                                            *)
(***************************************************************************)

(* It writes under locks what it has read to differ.                        *)
LEMMA WriteStep ==
  ASSUME IInv, NEW c \in Clients, ImportWrites(c)
  PROVE  Kept
<1>. DEFINE f == call[c].file
            new == {n \in DOMAIN f.collections : Named(n) = {}}
            r == [op |-> "commit", file |-> f, new |-> new]
<1>1. /\ IsBackup(f) /\ call[c].write \subseteq Entries \cap DOMAIN f.marks
      /\ \A d \in Clients : ~Pending(d, "commit")
  BY DEF ImportWrites, Pending, IInv, RequestInv
<1>2. naming' = new /\ held' = Replaced(f) /\ marking' = [e \in call[c].write |-> f.marks[e]]
  BY DEF ImportWrites
<1>3. call' = [call EXCEPT ![c] = r] /\ UNCHANGED <<collections, marks, file>>
  BY DEF ImportWrites
<1>4. RequestInv(r)
  BY <1>1 DEF RequestInv
<1>5. r.op = "commit" /\ r.new = new
  OBVIOUS
<1>6. TablesInv'
  BY <1>3, NothingChanged
<1>7. \A n \in new : Named(n)' = {}
  <2>1. \A n \in new : Named(n)' = Named(n)
    BY <1>3 DEF Named, Existing
  <2>. QED
    BY <2>1
<1>8. new \subseteq Names
  BY <1>1 DEF IsBackup
<1>9. Replaced(f) \subseteq Ids \X Entries
  BY DEF Replaced
<1>10. /\ DOMAIN marking' \subseteq Entries /\ \A e \in DOMAIN marking' : marking'[e] \in Mark
  BY <1>1, <1>2 DEF IsBackup, Mark
<1>. HIDE DEF r, new, f
<1>11. /\ DOMAIN call' = Clients /\ call'[c] = r
       /\ \A d \in Clients : d # c => call'[d] = call[d]
  BY <1>3 DEF IInv
<1>12. \A d \in Clients : RequestInv(call'[d])
  BY <1>4, <1>11 DEF IInv
<1>13. \A d \in Clients : Pending(d, "commit")' <=> d = c
  BY <1>1, <1>5, <1>11 DEF Pending
<1>14. LockInv'
  BY <1>2, <1>5, <1>7, <1>8, <1>9, <1>10, <1>11, <1>13 DEF LockInv
<1>. QED
  BY <1>6, <1>11, <1>12, <1>14 DEF Kept

Places(c, place) ==
  /\ place \in [call[c].new -> Ids \ Existing]
  /\ \A m, n \in call[c].new : m # n => place[m] # place[n]

\* The collections that the commit leaves, those of the file at these places.
Committed(c, place) ==
  LET f == call[c].file IN
  /\ DOMAIN collections' = Ids
  /\ \A i \in Found(c) :
       /\ collections'[i] \in Collection /\ collections'[i].name = collections[i].name
       /\ DOMAIN collections'[i].members
            = Left(i) \cup (ToSet(f.collections[collections[i].name]) \cap Entries)
  /\ \A n \in call[c].new :
       /\ collections'[place[n]] \in Collection /\ collections'[place[n]].name = n
       /\ DOMAIN collections'[place[n]].members = ToSet(f.collections[n]) \cap Entries
  /\ \A i \in Ids \ Found(c) :
       (\A n \in call[c].new : place[n] # i) => collections'[i] = collections[i]
  /\ marks' = [e \in Entries |-> IF e \in DOMAIN marking THEN marking[e] ELSE marks[e]]

(* It is given up, or leaves what the file says.                            *)
LEMMA CommitOutcome ==
  ASSUME IInv, NEW c \in Clients, ImportCommits(c)
  PROVE  IF Clash(c) THEN UNCHANGED <<collections, marks>>
         ELSE \E place : Places(c, place) /\ Committed(c, place)
<1>. DEFINE f == call[c].file
            new == call[c].new
            back(n) == Restored(f.collections[n])
<1>1. IsBackup(f) /\ new \subseteq DOMAIN f.collections
  BY DEF ImportCommits, Pending, IInv, RequestInv
<1>2. CASE Clash(c)
  BY <1>2 DEF ImportCommits
<1>3. CASE ~Clash(c)
  <2>1. PICK place \in [new -> Ids \ Existing] :
          /\ \A m, n \in new : m # n => place[m] # place[n]
          /\ marks' = [e \in Entries |-> IF e \in DOMAIN marking THEN marking[e] ELSE marks[e]]
          /\ collections' = [i \in Ids |->
               IF i \in Found(c) THEN Refilled(i, back(collections[i].name))
               ELSE IF \E n \in new : place[n] = i THEN Inserted(c, place, i)
               ELSE collections[i]]
    BY <1>3 DEF ImportCommits
  <2>2. ASSUME NEW n \in DOMAIN f.collections
        PROVE  /\ DOMAIN back(n) = ToSet(f.collections[n]) \cap Entries
               /\ back(n) \in [DOMAIN back(n) -> Nat] /\ n \in Names
    BY <1>1, RestoredIs DEF IsBackup
  <2>3. ASSUME NEW i \in Found(c)
        PROVE  /\ collections'[i] \in Collection /\ collections'[i].name = collections[i].name
               /\ DOMAIN collections'[i].members
                    = Left(i) \cup (ToSet(f.collections[collections[i].name]) \cap Entries)
    <3>. DEFINE bk == back(collections[i].name)
                of == [e \in Left(i) \cup DOMAIN bk |->
                         IF e \in DOMAIN bk THEN bk[e] ELSE collections[i].members[e]]
    <3>1. i \in Existing /\ i \in Ids /\ collections[i].name \in DOMAIN f.collections
      BY DEF Found, Existing
    <3>2. /\ collections[i] \in Collection /\ Left(i) \subseteq Entries
          /\ \A e \in Left(i) : collections[i].members[e] \in Nat
      BY <3>1, Stands DEF IInv, Left
    <3>3. collections'[i] = Refilled(i, bk)
      BY <2>1, <3>1
    <3>4. DOMAIN bk = ToSet(f.collections[collections[i].name]) \cap Entries
      BY <2>2, <3>1
    <3>5. bk \in [DOMAIN bk -> Nat]
      BY <2>2, <3>1
    <3>. HIDE DEF bk
    <3>6. Refilled(i, bk) = [collections[i] EXCEPT !.members = of]
      BY DEF Refilled
    <3>7. of \in [Left(i) \cup DOMAIN bk -> Nat] /\ Left(i) \cup DOMAIN bk \subseteq Entries
      BY <3>2, <3>4, <3>5
    <3>8. DOMAIN of = Left(i) \cup (ToSet(f.collections[collections[i].name]) \cap Entries)
      BY <3>4
    <3>. HIDE DEF of
    <3>9. /\ collections'[i] = [name |-> collections[i].name, members |-> of]
          /\ collections'[i] \in Collection
      BY <3>2, <3>3, <3>6, <3>7, Changed
    <3>. QED
      BY <3>8, <3>9
  <2>4. ASSUME NEW n \in new
        PROVE  /\ collections'[place[n]] \in Collection /\ collections'[place[n]].name = n
               /\ DOMAIN collections'[place[n]].members = ToSet(f.collections[n]) \cap Entries
    <3>1. place[n] \in Ids /\ place[n] \notin Found(c) /\ (CHOOSE m \in new : place[m] = place[n]) = n
      BY <2>1 DEF Found
    <3>2. collections'[place[n]] = [name |-> n, members |-> back(n)]
      <4>1. Inserted(c, place, place[n]) = [name |-> n, members |-> back(n)]
        BY <3>1 DEF Inserted
      <4>2. collections'[place[n]] = Inserted(c, place, place[n])
        BY <2>1, <3>1
      <4>. QED
        BY <4>1, <4>2
    <3>3. /\ DOMAIN back(n) = ToSet(f.collections[n]) \cap Entries
          /\ back(n) \in [DOMAIN back(n) -> Nat] /\ n \in Names
      BY <1>1, <2>2
    <3>4. [name |-> n, members |-> back(n)] \in Collection
      BY <3>3, MadeOf
    <3>. QED
      BY <3>2, <3>3, <3>4
  <2>5. ASSUME NEW i \in Ids \ Found(c), \A n \in new : place[n] # i
        PROVE  collections'[i] = collections[i]
    BY <2>1, <2>5
  <2>6. Places(c, place) /\ DOMAIN collections' = Ids
    BY <2>1 DEF Places
  <2>7. Committed(c, place)
    BY <2>1, <2>3, <2>4, <2>5, <2>6 DEF Committed
  <2>. QED
    BY <1>3, <2>6, <2>7
<1>. QED
  BY <1>2, <1>3

(* Names stay unique, since nobody has taken one that it has inserted.      *)
LEMMA CommitTables ==
  ASSUME IInv, NEW c \in Clients, Pending(c, "commit"), UNCHANGED file,
         NEW place, Places(c, place), Committed(c, place)
  PROVE  TablesInv'
<1>. DEFINE f == call[c].file
            new == call[c].new
<1>1. /\ IsBackup(f) /\ new \subseteq DOMAIN f.collections
      /\ \A n \in new : Named(n) = {}
  BY DEF Pending, IInv, RequestInv, LockInv
<1>2. /\ \A i \in Found(c) : i \in Existing
      /\ \A n \in new : place[n] \in Ids \ Existing /\ place[n] \notin Found(c)
      /\ \A m, n \in new : m # n => place[m] # place[n]
  BY DEF Places, Found
<1>3. ASSUME NEW i \in Ids
      PROVE  \/ i \in Found(c)
             \/ \E n \in new : place[n] = i
             \/ i \notin Found(c) /\ (\A n \in new : place[n] # i) /\ collections'[i] = collections[i]
  BY DEF Committed
<1>4. \A i \in Ids : collections'[i] \in Collection \cup {NoCollection}
  BY <1>3 DEF Committed, IInv, TablesInv
<1>5. ASSUME NEW i \in Existing'
      PROVE  IsFiniteSet(DOMAIN collections'[i].members)
  <2>1. CASE i \in Found(c)
    <3>1. i \in Existing /\ collections[i].name \in DOMAIN f.collections
      BY <2>1 DEF Found
    <3>2. IsFiniteSet(Left(i))
      BY <3>1, Stands, FS_Subset DEF IInv, Left
    <3>3. IsFiniteSet(ToSet(f.collections[collections[i].name]) \cap Entries)
      BY <1>1, <3>1, RestoredIs DEF IsBackup
    <3>4. DOMAIN collections'[i].members
            = Left(i) \cup (ToSet(f.collections[collections[i].name]) \cap Entries)
      BY <2>1 DEF Committed
    <3>. QED
      BY <3>2, <3>3, <3>4, FS_Union
  <2>2. ASSUME NEW n \in new, place[n] = i PROVE IsFiniteSet(DOMAIN collections'[i].members)
    <3>1. IsFiniteSet(ToSet(f.collections[n]) \cap Entries)
      BY <1>1, RestoredIs DEF IsBackup
    <3>. QED
      BY <2>2, <3>1 DEF Committed
  <2>3. CASE collections'[i] = collections[i]
    BY <2>3, Stands DEF IInv, Existing, Members
  <2>. QED
    BY <1>3, <2>1, <2>2, <2>3 DEF Existing
<1>6. ASSUME NEW i \in Existing', NEW j \in Existing',
             collections'[i].name = collections'[j].name
      PROVE  i = j
  <2>1. \A k \in Existing' : (\A n \in new : place[n] # k) =>
          k \in Existing /\ collections'[k].name = collections[k].name
    BY <1>2, <1>3 DEF Existing, Committed
  <2>2. \A n \in new : collections'[place[n]].name = n
    BY DEF Committed
  <2>3. \A k \in Existing : \A n \in new : collections[k].name # n
    BY <1>1 DEF Named
  <2>4. CASE (\A n \in new : place[n] # i) /\ (\A n \in new : place[n] # j)
    BY <1>6, <2>1, <2>4 DEF IInv, TablesInv
  <2>5. ASSUME NEW n \in new, place[n] = i PROVE i = j
    BY <1>6, <2>1, <2>2, <2>3, <2>5
  <2>6. ASSUME NEW n \in new, place[n] = j PROVE i = j
    BY <1>6, <2>1, <2>2, <2>3, <2>6
  <2>. QED
    BY <2>4, <2>5, <2>6
<1>7. marks' \in [Entries -> Mark]
  BY DEF Committed, IInv, TablesInv, LockInv
<1>8. DOMAIN collections' = Ids /\ (file' = NoFile \/ IsBackup(file'))
  BY DEF Committed, IInv, TablesInv
<1>. QED
  BY <1>4, <1>5, <1>6, <1>7, <1>8 DEF TablesInv, Members

LEMMA CommitStep ==
  ASSUME IInv, NEW c \in Clients, ImportCommits(c)
  PROVE  Kept
<1>1. /\ Pending(c, "commit") /\ call' = [call EXCEPT ![c] = Idle] /\ UNCHANGED file
      /\ held' = {} /\ naming' = {} /\ marking' = Nothing
  BY DEF ImportCommits, Release
<1>2. TablesInv'
  <2>1. CASE Clash(c)
    BY <1>1, <2>1, CommitOutcome, NothingChanged
  <2>2. CASE ~Clash(c)
    BY <1>1, <2>2, CommitOutcome, CommitTables
  <2>. QED
    BY <2>1, <2>2
<1>3. /\ DOMAIN call' = Clients /\ call'[c] = Idle
      /\ \A d \in Clients : d # c => call'[d] = call[d]
  BY <1>1 DEF IInv
<1>4. \A d \in Clients : RequestInv(call'[d])
  BY <1>3 DEF IInv, RequestInv, Idle
<1>5. \A d \in Clients : ~Pending(d, "commit")'
  BY <1>1, <1>3 DEF IInv, LockInv, Pending, Idle
<1>6. LockInv'
  BY <1>1, <1>5 DEF LockInv, Nothing
<1>. QED
  BY <1>2, <1>3, <1>4, <1>6 DEF Kept

(* Whoever is alone finds what it has read.                                 *)
LEMMA AloneStep ==
  ASSUME IInv, NEW c \in Clients, BackupBegin(c) \/ BackupEnd(c), Overlap(c)
  PROVE  AloneInv' /\ alone' \subseteq Clients
<1>1. alone' \subseteq Clients
  BY DEF Overlap, IInv
<1>2. \A d \in Clients : d # c => call'[d] = call[d]
  BY Begun DEF IInv, Begin, BackupEnd, EndCollection, EndCreate, EndAdd, EndRemove, EndDelete,
     EndMark, EndExport, ImportWrites, ImportLoses, ImportCommits, Answer
<1>3. ASSUME NEW d \in alone', call'[d] # Idle
      PROVE  d = c /\ \A e \in Clients \ {c} : call[e] = Idle /\ call'[e] = Idle
  BY <1>1, <1>2, <1>3 DEF Overlap
<1>4. ASSUME c \in alone', call'[c] # Idle, NEW r, r = call'[c] PROVE AsRead(r)'
  <2>1. CASE BackupBegin(c)
    <3>1. PICK q : /\ Begin(c, q) /\ UNCHANGED Everyone /\ q.op # "commit"
                   /\ q.op = "import" => q.write = Differing(q.file)
      BY <2>1, Begun DEF IInv
    <3>2. q = r /\ UNCHANGED marks
      BY <1>4, <3>1 DEF Begin, Everyone, IInv
    <3>3. Differing(q.file)' = Differing(q.file)
      BY <3>2 DEF Differing
    <3>. QED
      BY <3>1, <3>2, <3>3 DEF AsRead
  <2>2. CASE BackupEnd(c) /\ ~ImportWrites(c)
    BY <1>4, <2>2 DEF IInv, BackupEnd, EndCollection, EndCreate, EndAdd, EndRemove, EndDelete,
       EndMark, EndExport, ImportLoses, ImportCommits, Answer
  <2>3. CASE ImportWrites(c)
    <3>. DEFINE f == call[c].file
    <3>1. c \in alone /\ call[c] # Idle /\ call[c].op = "import"
      BY <1>3, <1>4, <2>3 DEF Overlap, ImportWrites, Pending, Idle
    <3>2. call[c].write = Differing(f)
      BY <3>1 DEF IInv, AloneInv, AsRead
    <3>3. /\ naming' = {n \in DOMAIN f.collections : Named(n) = {}}
          /\ held' = Replaced(f)
          /\ marking' = [e \in Differing(f) |-> f.marks[e]]
          /\ r.op = "commit" /\ r.file = f
          /\ UNCHANGED <<collections, marks>>
      BY <1>4, <2>3, <3>2 DEF ImportWrites, IInv
    <3>4. PICK g : g = f
      OBVIOUS
    <3>5. Differing(g)' = Differing(g) /\ Replaced(g)' = Replaced(g)
      BY <3>3 DEF Differing, Replaced, Existing, Members
    <3>6. \A n : Named(n)' = Named(n)
      BY <3>3 DEF Named, Existing
    <3>. HIDE DEF f
    <3>. QED
      BY <3>3, <3>4, <3>5, <3>6 DEF AsRead
  <2>. QED
    BY <2>1, <2>2, <2>3
<1>5. ASSUME c \in alone', call'[c] # Idle PROVE AsRead(call[c])'
  <2>1. PICK r : r = call'[c]
    OBVIOUS
  <2>2. AsRead(r)'
    BY <1>4, <1>5, <2>1
  <2>. QED
    BY <2>1, <2>2 DEF AsRead, Differing, Replaced
<1>. QED
  BY <1>1, <1>3, <1>5 DEF AloneInv

(***************************************************************************)
(* The theorems.                                                           *)
(***************************************************************************)
LEMMA InitInv == BackupInit => IInv
<1>. SUFFICES ASSUME BackupInit PROVE IInv
  OBVIOUS
<1>1. /\ collections \in [Ids -> {NoCollection}] /\ Existing = {}
      /\ call = [c \in Clients |-> Idle] /\ alone = Clients
  BY DEF BackupInit, CollectionsInit, Existing
<1>2. TablesInv
  <2>1. marks \in [Entries -> Mark]
    BY DEF BackupInit, Mark
  <2>2. file = NoFile \/ IsBackup(file)
    BY BackupAssumption DEF BackupInit, BackupAssumption
  <2>. QED
    BY <1>1, <2>1, <2>2 DEF TablesInv
<1>3. \A c \in Clients : call[c] = Idle /\ ~Pending(c, "commit") /\ RequestInv(call[c])
  BY <1>1 DEF RequestInv, Pending, Idle
<1>4. LockInv
  BY <1>3 DEF LockInv, BackupInit, CollectionsInit, Nothing
<1>. QED
  BY <1>1, <1>2, <1>3, <1>4 DEF IInv, AloneInv

LEMMA NextInv == IInv /\ [BackupNext]_backupVars => IInv'
<1>. SUFFICES ASSUME IInv, [BackupNext]_backupVars PROVE IInv'
  OBVIOUS
<1>1. ASSUME NEW c \in Clients, BackupBegin(c) \/ BackupEnd(c), Overlap(c) PROVE IInv'
  <2>1. Kept
    BY <1>1, BeginStep, CreateStep, AddStep, RemoveStep, DeleteStep, MarkStep, ExportStep,
       WriteStep, LoseStep, CommitStep DEF BackupEnd, EndCollection
  <2>2. AloneInv' /\ alone' \subseteq Clients
    BY <1>1, AloneStep
  <2>. QED
    BY <2>1, <2>2 DEF Kept, IInv
<1>2. CASE UNCHANGED backupVars
  <2>1. /\ UNCHANGED <<collections, call, held, naming, marks, marking, file, alone>>
        /\ TablesInv' /\ \A n \in naming : Named(n)' = {}
    BY <1>2, NothingChanged DEF backupVars, collectionVars
  <2>2. LockInv'
    BY <2>1 DEF IInv, LockInv, Pending
  <2>3. AloneInv'
    BY <2>1 DEF IInv, AloneInv, AsRead, Differing, Replaced, Named, Existing, Members
  <2>. QED
    BY <2>1, <2>2, <2>3 DEF IInv
<1>. QED
  BY <1>1, <1>2 DEF BackupNext

(* Every state that the requests of users reach is one in which the         *)
(* requests under way may still rely on what they have read and locked.     *)
THEOREM Invariant == BackupSpec => []IInv
<1>. QED
  BY InitInv, NextInv, PTL DEF BackupSpec

(* The tables are well formed, no name belongs to two collections, and what *)
(* is written and not committed belongs to a restore (BackupTypeOK; the     *)
(* unique constraints that collection_mutations.py and admin_backup.py rely *)
(* on when they look a name up first).                                      *)
THEOREM TypeCorrect == BackupSpec => []BackupTypeOK
<1>1. ASSUME IInv PROVE BackupTypeOK
  <2>1. \A i \in Existing : Members(i) \subseteq Entries /\ Positions(i) \subseteq Nat
    BY <1>1, Stands DEF IInv, Positions
  <2>2. ASSUME NEW n \in Names PROVE Cardinality(Named(n)) <= 1
    <3>1. CASE Named(n) = {}
      BY <3>1, FS_EmptySet
    <3>2. ASSUME NEW i \in Named(n) PROVE Cardinality(Named(n)) <= 1
      <4>1. Named(n) = {i}
        BY <1>1, <3>2 DEF Named, IInv, TablesInv
      <4>. QED
        BY <4>1, FS_Singleton
    <3>. QED
      BY <3>1, <3>2
  <2>3. marks \in [Entries -> Marks \cup {NoMark}]
    BY <1>1 DEF IInv, TablesInv, Mark
  <2>4. held \subseteq Ids \X Entries /\ naming \subseteq Names
    BY <1>1 DEF IInv, LockInv
  <2>5. (\A c \in Clients : ~Pending(c, "commit")) => held = {} /\ naming = {} /\ DOMAIN marking = {}
    BY <1>1 DEF IInv, LockInv, Nothing
  <2>. QED
    BY <2>1, <2>2, <2>3, <2>4, <2>5 DEF BackupTypeOK
<1>. QED
  BY <1>1, Invariant, PTL

(* Whose step it is.                                                        *)
LEMMA OwnStep ==
  ASSUME IInv, NEW c \in Clients, BackupBegin(c) \/ BackupEnd(c)
  PROVE  \A d \in Clients : d # c => call'[d] = call[d]
BY Begun DEF IInv, Begin, BackupEnd, EndCollection, EndCreate, EndAdd, EndRemove, EndDelete,
   EndMark, EndExport, ImportWrites, ImportLoses, ImportCommits, Answer

(* An addition is shown behind all that were there.                         *)
LEMMA AddedStep ==
  ASSUME IInv, NEW c \in Clients, EndAdd(c), NEW i \in Ids, call[c].id = i,
         collections'[i] # collections[i], NEW shown \in Details(i)',
         NEW m \in DOMAIN shown, NEW n \in DOMAIN shown,
         shown[n] = call[c].entry,
         shown[m] \in DOMAIN call[c].before \cap Members(i),
         collections[i].members[shown[m]] = call[c].before[shown[m]]
  PROVE  m < n
<1>. DEFINE e == call[c].entry
            new == collections'[i].members
<1>1. /\ e \in Entries /\ call[c].position \in Nat
      /\ call[c].before[shown[m]] \in Nat /\ call[c].before[shown[m]] < call[c].position
  BY DEF EndAdd, IInv, RequestInv, Pending
<1>2. i \in Existing /\ e \notin Members(i)
  BY DEF EndAdd, Answer
<1>3. /\ DOMAIN new = Members(i) \cup {e} /\ new[e] = call[c].position
      /\ \A x \in Members(i) : new[x] = collections[i].members[x]
  <2>1. collections' = [collections EXCEPT ![i].members =
          [x \in Members(i) \cup {e} |->
             IF x = e THEN call[c].position ELSE collections[i].members[x]]]
    BY <1>2 DEF EndAdd, Answer, Members
  <2>2. collections[i] \in Collection /\ DOMAIN collections = Ids
    BY <1>2, Stands DEF IInv, TablesInv
  <2>3. collections'[i] = [collections[i] EXCEPT !.members =
          [x \in Members(i) \cup {e} |->
             IF x = e THEN call[c].position ELSE collections[i].members[x]]]
    BY <2>1, <2>2
  <2>4. new = [x \in Members(i) \cup {e} |->
                 IF x = e THEN call[c].position ELSE collections[i].members[x]]
    BY <2>2, <2>3 DEF Collection
  <2>. QED
    BY <1>2, <2>4
<1>4. new[shown[m]] < new[shown[n]]
  BY <1>1, <1>3
<1>5. new[shown[m]] \in Nat /\ new[shown[n]] \in Nat
  BY <1>1, <1>3
<1>6. m # n
  BY <1>2
<1>7. m \in Nat /\ n \in Nat
  <2>1. IsFiniteSet(Members(i)')
    BY <1>2, <1>3, Stands, FS_AddElement DEF IInv, Members
  <2>2. shown \in SetToSeqs(Members(i)')
    BY DEF Details, SetToSeqs
  <2>3. DOMAIN shown = 1..Len(shown) /\ Len(shown) \in Nat
    BY <2>1, <2>2, ListOf
  <2>. QED
    BY <2>3
<1>8. n < m => new[shown[n]] <= new[shown[m]]
  BY DEF Details
<1>. QED
  BY <1>4, <1>5, <1>6, <1>7, <1>8

(* A mark changes with its event or by a restore.                           *)
LEMMA MarksStep ==
  ASSUME IInv, NEW c \in Clients, BackupBegin(c) \/ BackupEnd(c),
         NEW e \in Entries, marks'[e] # marks[e]
  PROVE  e \in published' \/ Pending(c, "commit")
<1>1. ~BackupBegin(c)
  BY Begun DEF IInv, Everyone
<1>2. CASE EndMark(c)
  BY <1>2 DEF EndMark, IInv, TablesInv
<1>. QED
  BY <1>1, <1>2 DEF BackupEnd, Everyone, EndExport, ImportWrites, ImportLoses, ImportCommits

(* A restore that was alone is not given up.                                *)
LEMMA AloneCommits ==
  ASSUME IInv, NEW c \in alone, Pending(c, "commit"),
         \A n \in DOMAIN call[c].file.collections : ~Doubled(call[c].file.collections[n])
  PROVE  /\ ~Clash(c) /\ \A i \in Found(c) : Left(i) = {}
         /\ call[c].new = {n \in DOMAIN call[c].file.collections : Named(n) = {}}
<1>. DEFINE f == call[c].file
<1>1. c \in Clients /\ call[c] # Idle
  BY DEF IInv, Pending, Idle
<1>2. naming = {n \in DOMAIN f.collections : Named(n) = {}} /\ held = Replaced(f)
  BY <1>1 DEF IInv, AloneInv, AsRead, Pending
<1>3. call[c].new = {n \in DOMAIN f.collections : Named(n) = {}}
  BY <1>1, <1>2 DEF IInv, LockInv
<1>4. ASSUME NEW i \in Found(c) PROVE Left(i) = {}
  <2>1. i \in Existing /\ collections[i].name \in DOMAIN f.collections /\ Members(i) \subseteq Entries
    BY <1>1, Stands DEF Found, IInv
  <2>2. \A e \in Members(i) : <<i, e>> \in Replaced(f)
    BY <2>1 DEF Replaced, Existing
  <2>. QED
    BY <1>2, <2>2 DEF Left
<1>5. ASSUME NEW n \in DOMAIN f.collections \ call[c].new
      PROVE  \E i \in Found(c) : collections[i].name = n
  <2>1. PICK i \in Named(n) : TRUE
    BY <1>3
  <2>. QED
    BY <2>1 DEF Named, Found
<1>6. {collections[i].name : i \in Found(c)} = DOMAIN f.collections \ call[c].new
  BY <1>5 DEF Found
<1>. QED
  BY <1>3, <1>4, <1>6 DEF Clash

(* And leaves what the file says.                                           *)
LEMMA RestoredStep ==
  ASSUME IInv, NEW c \in alone, ImportCommits(c),
         \A n \in DOMAIN call[c].file.collections : ~Doubled(call[c].file.collections[n])
  PROVE  LET f == call[c].file IN
         /\ \A e \in Entries : marks'[e] = IF e \in DOMAIN f.marks THEN f.marks[e] ELSE marks[e]
         /\ \A n \in DOMAIN f.collections :
              \E i \in Ids : /\ collections'[i] # NoCollection /\ collections'[i].name = n
                             /\ DOMAIN collections'[i].members = ToSet(f.collections[n]) \cap Entries
         /\ \A i \in Ids : collections'[i] # collections[i] =>
              collections'[i].name \in DOMAIN f.collections
<1>. DEFINE f == call[c].file
<1>1. c \in Clients /\ Pending(c, "commit") /\ call[c] # Idle
  BY DEF IInv, ImportCommits, Pending, Idle
<1>2. /\ ~Clash(c) /\ \A i \in Found(c) : Left(i) = {}
      /\ call[c].new = {n \in DOMAIN f.collections : Named(n) = {}}
  BY <1>1, AloneCommits
<1>3. PICK place : Places(c, place) /\ Committed(c, place)
  BY <1>1, <1>2, CommitOutcome
<1>4. \A x \in Collection : x # NoCollection
  BY CollectionsAssumption DEF CollectionsAssumption
<1>5. ASSUME NEW e \in Entries
      PROVE  marks'[e] = IF e \in DOMAIN f.marks THEN f.marks[e] ELSE marks[e]
  <2>1. marking = [x \in Differing(f) |-> f.marks[x]]
    BY <1>1 DEF IInv, AloneInv, AsRead, Pending
  <2>2. marks'[e] = IF e \in Differing(f) THEN f.marks[e] ELSE marks[e]
    BY <1>3, <2>1 DEF Committed
  <2>. QED
    BY <2>2 DEF Differing
<1>6. ASSUME NEW n \in DOMAIN f.collections
      PROVE  \E i \in Ids : /\ collections'[i] # NoCollection /\ collections'[i].name = n
                            /\ DOMAIN collections'[i].members = ToSet(f.collections[n]) \cap Entries
  <2>1. CASE n \in call[c].new
    BY <1>3, <1>4, <2>1 DEF Committed, Places
  <2>2. CASE n \notin call[c].new
    <3>1. PICK i \in Named(n) : TRUE
      BY <1>2, <2>2
    <3>2. i \in Found(c) /\ i \in Ids /\ collections[i].name = n
      BY <2>2, <3>1 DEF Named, Found, Existing
    <3>3. /\ collections'[i] \in Collection /\ collections'[i].name = n
          /\ DOMAIN collections'[i].members = Left(i) \cup (ToSet(f.collections[n]) \cap Entries)
      BY <1>3, <3>2 DEF Committed
    <3>. QED
      BY <1>2, <1>4, <3>2, <3>3
  <2>. QED
    BY <2>1, <2>2
<1>7. ASSUME NEW i \in Ids, collections'[i] # collections[i]
      PROVE  collections'[i].name \in DOMAIN f.collections
  BY <1>2, <1>3, <1>7 DEF Committed, Found
<1>. QED
  BY <1>5, <1>6, <1>7

(* What users did is kept (UserStateKept): what add_entry_to_collection adds *)
(* is shown behind what it found there, however requests interleave; a mark *)
(* that changes is announced, or changed by a restore; and                  *)
(* import_user_state, met by nobody, leaves what the backup says.           *)
THEOREM UserStateIsKept == BackupSpec => UserStateKept
<1>. DEFINE AddedAct ==
              \A c \in Clients, i \in Ids :
                /\ Pending(c, "add") /\ call[c].id = i /\ call'[c] = Idle
                /\ collections'[i] # collections[i]
                => LET old == call[c].before IN
                   \A shown \in Details(i)' : \A m, n \in DOMAIN shown :
                     /\ shown[n] = call[c].entry
                     /\ shown[m] \in DOMAIN old \cap Members(i)
                     /\ collections[i].members[shown[m]] = old[shown[m]]
                     => m < n
            MarksAct ==
              \A e \in Entries : marks'[e] # marks[e] =>
                e \in published' \/ \E c \in Clients : Pending(c, "commit")
            RestoreAct ==
              \A c \in alone \cap alone' : Pending(c, "commit") =>
                LET f == call[c].file IN
                (\A n \in DOMAIN f.collections : ~Doubled(f.collections[n])) =>
                /\ \A e \in Entries :
                     marks'[e] = IF e \in DOMAIN f.marks THEN f.marks[e] ELSE marks[e]
                /\ \A n \in DOMAIN f.collections :
                     \E i \in Ids :
                       /\ collections'[i] # NoCollection /\ collections'[i].name = n
                       /\ DOMAIN collections'[i].members = ToSet(f.collections[n]) \cap Entries
                /\ \A i \in Ids : collections'[i] # collections[i] =>
                     collections'[i].name \in DOMAIN f.collections
<1>1. ASSUME IInv, BackupNext PROVE AddedAct /\ MarksAct /\ RestoreAct
  <2>1. PICK c \in Clients : (BackupBegin(c) \/ BackupEnd(c)) /\ Overlap(c)
    BY <1>1 DEF BackupNext
  <2>2. \A d \in Clients : d # c => call'[d] = call[d]
    BY <1>1, <2>1, OwnStep
  <2>3. AddedAct
    <3>. SUFFICES ASSUME NEW d \in Clients, NEW i \in Ids, Pending(d, "add"), call[d].id = i,
                         call'[d] = Idle, collections'[i] # collections[i],
                         NEW shown \in Details(i)', NEW m \in DOMAIN shown, NEW n \in DOMAIN shown,
                         shown[n] = call[d].entry,
                         shown[m] \in DOMAIN call[d].before \cap Members(i),
                         collections[i].members[shown[m]] = call[d].before[shown[m]]
                  PROVE  m < n
      OBVIOUS
    <3>1. d = c
      BY <2>2 DEF Pending, Idle
    <3>2. ~BackupBegin(c)
      BY <1>1, <3>1, Begun DEF IInv, Begin, Pending, Idle
    <3>3. EndAdd(c)
      BY <2>1, <3>1, <3>2 DEF BackupEnd, EndCollection, EndCreate, EndRemove, EndDelete, EndMark,
         EndExport, ImportWrites, ImportLoses, ImportCommits, Pending
    <3>. QED
      BY <1>1, <3>1, <3>3, AddedStep
  <2>4. MarksAct
    BY <1>1, <2>1, MarksStep
  <2>5. RestoreAct
    <3>. SUFFICES ASSUME NEW d \in alone \cap alone', Pending(d, "commit"),
                         \A n \in DOMAIN call[d].file.collections :
                           ~Doubled(call[d].file.collections[n])
                  PROVE  LET f == call[d].file IN
                         /\ \A e \in Entries :
                              marks'[e] = IF e \in DOMAIN f.marks THEN f.marks[e] ELSE marks[e]
                         /\ \A n \in DOMAIN f.collections :
                              \E i \in Ids :
                                /\ collections'[i] # NoCollection /\ collections'[i].name = n
                                /\ DOMAIN collections'[i].members
                                     = ToSet(f.collections[n]) \cap Entries
                         /\ \A i \in Ids : collections'[i] # collections[i] =>
                              collections'[i].name \in DOMAIN f.collections
      OBVIOUS
    <3>1. d \in Clients /\ call[d] # Idle
      BY <1>1 DEF IInv, Pending, Idle
    <3>2. d = c
      BY <2>1, <3>1 DEF Overlap
    <3>3. ~BackupBegin(c)
      BY <1>1, <3>2, <3>1, Begun DEF IInv, Begin
    <3>4. ImportCommits(c)
      BY <2>1, <3>2, <3>3 DEF BackupEnd, EndCollection, EndCreate, EndAdd, EndRemove, EndDelete,
         EndMark, EndExport, ImportWrites, ImportLoses, Pending
    <3>. QED
      BY <1>1, <3>2, <3>4, RestoredStep
  <2>. QED
    BY <2>3, <2>4, <2>5
<1>2. ASSUME IInv, [BackupNext]_backupVars
      PROVE  [AddedAct]_backupVars /\ [MarksAct]_backupVars /\ [RestoreAct]_backupVars
  BY <1>1, <1>2
<1>3. BackupSpec => [][AddedAct]_backupVars /\ [][MarksAct]_backupVars /\ [][RestoreAct]_backupVars
  <2>. HIDE DEF AddedAct, MarksAct, RestoreAct
  <2>. QED
    BY <1>2, Invariant, PTL DEF BackupSpec
<1>. QED
  BY <1>3 DEF UserStateKept, AddedLast, MarksAnnounced, RestoreExact
================================================================================
