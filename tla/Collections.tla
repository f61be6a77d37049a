------------------------------- MODULE Collections -------------------------------
(***************************************************************************)
(* The collections a user keeps (services/collection_mutations.py,         *)
(* services/collection_queries.py) and the requests that change them.      *)
(*                                                                         *)
(* A request first reads and then writes and commits, and other requests   *)
(* run between the two.  What it writes may fail on a constraint of the    *)
(* database or wait for a lock that a longer transaction holds:             *)
(* the restore of a backup is one, of which held and naming tell here.     *)
(***************************************************************************)
EXTENDS Naturals, FiniteSets, Sequences, SequencesExt, FiniteSetsExt

CONSTANTS
  Clients, Ids, Names,
  Entries,      \* the entries of the library
  Unknown,      \* an identifier that no entry has
  NoCollection,
  MaxCalls      \* bounds the requests

Collection == [name : Names, members : UNION {[E -> Nat] : E \in SUBSET Entries}]

ASSUME CollectionsAssumption ==
  MaxCalls \in Nat /\ Unknown \notin Entries /\ NoCollection \notin Collection

VARIABLES
  collections,  \* the committed collections: a name and members with positions
  call,         \* the request a client waits for, with what it has read
  held,         \* the members a restore has deleted and not committed
  naming,       \* the names a restore has inserted and not committed
  calls         \* how many requests there were

collectionVars == <<collections, call, held, naming, calls>>

Existing == {i \in Ids : collections[i] # NoCollection}
Named(n) == {i \in Existing : collections[i].name = n}
Members(i) == DOMAIN collections[i].members
Positions(i) == {collections[i].members[e] : e \in Members(i)}
NoMembers == [e \in {} |-> 0]
Idle == [op |-> "none"]

CollectionsInit ==
  /\ collections \in [Ids -> {NoCollection}]
  /\ call = [c \in Clients |-> Idle]
  /\ held = {} /\ naming = {} /\ calls = 0

\* A request arrives and reads; Idle is what an early return leaves.
Begin(c, request) ==
  /\ call[c] = Idle /\ calls < MaxCalls
  /\ calls' = calls + 1
  /\ call' = [call EXCEPT ![c] = request]
  /\ UNCHANGED <<collections, held, naming>>

\* A request is answered, with the collections it leaves.
Answer(c, new) ==
  /\ call' = [call EXCEPT ![c] = Idle]
  /\ collections' = new
  /\ UNCHANGED <<held, naming, calls>>

Pending(c, op) == call[c].op = op

(***************************************************************************)
(* create_collection: the name is looked up, then inserted; it is unique.  *)
(***************************************************************************)
BeginCreate(c, n) ==
  Begin(c, IF Named(n) # {} THEN Idle ELSE [op |-> "create", name |-> n])

\* Mutant: the name is not unique in the table.
EndCreateAnyName(c) ==
  /\ Pending(c, "create") /\ call[c].name \notin naming
  /\ \E i \in Ids \ Existing :
       Answer(c, [collections EXCEPT ![i] = [name |-> call[c].name, members |-> NoMembers]])

EndCreate(c) ==
  /\ Pending(c, "create")
  /\ LET n == call[c].name IN
     /\ n \notin naming
     /\ IF Named(n) # {} THEN Answer(c, collections)
        ELSE \E i \in Ids \ Existing :
               Answer(c, [collections EXCEPT ![i] = [name |-> n, members |-> NoMembers]])

(***************************************************************************)
(* add_entry_to_collection: behind the last position.                      *)
(***************************************************************************)

\* Mutant: the number of members instead of the last position.
NextPositionByCount(i) == Cardinality(Members(i)) + 1

NextPosition(i) == IF Members(i) = {} THEN 1 ELSE Max(Positions(i)) + 1

BeginAdd(c, i, e) ==
  Begin(c, IF i \notin Existing \/ e \notin Entries THEN Idle
           ELSE IF e \in Members(i) THEN Idle
           ELSE [op |-> "add", id |-> i, entry |-> e, position |-> NextPosition(i),
                 before |-> collections[i].members])

EndAdd(c) ==
  /\ Pending(c, "add")
  /\ LET i == call[c].id
         e == call[c].entry
     IN /\ <<i, e>> \notin held
        /\ IF i \notin Existing THEN Answer(c, collections)
           ELSE IF e \in Members(i) THEN Answer(c, collections)
           ELSE Answer(c, [collections EXCEPT ![i].members =
                  [m \in DOMAIN @ \cup {e} |-> IF m = e THEN call[c].position ELSE @[m]]])

(***************************************************************************)
(* remove_entry_from_collection and delete_collection: what is gone by     *)
(* then is not missed.                                                     *)
(***************************************************************************)
BeginRemove(c, i, e) ==
  Begin(c, IF i \notin Existing THEN Idle
           ELSE IF e \notin Members(i) THEN Idle
           ELSE [op |-> "remove", id |-> i, entry |-> e])

EndRemove(c) ==
  /\ Pending(c, "remove")
  /\ LET i == call[c].id IN
     /\ <<i, call[c].entry>> \notin held
     /\ Answer(c, IF i \notin Existing THEN collections
                  ELSE [collections EXCEPT ![i].members =
                          [m \in DOMAIN @ \ {call[c].entry} |-> @[m]]])

BeginDelete(c, i) ==
  Begin(c, IF i \notin Existing THEN Idle ELSE [op |-> "delete", id |-> i])

EndDelete(c) ==
  /\ Pending(c, "delete")
  /\ \A m \in held : m[1] # call[c].id
  /\ Answer(c, [collections EXCEPT ![call[c].id] = NoCollection])

(***************************************************************************)
(* get_collection_detail: the members by position, those of the same        *)
(* position in any order.                                                  *)
(***************************************************************************)
Details(i) ==
  {shown \in SetToSeqs(Members(i)) : \A m, n \in DOMAIN shown :
     m < n => collections[i].members[shown[m]] <= collections[i].members[shown[n]]}

BeginCollection(c) ==
  \/ \E n \in Names : BeginCreate(c, n)
  \/ \E i \in Ids, e \in Entries \cup {Unknown} : BeginAdd(c, i, e) \/ BeginRemove(c, i, e)
  \/ \E i \in Ids : BeginDelete(c, i)

EndCollection(c) == EndCreate(c) \/ EndAdd(c) \/ EndRemove(c) \/ EndDelete(c)
================================================================================
