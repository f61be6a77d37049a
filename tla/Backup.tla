--------------------------------- MODULE Backup ---------------------------------
(***************************************************************************)
(* The user's own state, its export and its import                         *)
(* (services/entry_mutations.py, services/admin_backup.py), beside the     *)
(* requests that change collections.                                       *)
(*                                                                         *)
(* A mark is the notes and the read flag of an entry.  An export reads the *)
(* marks and then the collections; an import writes and locks, and commits *)
(* in a later step or gives everything up.                                 *)
(***************************************************************************)
EXTENDS Collections

CONSTANTS
  Marks, NoMark,   \* NoMark: no notes and not read
  NoFile,          \* no backup was made
  Foreign          \* backups of other libraries

\* A backup: marks of entries, and collections with the entries they list.
IsBackup(f) ==
  /\ \A e \in DOMAIN f.marks : f.marks[e] \in Marks \cup {NoMark}
  /\ DOMAIN f.collections \subseteq Names
  /\ \A n \in DOMAIN f.collections : f.collections[n] \in Seq(Entries \cup {Unknown})

ASSUME BackupAssumption == NoFile \notin Foreign /\ \A f \in Foreign : IsBackup(f)

VARIABLES
  marks,      \* of every entry, committed
  published,  \* the entries named by an event since their mark last changed
  marking,    \* the marks an import has written and not committed
  file,       \* the backup
  alone       \* the clients whose request met no other

backupVars == <<collectionVars, marks, published, marking, file, alone>>

Nothing == [e \in {} |-> NoMark]
Everyone == <<marks, published, marking, file>>

BackupInit ==
  /\ CollectionsInit
  /\ marks = [e \in Entries |-> NoMark] /\ published = Entries
  /\ marking = Nothing /\ file \in {NoFile} \cup Foreign /\ alone = Clients

\* Who overlaps with whom is only recorded.
Overlap(c) ==
  alone' = IF \E d \in Clients \ {c} : call[d] # Idle
           THEN {} ELSE IF call[c] = Idle THEN {c} ELSE alone

(***************************************************************************)
(* update_entry_read and update_entry_notes.                               *)
(***************************************************************************)
BeginMark(c, e, m) ==
  /\ Begin(c, [op |-> "mark", entry |-> e, seen |-> marks[e], mark |-> m])
  /\ UNCHANGED Everyone

\* Mutant: no event is published.
EndMarkSilently(c) ==
  /\ Pending(c, "mark")
  /\ LET e == call[c].entry IN
     /\ e \notin DOMAIN marking
     /\ marks' = [marks EXCEPT ![e] = call[c].mark]
     /\ published' = IF marks'[e] = marks[e] THEN published ELSE published \ {e}
  /\ Answer(c, collections)
  /\ UNCHANGED <<marking, file>>

\* A mark that the request does not see change is not written; the event is
\* published all the same.
EndMark(c) ==
  /\ Pending(c, "mark")
  /\ LET e == call[c].entry IN
     /\ e \notin DOMAIN marking
     /\ marks' = IF call[c].mark = call[c].seen THEN marks
                 ELSE [marks EXCEPT ![e] = call[c].mark]
     /\ published' = published \cup {e}
  /\ Answer(c, collections)
  /\ UNCHANGED <<marking, file>>

(***************************************************************************)
(* export_user_state.                                                      *)
(***************************************************************************)
BeginExport(c) ==
  /\ Begin(c, [op |-> "export",
               marks |-> [e \in {x \in Entries : marks[x] # NoMark} |-> marks[e]]])
  /\ UNCHANGED Everyone

\* The members of a collection come in no order: nothing asks for one.
EndExport(c) ==
  /\ Pending(c, "export")
  /\ \E lists \in [{collections[i].name : i \in Existing} ->
                      UNION {SetToSeqs(Members(i)) : i \in Existing}] :
       /\ \A i \in Existing : lists[collections[i].name] \in SetToSeqs(Members(i))
       /\ file' = [marks |-> call[c].marks, collections |-> lists]
  /\ Answer(c, collections)
  /\ UNCHANGED <<marks, published, marking>>

(***************************************************************************)
(* import_user_state.                                                      *)
(***************************************************************************)

\* The entries are read; what the file says differs from what is read is written.
BeginImport(c) ==
  /\ file # NoFile
  /\ Begin(c, [op |-> "import", file |-> file,
               write |-> {e \in Entries \cap DOMAIN file.marks : file.marks[e] # marks[e]}])
  /\ UNCHANGED Everyone

\* Mutant: the members that are there stay.
ReplacedNothing(f) == {}

\* The members that are deleted: those of the collections the file names.
Replaced(f) ==
  {m \in Ids \X Entries : /\ m[1] \in Existing /\ m[2] \in Members(m[1])
                          /\ collections[m[1]].name \in DOMAIN f.collections}

\* The statements before the commit: marks are written, collections inserted or
\* emptied, all under locks.  Of two imports the second waits for the first.
ImportWrites(c) ==
  /\ Pending(c, "import") /\ \A d \in Clients : ~Pending(d, "commit")
  /\ LET f == call[c].file
         new == {n \in DOMAIN f.collections : Named(n) = {}}
     IN /\ naming' = new
        /\ held' = Replaced(f)
        /\ marking' = [e \in call[c].write |-> f.marks[e]]
        /\ call' = [call EXCEPT ![c] = [op |-> "commit", file |-> f, new |-> new]]
  /\ UNCHANGED <<collections, calls, marks, published, file>>

\* A collection whose name another request takes after the lookup, or that it
\* deletes, and of two imports that write the same the later one: all is given up.
ImportLoses(c) ==
  /\ Pending(c, "import") /\ c \notin alone /\ DOMAIN call[c].file.collections # {}
  /\ Answer(c, collections)
  /\ UNCHANGED Everyone

\* Mutant: the transaction is left open.
ReleaseCommitted == UNCHANGED <<held, naming, marking>>

Release == held' = {} /\ naming' = {} /\ marking' = Nothing

\* The members as the file lists them, their places in it as positions; entries
\* the library lacks are left out.
Restored(keys) ==
  [e \in ToSet(keys) \cap Entries |-> CHOOSE p \in 0..Len(keys) - 1 : keys[p + 1] = e]

Doubled(keys) == \E e \in Entries : Cardinality({p \in DOMAIN keys : keys[p] = e}) > 1

\* The collections of the file that it found, and what is in them now.
Found(c) == {i \in Existing :
               collections[i].name \in DOMAIN call[c].file.collections \ call[c].new}
Left(i) == {e \in Members(i) : <<i, e>> \notin held}

\* A collection that was deleted, a member that was added, and one that is listed
\* twice fail it all.
Clash(c) ==
  LET f == call[c].file IN
  \/ {collections[i].name : i \in Found(c)} # DOMAIN f.collections \ call[c].new
  \/ \E n \in DOMAIN f.collections : Doubled(f.collections[n])
  \/ \E i \in Found(c) : Left(i) \cap ToSet(f.collections[collections[i].name]) # {}

Refilled(i, back) ==
  [collections[i] EXCEPT !.members =
     [e \in Left(i) \cup DOMAIN back |-> IF e \in DOMAIN back THEN back[e] ELSE @[e]]]

Inserted(c, place, i) ==
  LET n == CHOOSE m \in call[c].new : place[m] = i
  IN [name |-> n, members |-> Restored(call[c].file.collections[n])]

ImportCommits(c) ==
  /\ Pending(c, "commit")
  /\ IF Clash(c)
     THEN UNCHANGED <<collections, marks, published>>
     ELSE \E place \in [call[c].new -> Ids \ Existing] :
          /\ \A m, n \in call[c].new : m # n => place[m] # place[n]
          /\ marks' = [e \in Entries |-> IF e \in DOMAIN marking THEN marking[e] ELSE marks[e]]
          /\ published' = published \ DOMAIN marking
          /\ collections' = [i \in Ids |->
               IF i \in Found(c)
               THEN Refilled(i, Restored(call[c].file.collections[collections[i].name]))
               ELSE IF \E n \in call[c].new : place[n] = i THEN Inserted(c, place, i)
               ELSE collections[i]]
  /\ call' = [call EXCEPT ![c] = Idle]
  /\ Release
  /\ UNCHANGED <<calls, file>>

BackupBegin(c) ==
  \/ BeginCollection(c) /\ UNCHANGED Everyone
  \/ \E e \in Entries, m \in Marks \cup {NoMark} : BeginMark(c, e, m)
  \/ BeginExport(c) \/ BeginImport(c)

BackupEnd(c) ==
  \/ EndCollection(c) /\ UNCHANGED Everyone
  \/ EndMark(c) \/ EndExport(c) \/ ImportWrites(c) \/ ImportLoses(c) \/ ImportCommits(c)

BackupNext == \E c \in Clients : (BackupBegin(c) \/ BackupEnd(c)) /\ Overlap(c)

BackupSpec ==
  /\ BackupInit /\ [][BackupNext]_backupVars
  /\ \A c \in Clients : WF_backupVars(BackupEnd(c) /\ Overlap(c))

(***************************************************************************)
(* Properties.                                                             *)
(***************************************************************************)

\* The shapes of the tables; names and members are unique.
BackupTypeOK ==
  /\ \A i \in Existing : Members(i) \subseteq Entries /\ Positions(i) \subseteq Nat
  /\ \A n \in Names : Cardinality(Named(n)) <= 1
  /\ marks \in [Entries -> Marks \cup {NoMark}]
  /\ held \subseteq Ids \X Entries /\ naming \subseteq Names
  /\ (held # {} \/ naming # {} \/ DOMAIN marking # {}) => \E c \in Clients : Pending(c, "commit")

\* An entry that is added is shown behind every member that was there when the
\* request began and has kept its place.
AddedLast ==
  [][\A c \in Clients, i \in Ids :
       /\ Pending(c, "add") /\ call[c].id = i /\ call'[c] = Idle
       /\ collections'[i] # collections[i]
       => LET old == call[c].before IN
          \A shown \in Details(i)' : \A m, n \in DOMAIN shown :
            /\ shown[n] = call[c].entry
            /\ shown[m] \in DOMAIN old \cap Members(i)
            /\ collections[i].members[shown[m]] = old[shown[m]]
            => m < n
    ]_backupVars

\* An import that met no other request leaves the marks of the file, and the
\* collections of the file with the members of the file, and adds no other.
RestoreExact ==
  [][\A c \in alone \cap alone' : Pending(c, "commit") =>
       LET f == call[c].file IN
       (\A n \in DOMAIN f.collections : ~Doubled(f.collections[n])) =>
       /\ \A e \in Entries : marks'[e] = IF e \in DOMAIN f.marks THEN f.marks[e] ELSE marks[e]
       /\ \A n \in DOMAIN f.collections :
            \E i \in Ids : /\ collections'[i] # NoCollection /\ collections'[i].name = n
                           /\ DOMAIN collections'[i].members = ToSet(f.collections[n]) \cap Entries
       /\ \A i \in Ids : collections'[i] # collections[i] =>
            collections'[i].name \in DOMAIN f.collections
    ]_backupVars

\* A mark that a request changes is announced by an event; only an import, which
\* publishes none, leaves one that is not.
MarksAnnounced ==
  [][\A e \in Entries : marks'[e] # marks[e] =>
       e \in published' \/ \E c \in Clients : Pending(c, "commit")]_backupVars

\* Every request is answered.
CallsAnswered == \A c \in Clients : call[c] # Idle ~> call[c] = Idle

\* What users did is kept: additions where they were put, marks in the index, and
\* all of it by an export and an import.
UserStateKept == AddedLast /\ MarksAnnounced /\ RestoreExact
================================================================================
