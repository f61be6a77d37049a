-------------------------------- MODULE MCBackup --------------------------------
(***************************************************************************)
(* Two users, one name for collections, two entries, and at most MaxCalls  *)
(* requests: enough to make a collection of two, and to export and import. *)
(***************************************************************************)
EXTENDS Backup

ForeignFile(keys) ==
  [marks |-> [e \in {Unknown, "e1"} |-> "x"],
   collections |-> [n \in Names |-> keys]]

\* One with an entry that is not in the library, and one with a member twice.
MCForeign == {ForeignFile(<<"e2", Unknown, "e1">>), ForeignFile(<<"e1", "e1">>)}
================================================================================
