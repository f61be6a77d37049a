------------------------------- MODULE EntrySync -------------------------------
(***************************************************************************)
(* What ensure_synced (s2_sync.py) promises its callers, without the steps *)
(* and the locks it takes to keep the promise: calls for one entry exclude *)
(* each other, an entry is resolved once, and a hydration appears in the   *)
(* database at once, the paper with its links.  A call may end at any      *)
(* point, with whatever it has done so far: that much is all it promises   *)
(* a caller that gets no answer.                                           *)
(***************************************************************************)
CONSTANTS Workers, Entries, Papers, None, Matches, Links

VARIABLES
  syncing,   \* the entry each worker's call holds, or None
  resolved,  \* the paper of each entry, or None
  hydrated,  \* papers whose data has been fetched and stored
  linked     \* stored citations

vars == <<syncing, resolved, hydrated, linked>>

Init ==
  /\ syncing = [w \in Workers |-> None]
  /\ resolved = [e \in Entries |-> None]
  /\ hydrated = {}
  /\ linked = {}

Begin(w, e) ==
  /\ syncing[w] = None
  /\ \A v \in Workers : syncing[v] # e
  /\ syncing' = [syncing EXCEPT ![w] = e]
  /\ UNCHANGED <<resolved, hydrated, linked>>

Resolve(w) ==
  /\ syncing[w] # None
  /\ resolved[syncing[w]] = None
  /\ \E p \in Matches[syncing[w]] :
       resolved' = [resolved EXCEPT ![syncing[w]] = p]
  /\ UNCHANGED <<syncing, hydrated, linked>>

(* The paper of the entry, and only its own links, which may be incomplete. *)
Hydrate(w) ==
  /\ syncing[w] # None
  /\ LET p == resolved[syncing[w]] IN
     /\ p # None
     /\ hydrated' = hydrated \cup {p}
     /\ \E new \in SUBSET {l \in Links : p \in {l[1], l[2]}} :
          linked' = linked \cup new
  /\ UNCHANGED <<syncing, resolved>>

End(w) ==
  /\ syncing[w] # None
  /\ syncing' = [syncing EXCEPT ![w] = None]
  /\ UNCHANGED <<resolved, hydrated, linked>>

(* A restart ends every call.                                               *)
Crash ==
  /\ syncing' = [w \in Workers |-> None]
  /\ UNCHANGED <<resolved, hydrated, linked>>

Next ==
  \/ \E w \in Workers :
       (\E e \in Entries : Begin(w, e)) \/ Resolve(w) \/ Hydrate(w) \/ End(w)
  \/ Crash

Spec == Init /\ [][Next]_vars

==============================================================================
