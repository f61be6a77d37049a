-------------------------------- MODULE Checkout --------------------------------
(***************************************************************************)
(* The local checkout of the bibliography repository                       *)
(* (services/bibliography_repository.py).                                  *)
(*                                                                         *)
(* A call hands the work to a thread that runs git commands one after the  *)
(* other.  The calls of the server take turns with a lock; a command line  *)
(* is a process of its own, which the lock does not know.  A command that  *)
(* outlives its timeout is killed and leaves behind what it had done so    *)
(* far, so a clone and a checkout have a beginning and an end here.        *)
(* Versions of the repository are numbers; the tree of a checkout is a     *)
(* version, 0 when there is none, or Torn.                                 *)
(***************************************************************************)
EXTENDS Naturals, FiniteSets

CONSTANTS
  Server,       \* what may ask for the checkout in the server
  Cli,          \* command lines that may ask for it
  Newest,       \* bound: versions that the repository gets
  MaxKills,     \* bound: commands that fail or are killed
  Ref,          \* is a ref configured?
  Starts,       \* what may be found at the path at first
  Torn

Call == Server \cup Cli
Kinds == {"absent", "empty", "file", "foreign", "elsewhere", "repo"}
Others == {"file", "foreign", "elsewhere"}

ASSUME CheckoutAssumption ==
  /\ "nobody" \notin Server /\ Server \cap Cli = {}
  /\ Newest \in Nat \ {0} /\ MaxKills \in Nat /\ Torn \notin Nat
  /\ Ref \in BOOLEAN /\ Starts \subseteq Kinds

VARIABLES
  upstream, \* the version the repository has
  refresh,  \* the setting bibliography_runtime_sync_enabled
  dir,      \* what is at the path: with its tree, the version its remote branch
            \* stands at, and the version git holds index.lock for, 0 for none
  lock,     \* the call that holds the lock of the server, "nobody"
  call,     \* how far each call is
  thread,   \* how far the thread of each call is
  since,    \* history: the version the repository had when the thread began
  met,      \* history: has another process been at work next to the thread?
  kills

checkoutVars == <<upstream, refresh, dir, lock, call, thread, since, met, kills>>
askedVars == <<lock, call, thread, since, met>>

Dir == [kind : Kinds, tree : 0..Newest \cup {Torn}, tracked : 0..Newest, index : 0..Newest]

CheckoutTypeOK ==
  /\ upstream \in 1..Newest /\ refresh \in BOOLEAN
  /\ dir \in Dir
  /\ lock \in Server \cup {"nobody"}
  /\ call \in [Call -> {"out", "waiting", "working"}]
  /\ thread \in [Call -> {"out", "look", "clone", "cloning", "head", "fetch", "checkout",
                          "updating", "ok", "error"}]
  /\ since \in [Call -> 0..Newest] /\ met \in [Call -> BOOLEAN]
  /\ kills \in 0..MaxKills

\* A checkout that is found is one of the first version.
Place(kind) ==
  LET version == IF kind \in {"repo", "elsewhere"} THEN 1 ELSE 0
  IN [kind |-> kind, tree |-> version, tracked |-> version, index |-> 0]
HalfClone == [kind |-> "repo", tree |-> 0, tracked |-> 0, index |-> 0]

CheckoutInit ==
  /\ upstream \in 1..Newest /\ refresh \in BOOLEAN
  /\ dir \in {Place(k) : k \in Starts}
  /\ lock = "nobody"
  /\ call = [c \in Call |-> "out"]
  /\ thread = [c \in Call |-> "out"]
  /\ since = [c \in Call |-> 0] /\ met = [c \in Call |-> FALSE]
  /\ kills \in 0..MaxKills

Push ==
  /\ upstream < Newest /\ upstream' = upstream + 1
  /\ UNCHANGED <<refresh, dir, askedVars, kills>>

(***************************************************************************)
(* Calls.                                                                  *)
(***************************************************************************)
Ask(c) ==
  /\ call[c] = "out" /\ thread[c] = "out"
  /\ call' = [call EXCEPT ![c] = "waiting"]
  /\ UNCHANGED <<upstream, refresh, dir, lock, thread, since, met, kills>>

\* The calls of other processes.
Strangers(c) == IF c \in Cli THEN Call \ {c} ELSE Cli

\* The thread of a call begins, maybe next to threads of other processes.
Begin(c) ==
  /\ call' = [call EXCEPT ![c] = "working"]
  /\ thread' = [thread EXCEPT ![c] = "look"]
  /\ since' = [since EXCEPT ![c] = upstream]
  /\ met' = [d \in Call |->
              IF d = c THEN \E e \in Strangers(c) : thread[e] # "out"
              ELSE met[d] \/ (d \in Strangers(c) /\ thread[d] # "out")]
  /\ UNCHANGED <<upstream, refresh, dir, kills>>

\* Mutant: the lock is not waited for.
TakeLockAtOnce(c) ==
  /\ call[c] = "waiting"
  /\ lock' = IF c \in Server THEN c ELSE lock
  /\ Begin(c)

\* asyncio.Lock is the server's: each command line has one for itself.
TakeLock(c) ==
  /\ call[c] = "waiting"
  /\ c \in Server => lock = "nobody"
  /\ lock' = IF c \in Server THEN c ELSE lock
  /\ Begin(c)

\* Nothing is left of the threads of these calls.
Forget(C) ==
  /\ thread' = [c \in Call |-> IF c \in C THEN "out" ELSE thread[c]]
  /\ since' = [c \in Call |-> IF c \in C THEN 0 ELSE since[c]]
  /\ met' = [c \in Call |-> met[c] /\ c \notin C]

\* The thread's result reaches the call that still waits for it, and frees the lock.
Answer(c) ==
  /\ thread[c] \in {"ok", "error"}
  /\ Forget({c})
  /\ IF call[c] = "working"
     THEN call' = [call EXCEPT ![c] = "out"] /\ lock' = IF lock = c THEN "nobody" ELSE lock
     ELSE UNCHANGED <<call, lock>>
  /\ UNCHANGED <<upstream, refresh, dir, kills>>

\* A cancelled call gives the lock back; its thread goes on.
CancelCall(c) ==
  /\ call[c] \in {"waiting", "working"}
  /\ call' = [call EXCEPT ![c] = "out"]
  /\ lock' = IF lock = c THEN "nobody" ELSE lock
  /\ UNCHANGED <<upstream, refresh, dir, thread, since, met, kills>>

\* The processes of these calls are killed, their git commands with them.
KillCalls(C) ==
  /\ call' = [c \in Call |-> IF c \in C THEN "out" ELSE call[c]]
  /\ lock' = IF lock \in C THEN "nobody" ELSE lock
  /\ Forget(C)
  /\ UNCHANGED <<upstream, refresh, dir, kills>>

(***************************************************************************)
(* The thread.                                                             *)
(***************************************************************************)
To(c, next) ==
  /\ thread' = [thread EXCEPT ![c] = next]
  /\ UNCHANGED <<upstream, refresh, lock, call, since, met>>

\* Mutant: the remote of the checkout is not compared.
LookAnyRemote(c) ==
  /\ thread[c] = "look"
  /\ \/ dir.kind \in {"absent", "empty"} /\ To(c, "clone")
     \/ dir.kind \in {"file", "foreign"} /\ To(c, "error")
     \/ dir.kind \in {"repo", "elsewhere"} /\ ~refresh /\ To(c, "ok")
     \/ dir.kind \in {"repo", "elsewhere"} /\ refresh /\ To(c, IF Ref THEN "fetch" ELSE "head")
  /\ UNCHANGED <<dir, kills>>

\* Mutant: what is there is brought up to date whatever the setting says.
LookAndRefresh(c) ==
  /\ thread[c] = "look"
  /\ \/ dir.kind \in {"absent", "empty"} /\ To(c, "clone")
     \/ dir.kind \in Others /\ To(c, "error")
     \/ dir.kind = "repo" /\ To(c, IF Ref THEN "fetch" ELSE "head")
  /\ UNCHANGED <<dir, kills>>

(* _ensure_checkout_sync: only an absent path or an empty directory is       *)
(* cloned into; a checkout of this repository is brought up to date, or     *)
(* taken as it is when `refresh` is off; anything else is an error.         *)
Look(c) ==
  /\ thread[c] = "look"
  /\ \/ dir.kind \in {"absent", "empty"} /\ To(c, "clone")
     \/ dir.kind \in Others /\ To(c, "error")
     \/ dir.kind = "repo" /\ ~refresh /\ To(c, "ok")
     \/ dir.kind = "repo" /\ refresh /\ To(c, IF Ref THEN "fetch" ELSE "head")
  /\ UNCHANGED <<dir, kills>>

\* git writes its configuration first: what is there looks like a checkout by then.
Clone(c) ==
  /\ thread[c] = "clone"
  /\ IF dir.kind \in {"absent", "empty"} THEN dir' = HalfClone /\ To(c, "cloning")
     ELSE UNCHANGED dir /\ To(c, "error")
  /\ UNCHANGED kills

\* A clone that fails removes what it has written.
CloneFails(c) ==
  /\ thread[c] = "cloning" /\ dir.kind = "repo" /\ kills < MaxKills
  /\ kills' = kills + 1
  /\ dir' \in {Place("absent"), Place("empty")}
  /\ To(c, "error")

(* _resolve_default_branch: git sets the remote's head only to a branch it   *)
(* tracks.                                                                  *)
DefaultBranch(c) ==
  /\ thread[c] = "head"
  /\ To(c, IF dir.tracked = 0 THEN "error" ELSE "fetch")
  /\ UNCHANGED <<dir, kills>>

IsRepository == dir.kind \in {"repo", "elsewhere"}

\* Of a refresh or, after its configuration, of a clone.
Fetch(c) ==
  /\ thread[c] \in {"fetch", "cloning"}
  /\ IF IsRepository THEN dir' = [dir EXCEPT !.tracked = upstream] /\ To(c, "checkout")
     ELSE UNCHANGED dir /\ To(c, "error")
  /\ UNCHANGED kills

\* Mutant: the tree is not brought to what was fetched.
CheckOutNothing(c) ==
  /\ thread[c] = "checkout"
  /\ To(c, "ok")
  /\ UNCHANGED <<dir, kills>>

(* A checkout takes git's own lock file, which refuses it while another one  *)
(* has it or after a killed one has left it; then the files change.         *)
CheckOut(c) ==
  /\ thread[c] = "checkout"
  /\ IF IsRepository /\ dir.index = 0
     THEN /\ dir' = [dir EXCEPT !.index = dir.tracked,
                                !.tree = IF dir.tree = dir.tracked THEN @ ELSE Torn]
          /\ To(c, "updating")
     ELSE UNCHANGED dir /\ To(c, "error")
  /\ UNCHANGED kills

UpdateEnds(c) ==
  /\ thread[c] = "updating"
  /\ IF IsRepository THEN dir' = [dir EXCEPT !.index = 0, !.tree = dir.index] /\ To(c, "ok")
     ELSE UNCHANGED dir /\ To(c, "error")
  /\ UNCHANGED kills

\* A command fails, or is killed in the middle, and what it has done so far stays.
GitFails(c) ==
  /\ thread[c] \in {"look", "clone", "cloning", "head", "fetch", "checkout", "updating"}
  /\ kills < MaxKills
  /\ kills' = kills + 1
  /\ To(c, "error") /\ UNCHANGED dir

Git(c) ==
  Look(c) \/ Clone(c) \/ CloneFails(c) \/ DefaultBranch(c) \/ Fetch(c) \/ CheckOut(c)
    \/ UpdateEnds(c) \/ GitFails(c)

(***************************************************************************)
(* Properties.                                                             *)
(***************************************************************************)

(* "Ensure the configured repository exists locally and is current."         *)
(* (bibliography_repository.py:50): a thread that answers ok leaves the     *)
(* whole tree of a version that is no older than its call, never a torn     *)
(* one, an old one or a half-made clone, whatever calls and kills came      *)
(* before and whoever else queues for it.  But for two cases: with          *)
(* `refresh` off only that there is a repository, and nothing when another  *)
(* process was at work at the same time.                                    *)
CheckoutCurrent ==
  \A c \in Call : thread[c] = "ok" /\ ~met[c] =>
    /\ dir.kind = "repo"
    /\ refresh => dir.tree # Torn /\ dir.tree >= since[c]

\* Is something at the path that is not to be changed?  With `refresh` off that is
\* also a checkout, unless it is being cloned.
Untouchable ==
  \/ dir.kind \in Others
  \/ /\ ~refresh /\ dir.kind = "repo"
     /\ \A c \in Call : thread[c] \notin {"cloning", "checkout", "updating"}

(* What was put at the path by somebody else is left as it is, however often *)
(* a checkout is asked for, and a checkout too when it is not to be         *)
(* refreshed (bibliography_repository.py:109).                              *)
OthersUntouched == [][Untouchable => dir' = dir]_checkoutVars
================================================================================
