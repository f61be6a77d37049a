------------------------------- MODULE MCRuntime -------------------------------
(* One paper that the newer release has facts about.  To keep the product    *)
(* small a behaviour is about one of three things: the ingests of releases, *)
(* by the job and a request, while the checkout fails; who asks for the     *)
(* checkout, while there is no release; or the two jobs, one waiting for    *)
(* the other's entries, without requests.                                   *)
EXTENDS Runtime
FactsOf(r) == IF r = 1 THEN {} ELSE {"p1"}
OneEntry(r) == r - 1
PapersIn(tree) == IF tree = 0 THEN {} ELSE {"p1"}

NoPosts == posts = MaxPosts
NoKill == restarts = MaxRestarts
NoFailure == kills = MaxKills

\* The ingests of releases, by the job and a request, while the checkout fails.
Releases ==
  /\ posts = 0 /\ asks = MaxAsks /\ kills = 0 /\ restarts = 0
  /\ dir.kind = "elsewhere" /\ refresh

\* The two jobs, one waiting for the entries of the other.
BothJobs ==
  /\ NoPosts /\ asks = MaxAsks /\ kills = 0 /\ restarts = 0
  /\ dir.kind # "elsewhere" /\ disk = Release /\ entries = {}

\* Those who ask for the checkout; a process or a git command is killed.
Checkouts ==
  /\ NoPosts /\ dir.kind # "elsewhere" /\ disk = {} /\ entries = Paper
  /\ \/ refresh /\ upstream = 1 /\ dir.kind = "repo" /\ asks = 0 /\ NoKill /\ kills = 0
     \/ refresh /\ upstream = 1 /\ dir.kind = "absent" /\ asks = 1 /\ NoFailure /\ restarts = 0
     \/ ~refresh /\ upstream = Newest /\ asks = 0 /\ (NoKill \/ NoFailure)

MCInit ==
  /\ RuntimeInit
  /\ \/ Releases /\ upstream = Newest
     \/ BothJobs /\ upstream = Newest
     \/ Checkouts
  /\ disk \in {{}, Release}
MCSpec == MCInit /\ [][RuntimeNext]_runtimeVars /\ RuntimeFairness
================================================================================
