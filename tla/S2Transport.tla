----------------------------- MODULE S2Transport -----------------------------
(***************************************************************************)
(* The rate-limited HTTP transport for the Semantic Scholar API            *)
(* (backend/app/services/s2_transport.py): one token bucket shared by all  *)
(* the tasks that call get() or post(), and the retry loop around it.      *)
(*                                                                         *)
(* Tokens are counted in units: Unit units are one token, Capacity units   *)
(* are the bucket's `rate_limit`.  Time is counted in ticks of the length  *)
(* that refills one unit, so Capacity ticks are one second and a rate of   *)
(* Capacity/Unit requests per second is a bucket of Capacity units.  The   *)
(* default rate of 0.9 is Unit = 10, Capacity = 9; with an API key (10.0)  *)
(* it is Unit = 1, Capacity = 10.                                          *)
(*                                                                         *)
(* Left out: the request's path, parameters and body, the parsed response, *)
(* and the creation of the httpx client.                                   *)
(***************************************************************************)
EXTENDS Integers, Sequences, SequencesExt

CONSTANTS
  Callers,       \* tasks that each make one request through the transport
  Unit,          \* units in one token
  Capacity,      \* units the bucket holds (the rate limit)
  MaxRetries,    \* attempts per request (max_retries)
  Backoff,       \* Backoff[a]: ticks slept after a failed attempt a (2.0 * 2**a s)
  HttpTimeout,   \* ticks after which httpx gives up on a response
  MaxLate,       \* BOUND: ticks by which the event loop may serve a timer late
  StartBy,       \* BOUND: requests are made up to this time
  MaxTime        \* BOUND: the clock stops here

ASSUME TransportAssumption ==
  /\ Unit \in Nat \ {0}
  /\ Capacity \in Nat \ {0}
  /\ MaxRetries \in Nat \ {0}
  /\ Backoff \in [0..(MaxRetries - 1) -> Nat]
  /\ HttpTimeout \in Nat
  /\ MaxLate \in Nat
  /\ StartBy \in Nat
  /\ MaxTime \in Nat

VARIABLES
  now,         \* time.monotonic(), in ticks
  tokens,      \* _tokens
  lastRefill,  \* _last_refill
  queue,       \* callers waiting for or holding _lock: the head holds it
  pc,          \* where each caller is in get()/post()
  attempt,     \* the loop variable of each caller
  deadline,    \* when the timer a caller sleeps on is due
  grants,      \* history: the times at which tokens were handed out
  sent         \* history: HTTP requests each caller has sent

vars == <<now, tokens, lastRefill, queue, pc, attempt, deadline, grants, sent>>
bucket == <<tokens, lastRefill, grants>>

\* idle      the request has not been made
\* queued    in `async with self._lock`
\* sleeping  holds the lock, in asyncio.sleep(wait)
\* inflight  waiting for the HTTP response
\* backoff   in asyncio.sleep(2.0 * 2**attempt)
\* answered, gaveup, cancelled   the request is over
Timed    == {"sleeping", "inflight", "backoff"}
Finished == {"answered", "gaveup", "cancelled"}
PcValues == {"idle", "queued"} \cup Timed \cup Finished

MinOf(a, b) == IF a <= b THEN a ELSE b

\* Mutant: the refill forgets the bucket's capacity.
RefilledUncapped == tokens + (now - lastRefill)

\* _acquire_token's refill, evaluated when the lock is obtained.
Refilled == MinOf(Capacity, tokens + (now - lastRefill))

Init ==
  /\ now = 0
  /\ tokens = Capacity
  /\ lastRefill = 0
  /\ queue = << >>
  /\ pc = [c \in Callers |-> "idle"]
  /\ attempt = [c \in Callers |-> 0]
  /\ deadline = [c \in Callers |-> 0]
  /\ grants = << >>
  /\ sent = [c \in Callers |-> 0]

------------------------------------------------------------------------------
(* The caller reaches _acquire_token and lines up for the lock, which       *)
(* asyncio hands over in first-come order.                                  *)
Enqueue(c) ==
  /\ pc[c] = "idle"
  /\ now <= StartBy
  /\ pc' = [pc EXCEPT ![c] = "queued"]
  /\ queue' = Append(queue, c)
  /\ UNCHANGED <<now, attempt, deadline, sent, bucket>>

HoldsLock(c) == queue # << >> /\ Head(queue) = c

Send(c) ==
  /\ pc' = [pc EXCEPT ![c] = "inflight"]
  /\ deadline' = [deadline EXCEPT ![c] = now + HttpTimeout]
  /\ sent' = [sent EXCEPT ![c] = @ + 1]
  /\ queue' = Tail(queue)

\* Mutant: the lock is obtained and a token taken without looking at the bucket.
TakeTokenUnchecked(c) ==
  /\ pc[c] = "queued"
  /\ HoldsLock(c)
  /\ tokens' = Refilled - Unit
  /\ lastRefill' = now
  /\ grants' = Append(grants, now)
  /\ Send(c)
  /\ UNCHANGED <<now, attempt>>

(* The lock is obtained and a whole token is there: take it, release the    *)
(* lock and send the request.                                               *)
TakeToken(c) ==
  /\ pc[c] = "queued"
  /\ HoldsLock(c)
  /\ Refilled >= Unit
  /\ tokens' = Refilled - Unit
  /\ lastRefill' = now
  /\ grants' = Append(grants, now)
  /\ Send(c)
  /\ UNCHANGED <<now, attempt>>

(* The lock is obtained but less than a token is there: sleep, holding the  *)
(* lock, for as long as the missing units take to accrue.                   *)
SleepForToken(c) ==
  /\ pc[c] = "queued"
  /\ HoldsLock(c)
  /\ Refilled < Unit
  /\ tokens' = Refilled
  /\ lastRefill' = now
  /\ pc' = [pc EXCEPT ![c] = "sleeping"]
  /\ deadline' = [deadline EXCEPT ![c] = now + (Unit - Refilled)]
  /\ UNCHANGED <<now, queue, attempt, grants, sent>>

(* The sleep is over: the bucket is emptied, `_last_refill` stays where it  *)
(* was when the sleep began.                                                *)
WakeWithToken(c) ==
  /\ pc[c] = "sleeping"
  /\ now >= deadline[c]
  /\ tokens' = 0
  /\ grants' = Append(grants, now)
  /\ Send(c)
  /\ UNCHANGED <<now, lastRefill, attempt>>

(* HTTP 200 ends the request with its body; 404, another status or another  *)
(* exception ends it with None.                                             *)
Respond(c) ==
  /\ pc[c] = "inflight"
  /\ \E end \in {"answered", "gaveup"} : pc' = [pc EXCEPT ![c] = end]
  /\ UNCHANGED <<now, queue, attempt, deadline, sent, bucket>>

(* HTTP 429, or httpx.TimeoutException once the timeout has passed: sleep   *)
(* out the exponential backoff, without the lock, even after the last       *)
(* attempt.                                                                 *)
RetryLater(c) ==
  /\ pc[c] = "inflight"
  /\ pc' = [pc EXCEPT ![c] = "backoff"]
  /\ deadline' = [deadline EXCEPT ![c] = now + Backoff[attempt[c]]]
  /\ UNCHANGED <<now, queue, attempt, sent, bucket>>

\* Mutant: the loop runs one attempt too many.
BackoffOverOffByOne(c) ==
  /\ pc[c] = "backoff"
  /\ now >= deadline[c]
  /\ IF attempt[c] < MaxRetries
     THEN /\ attempt' = [attempt EXCEPT ![c] = @ + 1]
          /\ pc' = [pc EXCEPT ![c] = "queued"]
          /\ queue' = Append(queue, c)
     ELSE /\ pc' = [pc EXCEPT ![c] = "gaveup"]
          /\ UNCHANGED <<attempt, queue>>
  /\ UNCHANGED <<now, deadline, sent, bucket>>

(* The backoff is over: try again, or return None when attempts are used up.*)
BackoffOver(c) ==
  /\ pc[c] = "backoff"
  /\ now >= deadline[c]
  /\ IF attempt[c] + 1 < MaxRetries
     THEN /\ attempt' = [attempt EXCEPT ![c] = @ + 1]
          /\ pc' = [pc EXCEPT ![c] = "queued"]
          /\ queue' = Append(queue, c)
     ELSE /\ pc' = [pc EXCEPT ![c] = "gaveup"]
          /\ UNCHANGED <<attempt, queue>>
  /\ UNCHANGED <<now, deadline, sent, bucket>>

\* Mutant: a cancelled task keeps its place in the lock's queue.
CancelKeepsLock(c) ==
  /\ pc[c] \in {"queued"} \cup Timed
  /\ pc' = [pc EXCEPT ![c] = "cancelled"]
  /\ UNCHANGED <<now, queue, attempt, deadline, sent, bucket>>

(* The task is cancelled at an await (shutdown stops the backfill loop):    *)
(* `async with` releases the lock, a waiter leaves its queue.               *)
Cancel(c) ==
  /\ pc[c] \in {"queued"} \cup Timed
  /\ pc' = [pc EXCEPT ![c] = "cancelled"]
  /\ IF pc[c] \in {"queued", "sleeping"}
     THEN \E i \in 1..Len(queue) : queue[i] = c /\ queue' = RemoveAt(queue, i)
     ELSE UNCHANGED queue
  /\ UNCHANGED <<now, attempt, deadline, sent, bucket>>

(* Time passes.  A due timer is served at most MaxLate ticks late; a        *)
(* response is in, or timed out, by its deadline.  With MaxLate = 0 the     *)
(* event loop also runs the task that just got the lock before time passes. *)
Tick ==
  /\ now < MaxTime
  /\ \A c \in Callers : pc[c] \in Timed => now < deadline[c] + MaxLate
  /\ MaxLate = 0 => \A c \in Callers : ~(pc[c] = "queued" /\ HoldsLock(c))
  /\ now' = now + 1
  /\ UNCHANGED <<queue, pc, attempt, deadline, sent, bucket>>

CallerStep(c) ==
  \/ Enqueue(c)
  \/ TakeToken(c)
  \/ SleepForToken(c)
  \/ WakeWithToken(c)
  \/ Respond(c)
  \/ RetryLater(c)
  \/ BackoffOver(c)

Next ==
  \/ \E c \in Callers : CallerStep(c) \/ Cancel(c)
  \/ Tick

Spec == Init /\ [][Next]_vars

(* The event loop runs what is ready, a response or a timeout comes, and    *)
(* time passes; no task needs to be cancelled.                              *)
Fairness ==
  /\ \A c \in Callers : WF_vars(CallerStep(c))
  /\ WF_vars(Tick)

FairSpec == Spec /\ Fairness

------------------------------------------------------------------------------
TypeOK ==
  /\ now \in Nat
  /\ tokens \in 0..Capacity
  /\ lastRefill \in 0..now
  /\ queue \in Seq(Callers)
  /\ pc \in [Callers -> PcValues]
  /\ attempt \in [Callers -> 0..(MaxRetries - 1)]
  /\ deadline \in [Callers -> Nat]
  /\ grants \in Seq(0..now)
  /\ sent \in [Callers -> 0..MaxRetries]

(* However the callers interleave, retry, are cancelled or are woken late,  *)
(* the bucket hands out, after any of its grants and within T ticks of it,  *)
(* at most (Capacity + 2T) / Unit tokens: a burst of the capacity plus      *)
(* TWICE the configured rate.  Twice, because the time slept for a missing  *)
(* token is credited again by the next refill (`_last_refill` is set before *)
(* the sleep and not after it).                                             *)
WindowBound ==
  \A i, j \in 1..Len(grants) :
    i <= j => Unit * (j - i) <= Capacity + 2 * (grants[j] - grants[i])

(* Each HTTP attempt of a request has its own pass through the bucket, and  *)
(* a request is given up after max_retries attempts, not one later.         *)
AttemptsPaidFor ==
  \A c \in Callers :
    sent[c] <= Len(grants) /\ sent[c] <= attempt[c] + 1 /\ sent[c] <= MaxRetries

(* A request, once made, ends: the lock a sleeper holds, a cancellation of  *)
(* another caller or a backoff never strands it.                            *)
RequestsEnd == \A c \in Callers : pc[c] # "idle" ~> pc[c] \in Finished

==============================================================================
