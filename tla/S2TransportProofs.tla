-------------------------- MODULE S2TransportProofs --------------------------
(***************************************************************************)
(* What the token bucket of S2Transport bounds, proved for every number of *)
(* callers, every rate, capacity, retry budget and backoff.                *)
(*                                                                         *)
(* The argument: a unit in the bucket was paid for by a tick of refill and *)
(* every missing unit by a tick of sleep.  A tick can be counted once as   *)
(* sleep and once as refill, never a third time, because the lock lets     *)
(* only one caller sleep at a time and the bucket is emptied when it wakes.*)
(***************************************************************************)
EXTENDS S2Transport, SequenceTheorems, TLAPS

(* Only the holder of the lock sleeps, until the missing units accrued.    *)
LockInv ==
  \A c \in Callers :
    pc[c] = "sleeping" =>
      /\ queue # << >> /\ Head(queue) = c
      /\ tokens < Unit
      /\ deadline[c] = lastRefill + (Unit - tokens)

Sleeping == \E c \in Callers : pc[c] = "sleeping"

(* The tokens handed out after grant i, and what the bucket can still hand *)
(* out, stay below the capacity plus two units for every tick since.       *)
CreditInv ==
  \A i \in 1..Len(grants) :
    IF Sleeping
    THEN Unit * (Len(grants) - i) + tokens
           <= Capacity + 2 * (lastRefill - grants[i])
    ELSE Unit * (Len(grants) - i) + Refilled
           <= Capacity + 2 * (now - grants[i])

AttemptInv ==
  \A c \in Callers :
    /\ sent[c] <= attempt[c] + 1
    /\ pc[c] \in {"idle", "queued", "sleeping"} => sent[c] <= attempt[c]
    /\ sent[c] <= Len(grants)

IInv == TypeOK /\ LockInv /\ CreditInv /\ WindowBound /\ AttemptInv

------------------------------------------------------------------------------
(* One more token costs one more Unit.                                     *)
LEMMA OneMore ==
  ASSUME NEW u \in Int, NEW n \in Int, NEW i \in Int
  PROVE  u * ((n + 1) - i) = u * (n - i) + u
OBVIOUS

(* A sleeper wakes no earlier than the missing units took to accrue: the   *)
(* token it takes is covered by the ticks it slept.                        *)
LEMMA WakeArithmetic ==
  ASSUME NEW debt \in Int, NEW debtNext \in Int, NEW unit \in Int, NEW held \in Int,
         NEW refilled \in Int, NEW capacity \in Int, NEW time \in Int,
         NEW last \in Int, NEW granted \in Int,
         debtNext = debt + unit,
         debt + held <= capacity + 2 * (last - granted),
         time >= last + (unit - held),
         refilled <= time - last
  PROVE  debtNext + refilled <= capacity + 2 * (time - granted)
OBVIOUS

(* A tick adds one unit at most, and two to what is allowed.               *)
LEMMA TickArithmetic ==
  ASSUME NEW debt \in Int, NEW before \in Int, NEW after \in Int,
         NEW capacity \in Int, NEW time \in Int, NEW granted \in Int,
         debt + before <= capacity + 2 * (time - granted),
         after <= before + 1
  PROVE  debt + after <= capacity + 2 * ((time + 1) - granted)
OBVIOUS

(* A waiter that leaves the queue leaves a queue of callers, with the same *)
(* head unless it was the head itself.                                     *)
LEMMA RemoveAtType ==
  ASSUME NEW S, NEW s \in Seq(S), NEW i \in 1..Len(s)
  PROVE  /\ RemoveAt(s, i) \in Seq(S)
         /\ i # 1 => RemoveAt(s, i) # << >> /\ Head(RemoveAt(s, i)) = Head(s)
<1>. DEFINE front == SubSeq(s, 1, i - 1)
            back  == SubSeq(s, i + 1, Len(s))
<1>1. front \in Seq(S) /\ Len(front) = i - 1
  OBVIOUS
<1>2. \A k \in 1..(i - 1) : front[k] = s[k]
  OBVIOUS
<1>3. back \in Seq(S)
  OBVIOUS
<1>4. RemoveAt(s, i) = front \o back
  BY DEF RemoveAt
<1>. HIDE DEF front, back
<1>5. ASSUME i # 1
      PROVE  RemoveAt(s, i) # << >> /\ Head(RemoveAt(s, i)) = Head(s)
  <2>1. Len(front) >= 1 /\ front[1] = s[1]
    BY <1>1, <1>2, <1>5
  <2>2. Len(front \o back) >= 1 /\ (front \o back)[1] = s[1]
    BY <1>1, <1>3, <2>1
  <2>. QED
    BY <1>1, <1>3, <1>4, <2>2
<1>. QED
  BY <1>1, <1>3, <1>4, <1>5

(* Refilling never exceeds the capacity nor loses a unit.                  *)
LEMMA RefilledBounds ==
  ASSUME TypeOK, TransportAssumption
  PROVE  /\ Refilled \in 0..Capacity
         /\ Refilled <= tokens + (now - lastRefill)
BY DEF TypeOK, TransportAssumption, Refilled, MinOf

(* The initial state satisfies the inductive invariant.                    *)
LEMMA InitInv == Init => IInv
<1>. SUFFICES ASSUME Init PROVE IInv
  OBVIOUS
<1>1. TypeOK
  BY TransportAssumption
  DEF Init, TypeOK, TransportAssumption, PcValues, Timed, Finished
<1>2. LockInv /\ AttemptInv
  BY DEF Init, LockInv, AttemptInv
<1>3. CreditInv /\ WindowBound
  BY DEF Init, CreditInv, WindowBound
<1>. QED
  BY <1>1, <1>2, <1>3 DEF IInv

------------------------------------------------------------------------------
(* Type correctness is preserved: the loop variable and the number of      *)
(* requests sent stay within max_retries, the bucket within its capacity.  *)
LEMMA TypeStep == IInv /\ [Next]_vars => TypeOK'
<1>. SUFFICES ASSUME TypeOK, LockInv, AttemptInv, [Next]_vars PROVE TypeOK'
  BY DEF IInv
<1>. USE TransportAssumption DEF TransportAssumption
<1>pc. /\ {"idle", "queued", "sleeping", "inflight", "backoff",
            "answered", "gaveup", "cancelled"} = PcValues
  BY DEF PcValues, Timed, Finished
<1>1. ASSUME NEW c \in Callers, Enqueue(c) PROVE TypeOK'
  BY <1>1, <1>pc DEF TypeOK, Enqueue, bucket
<1>2. ASSUME NEW c \in Callers, TakeToken(c) PROVE TypeOK'
  <2>1. sent[c] + 1 \in 0..MaxRetries
    <3>1. sent[c] <= attempt[c]
      BY <1>2 DEF AttemptInv, TakeToken
    <3>2. attempt[c] \in 0..(MaxRetries - 1) /\ sent[c] \in 0..MaxRetries
      BY DEF TypeOK
    <3>. QED
      BY <3>1, <3>2
  <2>2. Refilled - Unit \in 0..Capacity
    BY <1>2, RefilledBounds DEF TakeToken
  <2>3. Tail(queue) \in Seq(Callers) /\ Append(grants, now) \in Seq(0..now)
    BY <1>2 DEF TypeOK, TakeToken, HoldsLock
  <2>4. now + HttpTimeout \in Nat
    BY DEF TypeOK
  <2>5. /\ sent' \in [Callers -> 0..MaxRetries]
        /\ pc' \in [Callers -> PcValues]
        /\ deadline' \in [Callers -> Nat]
    BY <1>2, <1>pc, <2>1, <2>4 DEF TypeOK, TakeToken, Send
  <2>6. now' = now /\ lastRefill' = now /\ attempt' = attempt /\ now \in Nat
    BY <1>2 DEF TypeOK, TakeToken
  <2>. QED
    <3>1. now' \in Nat /\ lastRefill' \in 0..now'
      BY <2>6
    <3>2. tokens' \in 0..Capacity
      BY <1>2, <2>2 DEF TakeToken
    <3>3. queue' \in Seq(Callers)
      BY <1>2, <2>3 DEF TakeToken, Send
    <3>4. grants' \in Seq(0..now')
      BY <1>2, <2>3, <2>6 DEF TakeToken
    <3>5. attempt' \in [Callers -> 0..(MaxRetries - 1)]
      BY <2>6 DEF TypeOK
    <3>. QED
      BY <2>5, <3>1, <3>2, <3>3, <3>4, <3>5 DEF TypeOK
<1>3. ASSUME NEW c \in Callers, SleepForToken(c) PROVE TypeOK'
  <2>0. Refilled \in 0..Capacity
    BY RefilledBounds
  <2>1. now + (Unit - Refilled) \in Nat
    BY <1>3, <2>0 DEF TypeOK, SleepForToken
  <2>2. pc' \in [Callers -> PcValues] /\ deadline' \in [Callers -> Nat]
    BY <1>3, <1>pc, <2>1 DEF TypeOK, SleepForToken
  <2>. QED
    <3>1. /\ now' = now /\ lastRefill' = now /\ queue' = queue
          /\ grants' = grants /\ sent' = sent /\ attempt' = attempt
      BY <1>3 DEF SleepForToken
    <3>2. tokens' \in 0..Capacity
      BY <1>3, <2>0 DEF SleepForToken
    <3>. QED
      BY <2>2, <3>1, <3>2 DEF TypeOK
<1>4. ASSUME NEW c \in Callers, WakeWithToken(c) PROVE TypeOK'
  <2>1. sent[c] + 1 \in 0..MaxRetries
    <3>1. sent[c] <= attempt[c]
      BY <1>4 DEF AttemptInv, WakeWithToken
    <3>2. attempt[c] \in 0..(MaxRetries - 1) /\ sent[c] \in 0..MaxRetries
      BY DEF TypeOK
    <3>. QED
      BY <3>1, <3>2
  <2>2. Tail(queue) \in Seq(Callers) /\ Append(grants, now) \in Seq(0..now)
    BY <1>4 DEF TypeOK, WakeWithToken, LockInv
  <2>3. now + HttpTimeout \in Nat
    BY DEF TypeOK
  <2>4. /\ sent' \in [Callers -> 0..MaxRetries]
        /\ pc' \in [Callers -> PcValues]
        /\ deadline' \in [Callers -> Nat]
    BY <1>4, <1>pc, <2>1, <2>3 DEF TypeOK, WakeWithToken, Send
  <2>. QED
    <3>1. /\ now' = now /\ lastRefill' = lastRefill /\ attempt' = attempt
          /\ tokens' \in 0..Capacity
      BY <1>4 DEF WakeWithToken
    <3>2. queue' \in Seq(Callers) /\ grants' \in Seq(0..now')
      BY <1>4, <2>2, <3>1 DEF WakeWithToken, Send
    <3>. QED
      BY <2>4, <3>1, <3>2 DEF TypeOK
<1>5. ASSUME NEW c \in Callers, Respond(c) PROVE TypeOK'
  BY <1>5, <1>pc DEF TypeOK, Respond, bucket
<1>6. ASSUME NEW c \in Callers, RetryLater(c) PROVE TypeOK'
  <2>1. now + Backoff[attempt[c]] \in Nat
    BY DEF TypeOK
  <2>. QED
    BY <1>6, <1>pc, <2>1 DEF TypeOK, RetryLater, bucket
<1>7. ASSUME NEW c \in Callers, BackoffOver(c) PROVE TypeOK'
  <2>1. CASE attempt[c] + 1 < MaxRetries
    <3>1. attempt[c] + 1 \in 0..(MaxRetries - 1)
      BY <2>1 DEF TypeOK
    <3>. QED
      <4>1. attempt' \in [Callers -> 0..(MaxRetries - 1)]
        BY <1>7, <2>1, <3>1 DEF TypeOK, BackoffOver
      <4>2. pc' \in [Callers -> PcValues]
        BY <1>7, <1>pc, <2>1 DEF TypeOK, BackoffOver
      <4>3. queue' \in Seq(Callers)
        <5>1. queue' = Append(queue, c)
          BY <1>7, <2>1 DEF BackoffOver
        <5>. QED
          BY <5>1 DEF TypeOK
      <4>. QED
        BY <1>7, <4>1, <4>2, <4>3 DEF TypeOK, BackoffOver, bucket
  <2>2. CASE ~(attempt[c] + 1 < MaxRetries)
    BY <1>7, <1>pc, <2>2 DEF TypeOK, BackoffOver, bucket
  <2>. QED
    BY <2>1, <2>2
<1>8. ASSUME NEW c \in Callers, Cancel(c) PROVE TypeOK'
  <2>1. queue' \in Seq(Callers)
    BY <1>8, RemoveAtType DEF TypeOK, Cancel
  <2>. QED
    BY <1>8, <1>pc, <2>1 DEF TypeOK, Cancel, bucket
<1>9. CASE Tick
  <2>1. grants \in Seq(0..(now + 1))
    BY DEF TypeOK
  <2>. QED
    BY <1>9, <2>1 DEF TypeOK, Tick, bucket
<1>10. CASE UNCHANGED vars
  BY <1>10 DEF TypeOK, vars
<1>. QED
  BY <1>1, <1>2, <1>3, <1>4, <1>5, <1>6, <1>7, <1>8, <1>9, <1>10
  DEF Next, CallerStep

------------------------------------------------------------------------------
(* The lock is respected: the sleeper keeps the head of the queue until it *)
(* wakes or is cancelled.                                                  *)
LEMMA LockStep == IInv /\ [Next]_vars => LockInv'
<1>. DEFINE Holds(d) == /\ queue' # << >> /\ Head(queue') = d
                        /\ tokens' < Unit
                        /\ deadline'[d] = lastRefill' + (Unit - tokens')
<1>. SUFFICES ASSUME TypeOK, LockInv, [Next]_vars,
                     NEW d \in Callers, pc'[d] = "sleeping"
              PROVE  Holds(d)
  BY DEF IInv, LockInv
<1>. USE TransportAssumption DEF TransportAssumption
<1>0. ASSUME pc[d] = "sleeping", tokens' = tokens, lastRefill' = lastRefill,
             deadline'[d] = deadline[d], queue' # << >>, Head(queue') = Head(queue)
      PROVE  Holds(d)
  BY <1>0 DEF LockInv
<1>1. ASSUME NEW c \in Callers, Enqueue(c) PROVE Holds(d)
  <2>1. pc[d] = "sleeping" /\ queue' = Append(queue, c)
    BY <1>1 DEF TypeOK, Enqueue
  <2>2. queue' # << >> /\ Head(queue') = Head(queue)
    <3>1. queue \in Seq(Callers)
      BY DEF TypeOK
    <3>2. queue # << >>
      BY <2>1 DEF LockInv
    <3>. QED
      BY <2>1, <3>1, <3>2
  <2>. QED
    BY <1>0, <1>1, <2>1, <2>2 DEF Enqueue, bucket
<1>2. ASSUME NEW c \in Callers, TakeToken(c) PROVE Holds(d)
  <2>1. pc[d] = "sleeping" /\ d # c /\ Head(queue) = c
    BY <1>2 DEF TypeOK, TakeToken, Send, HoldsLock
  <2>. QED
    BY <2>1 DEF LockInv
<1>3. ASSUME NEW c \in Callers, SleepForToken(c) PROVE Holds(d)
  <2>1. d = c
    BY <1>3 DEF TypeOK, SleepForToken, HoldsLock, LockInv
  <2>. QED
    BY <1>3, <2>1, RefilledBounds DEF TypeOK, SleepForToken, HoldsLock
<1>4. ASSUME NEW c \in Callers, WakeWithToken(c) PROVE Holds(d)
  <2>1. pc[d] = "sleeping" /\ d # c
    BY <1>4 DEF TypeOK, WakeWithToken, Send
  <2>. QED
    BY <1>4, <2>1 DEF LockInv, WakeWithToken
<1>5. ASSUME NEW c \in Callers, Respond(c) PROVE Holds(d)
  <2>1. pc[d] = "sleeping"
    BY <1>5 DEF TypeOK, Respond
  <2>. QED
    BY <1>0, <1>5, <2>1 DEF Respond, bucket, LockInv
<1>6. ASSUME NEW c \in Callers, RetryLater(c) PROVE Holds(d)
  <2>1. pc[d] = "sleeping" /\ d # c
    BY <1>6 DEF TypeOK, RetryLater
  <2>. QED
    BY <1>0, <1>6, <2>1 DEF TypeOK, RetryLater, bucket, LockInv
<1>7. ASSUME NEW c \in Callers, BackoffOver(c) PROVE Holds(d)
  <2>1. pc[d] = "sleeping" /\ queue \in Seq(Callers)
    BY <1>7 DEF TypeOK, BackoffOver
  <2>2. queue # << >>
    BY <2>1 DEF LockInv
  <2>3. queue' # << >> /\ Head(queue') = Head(queue)
    BY <1>7, <2>1, <2>2 DEF BackoffOver
  <2>. QED
    BY <1>0, <1>7, <2>1, <2>3 DEF BackoffOver, bucket
<1>8. ASSUME NEW c \in Callers, Cancel(c) PROVE Holds(d)
  <2>1. pc[d] = "sleeping" /\ d # c /\ queue \in Seq(Callers)
    BY <1>8 DEF TypeOK, Cancel
  <2>2. queue # << >> /\ Head(queue) = d
    BY <2>1 DEF LockInv
  <2>3. queue' # << >> /\ Head(queue') = Head(queue)
    <3>1. CASE pc[c] \in {"queued", "sleeping"}
      <4>1. PICK i \in 1..Len(queue) : queue[i] = c /\ queue' = RemoveAt(queue, i)
        BY <1>8, <3>1 DEF Cancel
      <4>2. i # 1
        BY <2>1, <2>2, <4>1
      <4>. QED
        BY <2>1, <4>1, <4>2, RemoveAtType
    <3>2. CASE pc[c] \notin {"queued", "sleeping"}
      BY <1>8, <2>2, <3>2 DEF Cancel
    <3>. QED
      BY <3>1, <3>2
  <2>. QED
    BY <1>0, <1>8, <2>1, <2>3 DEF Cancel, bucket
<1>9. CASE Tick
  BY <1>0, <1>9 DEF Tick, bucket, LockInv
<1>10. CASE UNCHANGED vars
  BY <1>0, <1>10 DEF vars, LockInv
<1>. QED
  BY <1>1, <1>2, <1>3, <1>4, <1>5, <1>6, <1>7, <1>8, <1>9, <1>10
  DEF Next, CallerStep

------------------------------------------------------------------------------
(* Requests stay within their budget and every attempt has its token.      *)
LEMMA AttemptStep == IInv /\ [Next]_vars => AttemptInv'
<1>. DEFINE Within(d) ==
       /\ sent'[d] <= attempt'[d] + 1
       /\ pc'[d] \in {"idle", "queued", "sleeping"} => sent'[d] <= attempt'[d]
       /\ sent'[d] <= Len(grants')
<1>. SUFFICES ASSUME TypeOK, AttemptInv, [Next]_vars, NEW d \in Callers
              PROVE  Within(d)
  BY DEF IInv, AttemptInv
<1>0. /\ sent[d] \in Nat /\ attempt[d] \in Nat /\ Len(grants) \in Nat
      /\ sent[d] <= attempt[d] + 1
      /\ pc[d] \in {"idle", "queued", "sleeping"} => sent[d] <= attempt[d]
      /\ sent[d] <= Len(grants)
  BY TransportAssumption DEF TypeOK, AttemptInv, TransportAssumption
<1>1. ASSUME NEW c \in Callers, Enqueue(c) PROVE Within(d)
  BY <1>0, <1>1 DEF TypeOK, Enqueue, bucket
<1>2. ASSUME NEW c \in Callers, TakeToken(c) PROVE Within(d)
  <2>1. Len(grants') = Len(grants) + 1
    BY <1>2 DEF TypeOK, TakeToken
  <2>2. /\ attempt' = attempt /\ pc'[c] = "inflight"
        /\ sent'[d] = IF d = c THEN sent[c] + 1 ELSE sent[d]
        /\ d # c => pc'[d] = pc[d]
        /\ pc[c] \in {"queued", "sleeping"}
    BY <1>2 DEF TypeOK, TakeToken, Send
  <2>. QED
    BY <1>0, <2>1, <2>2
<1>3. ASSUME NEW c \in Callers, SleepForToken(c) PROVE Within(d)
  BY <1>0, <1>3 DEF TypeOK, SleepForToken
<1>4. ASSUME NEW c \in Callers, WakeWithToken(c) PROVE Within(d)
  <2>1. Len(grants') = Len(grants) + 1
    BY <1>4 DEF TypeOK, WakeWithToken
  <2>2. /\ attempt' = attempt /\ pc'[c] = "inflight"
        /\ sent'[d] = IF d = c THEN sent[c] + 1 ELSE sent[d]
        /\ d # c => pc'[d] = pc[d]
        /\ pc[c] \in {"queued", "sleeping"}
    BY <1>4 DEF TypeOK, WakeWithToken, Send
  <2>. QED
    BY <1>0, <2>1, <2>2
<1>5. ASSUME NEW c \in Callers, Respond(c) PROVE Within(d)
  BY <1>0, <1>5 DEF TypeOK, Respond, bucket
<1>6. ASSUME NEW c \in Callers, RetryLater(c) PROVE Within(d)
  BY <1>0, <1>6 DEF TypeOK, RetryLater, bucket
<1>7. ASSUME NEW c \in Callers, BackoffOver(c) PROVE Within(d)
  <2>1. CASE attempt[c] + 1 < MaxRetries
    <3>1. /\ sent' = sent /\ grants' = grants
          /\ attempt'[d] = IF d = c THEN attempt[d] + 1 ELSE attempt[d]
          /\ d # c => pc'[d] = pc[d]
      BY <1>7, <2>1 DEF TypeOK, BackoffOver, bucket
    <3>. QED
      BY <1>0, <3>1
  <2>2. CASE ~(attempt[c] + 1 < MaxRetries)
    BY <1>0, <1>7, <2>2 DEF TypeOK, BackoffOver, bucket
  <2>. QED
    BY <2>1, <2>2
<1>8. ASSUME NEW c \in Callers, Cancel(c) PROVE Within(d)
  BY <1>0, <1>8 DEF TypeOK, Cancel, bucket
<1>9. CASE Tick
  BY <1>0, <1>9 DEF Tick, bucket
<1>10. CASE UNCHANGED vars
  BY <1>0, <1>10 DEF vars
<1>. QED
  BY <1>1, <1>2, <1>3, <1>4, <1>5, <1>6, <1>7, <1>8, <1>9, <1>10
  DEF Next, CallerStep

------------------------------------------------------------------------------
(* The numbers the credit argument is about are integers.                  *)
LEMMA Numbers ==
  ASSUME TypeOK, TransportAssumption
  PROVE  /\ now \in Nat /\ tokens \in Nat /\ lastRefill \in Nat
         /\ lastRefill <= now /\ tokens <= Capacity
         /\ Len(grants) \in Nat
         /\ \A i \in 1..Len(grants) : grants[i] \in Nat /\ grants[i] <= now
         /\ Unit \in Nat /\ Capacity \in Nat
BY DEF TypeOK, TransportAssumption

(* A caller at the head of the queue that has not gone to sleep is alone.  *)
LEMMA HeadAwake ==
  ASSUME TypeOK, LockInv, NEW c \in Callers, pc[c] = "queued", HoldsLock(c)
  PROVE  ~Sleeping
BY DEF LockInv, Sleeping, HoldsLock

(* Steps that neither touch the bucket nor the sleeper keep the credit.    *)
LEMMA CreditKept ==
  ASSUME CreditInv, UNCHANGED <<now, bucket>>, Sleeping' <=> Sleeping
  PROVE  CreditInv'
BY DEF CreditInv, bucket, Refilled

(* Handing out a token moves one Unit from the bucket to the debt, and the *)
(* newest grant starts a window of its own.                                *)
LEMMA CreditTake ==
  ASSUME TypeOK, LockInv, CreditInv, WindowBound, NEW c \in Callers, TakeToken(c)
  PROVE  CreditInv' /\ WindowBound'
<1>. DEFINE n == Len(grants)
<1>1. ~Sleeping
  BY HeadAwake DEF TakeToken
<1>2. ~Sleeping'
  BY <1>1 DEF Sleeping, TakeToken, Send, TypeOK
<1>3. /\ Len(grants') = n + 1 /\ grants'[n + 1] = now
      /\ \A i \in 1..n : grants'[i] = grants[i]
  BY DEF TakeToken, TypeOK
<1>4. /\ Refilled \in Nat /\ Refilled <= Capacity /\ Refilled >= Unit
      /\ now' = now /\ Refilled' = Refilled - Unit
  <2>1. /\ Refilled \in Nat /\ Refilled <= Capacity /\ Refilled >= Unit
        /\ Unit \in Nat /\ Capacity \in Nat /\ now \in Nat
    BY TransportAssumption, RefilledBounds, Numbers DEF TakeToken
  <2>2. now' = now /\ lastRefill' = now /\ tokens' = Refilled - Unit
    BY DEF TakeToken
  <2>3. Refilled' = MinOf(Capacity, tokens' + (now' - lastRefill'))
    BY DEF Refilled
  <2>. HIDE DEF Refilled
  <2>4. tokens' + (now' - lastRefill') = Refilled - Unit
    BY <2>1, <2>2
  <2>5. MinOf(Capacity, Refilled - Unit) = Refilled - Unit
    BY <2>1 DEF MinOf
  <2>. QED
    BY <2>1, <2>2, <2>3, <2>4, <2>5
<1>5. ASSUME NEW i \in 1..n
      PROVE  Unit * ((n + 1) - i) + Refilled' <= Capacity + 2 * (now - grants[i])
  <2>1. Unit * ((n + 1) - i) = Unit * (n - i) + Unit
    BY OneMore, Numbers, TransportAssumption
  <2>2. Unit * (n - i) + Refilled <= Capacity + 2 * (now - grants[i])
    BY <1>1 DEF CreditInv
  <2>3. Unit * (n - i) \in Int
    BY Numbers, TransportAssumption
  <2>. QED
    BY <1>4, <2>1, <2>2, <2>3, Numbers, TransportAssumption
<1>6. CreditInv'
  <2>. SUFFICES ASSUME NEW i \in 1..(n + 1)
                PROVE  Unit * ((n + 1) - i) + Refilled'
                         <= Capacity + 2 * (now - grants'[i])
    BY <1>2, <1>3, <1>4 DEF CreditInv
  <2>1. CASE i = n + 1
    BY <1>3, <1>4, <2>1, Numbers, TransportAssumption
  <2>2. CASE i # n + 1
    <3>1. i \in 1..n /\ grants'[i] = grants[i]
      BY <1>3, <2>2, Numbers
    <3>. QED
      BY <1>5, <3>1
  <2>. QED
    BY <2>1, <2>2
<1>7. WindowBound'
  <2>. SUFFICES ASSUME NEW i \in 1..(n + 1), NEW j \in 1..(n + 1), i <= j
                PROVE  Unit * (j - i) <= Capacity + 2 * (grants'[j] - grants'[i])
    BY <1>3 DEF WindowBound
  <2>1. CASE j \in 1..n
    <3>1. i \in 1..n
      BY <2>1, Numbers
    <3>2. Unit * (j - i) <= Capacity + 2 * (grants[j] - grants[i])
      BY <2>1, <3>1 DEF WindowBound
    <3>3. grants'[i] = grants[i] /\ grants'[j] = grants[j]
      BY <1>3, <2>1, <3>1
    <3>. QED
      BY <3>2, <3>3
  <2>2. CASE i = n + 1 /\ j = n + 1
    BY <1>3, <2>2, Numbers, TransportAssumption
  <2>3. CASE i \in 1..n /\ j = n + 1
    <3>1. Unit * (j - i) + Refilled' <= Capacity + 2 * (now - grants[i])
      BY <1>5, <2>3
    <3>2. grants'[j] = now /\ grants'[i] = grants[i] /\ j - i = (n + 1) - i
      BY <1>3, <2>3
    <3>3. Unit * (j - i) \in Int /\ Refilled' >= 0 /\ Refilled' \in Int
      BY <1>4, <2>3, Numbers, TransportAssumption
    <3>4. now \in Int /\ Capacity \in Int /\ grants[i] \in Int
      <4>1. i \in 1..Len(grants)
        BY <2>3
      <4>. QED
        BY <4>1, Numbers, TransportAssumption
    <3>. HIDE DEF n
    <3>. QED
      BY <3>1, <3>2, <3>3, <3>4
  <2>4. \/ j \in 1..n
        \/ i = n + 1 /\ j = n + 1
        \/ i \in 1..n /\ j = n + 1
    BY Numbers
  <2>. QED
    BY <2>1, <2>2, <2>3, <2>4, Zenon
<1>. QED
  BY <1>6, <1>7

(* The sleeper paid, in ticks, for the units it was missing; the ticks it  *)
(* slept are credited a second time by the next refill, never a third.     *)
LEMMA CreditWake ==
  ASSUME TypeOK, LockInv, CreditInv, WindowBound, NEW c \in Callers,
         WakeWithToken(c)
  PROVE  CreditInv' /\ WindowBound'
<1>. DEFINE n == Len(grants)
<1>1. Sleeping
  BY DEF Sleeping, WakeWithToken
<1>2. ~Sleeping'
  BY DEF LockInv, Sleeping, WakeWithToken, Send, TypeOK
<1>3. /\ Len(grants') = n + 1 /\ grants'[n + 1] = now
      /\ \A i \in 1..n : grants'[i] = grants[i]
  BY DEF WakeWithToken, TypeOK
<1>4. /\ tokens < Unit /\ now' = now
      /\ now >= lastRefill + (Unit - tokens)
  BY DEF WakeWithToken, LockInv
<1>5. /\ Refilled' \in Nat /\ Refilled' <= Capacity
      /\ Refilled' <= now - lastRefill
  <2>1. /\ Capacity \in Nat /\ now \in Nat /\ lastRefill \in Nat
        /\ now - lastRefill >= 0
    BY TransportAssumption, Numbers
  <2>2. now' = now /\ lastRefill' = lastRefill /\ tokens' = 0
    BY DEF WakeWithToken
  <2>3. Refilled' = MinOf(Capacity, tokens' + (now' - lastRefill'))
    BY DEF Refilled
  <2>. HIDE DEF Refilled
  <2>4. tokens' + (now' - lastRefill') = now - lastRefill
    BY <2>1, <2>2
  <2>5. /\ MinOf(Capacity, now - lastRefill) \in Nat
        /\ MinOf(Capacity, now - lastRefill) <= Capacity
        /\ MinOf(Capacity, now - lastRefill) <= now - lastRefill
    BY <2>1 DEF MinOf
  <2>. QED
    BY <2>3, <2>4, <2>5
<1>6. ASSUME NEW i \in 1..n
      PROVE  /\ Unit * ((n + 1) - i) \in Int
             /\ Unit * ((n + 1) - i) + Refilled' <= Capacity + 2 * (now - grants[i])
  <2>1. Unit * ((n + 1) - i) = Unit * (n - i) + Unit
    BY OneMore, Numbers, TransportAssumption
  <2>2. Unit * (n - i) + tokens <= Capacity + 2 * (lastRefill - grants[i])
    BY <1>1 DEF CreditInv
  <2>3. Unit * (n - i) \in Int
    BY Numbers, TransportAssumption
  <2>4. i \in 1..Len(grants)
    OBVIOUS
  <2>5. /\ now \in Int /\ lastRefill \in Int /\ tokens \in Int
        /\ grants[i] \in Int /\ Unit \in Int /\ Capacity \in Int
    BY <2>4, Numbers, TransportAssumption
  <2>. DEFINE debt == Unit * (n - i)
              debtNext == Unit * ((n + 1) - i)
  <2>6. /\ debtNext = debt + Unit /\ debt \in Int
        /\ debt + tokens <= Capacity + 2 * (lastRefill - grants[i])
    BY <2>1, <2>2, <2>3
  <2>. HIDE DEF debt, debtNext
  <2>7. /\ debtNext \in Int
        /\ debtNext + Refilled' <= Capacity + 2 * (now - grants[i])
    <3>1. debtNext \in Int
      BY <2>5, <2>6
    <3>2. Refilled' \in Int /\ Refilled' <= now - lastRefill
      BY <1>5
    <3>3. now >= lastRefill + (Unit - tokens)
      BY <1>4
    <3>. QED
      BY <2>5, <2>6, <3>1, <3>2, <3>3, WakeArithmetic
  <2>. QED
    BY <2>7, Zenon DEF debtNext
<1>7. CreditInv'
  <2>. SUFFICES ASSUME NEW i \in 1..(n + 1)
                PROVE  Unit * ((n + 1) - i) + Refilled'
                         <= Capacity + 2 * (now - grants'[i])
    BY <1>2, <1>3, <1>4 DEF CreditInv
  <2>1. CASE i = n + 1
    BY <1>3, <1>5, <2>1, Numbers, TransportAssumption
  <2>2. CASE i # n + 1
    <3>1. i \in 1..n /\ grants'[i] = grants[i]
      BY <1>3, <2>2, Numbers
    <3>. QED
      BY <1>6, <3>1
  <2>. QED
    BY <2>1, <2>2
<1>8. WindowBound'
  <2>. SUFFICES ASSUME NEW i \in 1..(n + 1), NEW j \in 1..(n + 1), i <= j
                PROVE  Unit * (j - i) <= Capacity + 2 * (grants'[j] - grants'[i])
    BY <1>3 DEF WindowBound
  <2>1. CASE j \in 1..n
    <3>1. i \in 1..n
      BY <2>1, Numbers
    <3>2. Unit * (j - i) <= Capacity + 2 * (grants[j] - grants[i])
      BY <2>1, <3>1 DEF WindowBound
    <3>3. grants'[i] = grants[i] /\ grants'[j] = grants[j]
      BY <1>3, <2>1, <3>1
    <3>. QED
      BY <3>2, <3>3
  <2>2. CASE i = n + 1 /\ j = n + 1
    BY <1>3, <2>2, Numbers, TransportAssumption
  <2>3. CASE i \in 1..n /\ j = n + 1
    <3>1. /\ Unit * (j - i) \in Int
          /\ Unit * (j - i) + Refilled' <= Capacity + 2 * (now - grants[i])
      BY <1>6, <2>3
    <3>2. grants'[j] = now /\ grants'[i] = grants[i]
      BY <1>3, <2>3
    <3>3. now \in Int /\ Capacity \in Int /\ grants[i] \in Int
      <4>1. i \in 1..Len(grants)
        BY <2>3
      <4>. QED
        BY <4>1, Numbers, TransportAssumption
    <3>. HIDE DEF n
    <3>. QED
      BY <1>5, <3>1, <3>2, <3>3
  <2>4. \/ j \in 1..n
        \/ i = n + 1 /\ j = n + 1
        \/ i \in 1..n /\ j = n + 1
    BY Numbers
  <2>. QED
    BY <2>1, <2>2, <2>3, <2>4, Zenon
<1>. QED
  BY <1>7, <1>8

(* Going to sleep fixes the bucket at what the refill found.               *)
LEMMA CreditSleep ==
  ASSUME TypeOK, LockInv, CreditInv, NEW c \in Callers, SleepForToken(c)
  PROVE  CreditInv'
<1>1. ~Sleeping /\ Sleeping'
  BY HeadAwake DEF SleepForToken, Sleeping, TypeOK
<1>2. tokens' = Refilled /\ lastRefill' = now /\ grants' = grants
  BY DEF SleepForToken
<1>. QED
  BY <1>1, <1>2 DEF CreditInv

(* A sleeper that is cancelled leaves without a token.                     *)
LEMMA CreditCancel ==
  ASSUME TypeOK, LockInv, CreditInv, NEW c \in Callers, Cancel(c)
  PROVE  CreditInv'
<1>1. UNCHANGED <<now, bucket>>
  BY DEF Cancel, bucket
<1>2. CASE pc[c] # "sleeping"
  <2>1. Sleeping' <=> Sleeping
    BY <1>2 DEF Cancel, Sleeping, TypeOK
  <2>. QED
    BY <1>1, <2>1, CreditKept
<1>3. CASE pc[c] = "sleeping"
  <2>1. Sleeping /\ ~Sleeping'
    BY <1>3 DEF Cancel, Sleeping, TypeOK, LockInv
  <2>2. Refilled' = Refilled /\ grants' = grants /\ now' = now
    BY <1>1 DEF bucket, Refilled
  <2>. SUFFICES ASSUME NEW i \in 1..Len(grants)
                PROVE  Unit * (Len(grants) - i) + Refilled
                         <= Capacity + 2 * (now - grants[i])
    BY <2>1, <2>2 DEF CreditInv
  <2>3. Unit * (Len(grants) - i) + tokens
          <= Capacity + 2 * (lastRefill - grants[i])
    BY <2>1 DEF CreditInv
  <2>4. Refilled \in Int /\ Refilled <= tokens + (now - lastRefill)
    BY RefilledBounds, TransportAssumption DEF TransportAssumption
  <2>5. Unit * (Len(grants) - i) \in Int
    BY Numbers, TransportAssumption
  <2>6. /\ now \in Int /\ lastRefill \in Int /\ tokens \in Int
        /\ grants[i] \in Int /\ Capacity \in Int /\ lastRefill <= now
    BY Numbers, TransportAssumption
  <2>. DEFINE debt == Unit * (Len(grants) - i)
  <2>7. debt \in Int /\ debt + tokens <= Capacity + 2 * (lastRefill - grants[i])
    BY <2>3, <2>5
  <2>. HIDE DEF debt
  <2>8. debt + Refilled <= Capacity + 2 * (now - grants[i])
    BY <2>4, <2>6, <2>7
  <2>. QED
    BY <2>8 DEF debt
<1>. QED
  BY <1>2, <1>3

(* A tick adds at most one unit to the bucket and two to the allowance.    *)
LEMMA CreditTick ==
  ASSUME TypeOK, CreditInv, Tick
  PROVE  CreditInv'
<1>1. /\ now' = now + 1 /\ tokens' = tokens /\ lastRefill' = lastRefill
      /\ grants' = grants /\ pc' = pc
  BY DEF Tick, bucket
<1>2. Sleeping' <=> Sleeping
  BY <1>1 DEF Sleeping
<1>3. Refilled \in Int /\ Refilled' \in Int /\ Refilled' <= Refilled + 1
  <2>1. /\ now \in Int /\ lastRefill \in Int /\ tokens \in Int /\ Capacity \in Int
    BY Numbers, TransportAssumption
  <2>2. /\ Refilled = MinOf(Capacity, tokens + (now - lastRefill))
        /\ Refilled' = MinOf(Capacity, tokens + ((now + 1) - lastRefill))
    BY <1>1 DEF Refilled
  <2>. QED
    BY <2>1, <2>2 DEF MinOf
<1>. SUFFICES ASSUME NEW i \in 1..Len(grants), ~Sleeping
              PROVE  Unit * (Len(grants) - i) + Refilled'
                       <= Capacity + 2 * (now' - grants[i])
  BY <1>1, <1>2 DEF CreditInv
<1>4. Unit * (Len(grants) - i) + Refilled <= Capacity + 2 * (now - grants[i])
  BY DEF CreditInv
<1>5. Unit * (Len(grants) - i) \in Int
  BY Numbers, TransportAssumption
<1>6. now \in Int /\ grants[i] \in Int /\ Capacity \in Int
  BY Numbers, TransportAssumption
<1>. DEFINE debt == Unit * (Len(grants) - i)
<1>7. debt \in Int /\ debt + Refilled <= Capacity + 2 * (now - grants[i])
  BY <1>4, <1>5
<1>. HIDE DEF debt
<1>8. debt + Refilled' <= Capacity + 2 * (now' - grants[i])
  <2>1. now' = now + 1
    BY <1>1
  <2>. QED
    BY <2>1, <1>3, <1>6, <1>7, TickArithmetic
<1>. QED
  BY <1>8 DEF debt

(* Every step keeps the credit and with it the bound on every window.      *)
LEMMA CreditStep == IInv /\ [Next]_vars => CreditInv' /\ WindowBound'
<1>. SUFFICES ASSUME TypeOK, LockInv, CreditInv, WindowBound, [Next]_vars
              PROVE  CreditInv' /\ WindowBound'
  BY DEF IInv
<1>0. UNCHANGED grants => WindowBound'
  BY DEF WindowBound
<1>1. ASSUME NEW c \in Callers, Enqueue(c) PROVE CreditInv' /\ WindowBound'
  <2>1. UNCHANGED <<now, bucket>> /\ (Sleeping' <=> Sleeping)
    BY <1>1 DEF Enqueue, Sleeping, TypeOK, bucket
  <2>. QED
    BY <1>0, <2>1, CreditKept DEF bucket
<1>2. ASSUME NEW c \in Callers, TakeToken(c) PROVE CreditInv' /\ WindowBound'
  BY <1>2, CreditTake
<1>3. ASSUME NEW c \in Callers, SleepForToken(c) PROVE CreditInv' /\ WindowBound'
  BY <1>0, <1>3, CreditSleep DEF SleepForToken
<1>4. ASSUME NEW c \in Callers, WakeWithToken(c) PROVE CreditInv' /\ WindowBound'
  BY <1>4, CreditWake
<1>5. ASSUME NEW c \in Callers, Respond(c) \/ RetryLater(c)
      PROVE  CreditInv' /\ WindowBound'
  <2>1. UNCHANGED <<now, bucket>> /\ (Sleeping' <=> Sleeping)
    BY <1>5 DEF Respond, RetryLater, Sleeping, TypeOK, bucket
  <2>. QED
    BY <1>0, <2>1, CreditKept DEF bucket
<1>6. ASSUME NEW c \in Callers, BackoffOver(c) PROVE CreditInv' /\ WindowBound'
  <2>1. UNCHANGED <<now, bucket>> /\ (Sleeping' <=> Sleeping)
    BY <1>6 DEF BackoffOver, Sleeping, TypeOK, bucket
  <2>. QED
    BY <1>0, <2>1, CreditKept DEF bucket
<1>7. ASSUME NEW c \in Callers, Cancel(c) PROVE CreditInv' /\ WindowBound'
  BY <1>0, <1>7, CreditCancel DEF Cancel, bucket
<1>8. CASE Tick
  BY <1>0, <1>8, CreditTick DEF Tick, bucket
<1>9. CASE UNCHANGED vars
  <2>1. UNCHANGED <<now, bucket>> /\ (Sleeping' <=> Sleeping)
    BY <1>9 DEF vars, Sleeping, bucket
  <2>. QED
    BY <1>0, <2>1, CreditKept DEF bucket
<1>. QED
  BY <1>1, <1>2, <1>3, <1>4, <1>5, <1>6, <1>7, <1>8, <1>9 DEF Next, CallerStep

------------------------------------------------------------------------------
(* The inductive invariant holds of every reachable state.                 *)
LEMMA Inductive == Spec => []IInv
<1>1. IInv /\ [Next]_vars => IInv'
  BY TypeStep, LockStep, AttemptStep, CreditStep DEF IInv
<1>. QED
  BY <1>1, InitInv, PTL DEF Spec

(* Type correctness of the transport: in particular the bucket never goes  *)
(* negative and never above its capacity.                                  *)
THEOREM TypeCorrect == Spec => []TypeOK
<1>1. IInv => TypeOK
  BY DEF IInv
<1>. QED
  BY <1>1, Inductive, PTL

(* For every rate and any number of concurrent callers, no window of T     *)
(* ticks after a grant sees more than (Capacity + 2T) / Unit grants.       *)
THEOREM RateBounded == Spec => []WindowBound
<1>1. IInv => WindowBound
  BY DEF IInv
<1>. QED
  BY <1>1, Inductive, PTL

(* No request is attempted more often than max_retries, and none without   *)
(* a token.                                                                *)
THEOREM AttemptsBounded == Spec => []AttemptsPaidFor
<1>1. IInv => AttemptsPaidFor
  BY TransportAssumption DEF IInv, TypeOK, AttemptInv, AttemptsPaidFor
<1>. QED
  BY <1>1, Inductive, PTL
==============================================================================
