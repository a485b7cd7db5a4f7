---------------------------- MODULE TokenBucket ----------------------------
(***************************************************************************)
(* The rate limiter of api/rate_limit.py: one token bucket per process,    *)
(* shared by the threads that run Python models.  Time is in ticks, tokens *)
(* in the number a tick brings times Rate; a sleeper wakes at the tick its *)
(* sleep ends or later.                                                    *)
(***************************************************************************)
EXTENDS Naturals

CONSTANTS Procs,     \* the threads
          Capacity,  \* tokens the bucket holds
          Rate,      \* tokens per tick
          Costs      \* the costs callers ask for

ASSUME BucketAssumption == /\ Capacity \in Nat \ {0} /\ Rate \in Nat \ {0}
                           /\ Costs \subseteq 1..Capacity

VARIABLES tokens,  \* _tokens, refilled up to now
          need,    \* what a thread in wait() asks for, 0 outside wait()
          nap,     \* ticks a thread still has to sleep
          credit   \* auxiliary: tokens an ideal bucket, full at first, would hold

bucket == <<tokens, need, nap, credit>>

Least(a, b) == IF a < b THEN a ELSE b
Less(a, b) == IF a < b THEN 0 ELSE a - b

BucketInit == /\ tokens = 0 /\ credit = Capacity
              /\ need = [p \in Procs |-> 0] /\ nap = [p \in Procs |-> 0]

Consume(cost) == tokens' = tokens - cost /\ credit' = credit - cost

\* wait, the loop body: take the tokens, or throw away what has accumulated and
\* sleep for the part that is missing.
Attempt(p, cost) ==
  IF tokens >= cost
  THEN Consume(cost) /\ need' = [need EXCEPT ![p] = 0] /\ UNCHANGED nap
  ELSE /\ need' = [need EXCEPT ![p] = cost]
       /\ nap' = [nap EXCEPT ![p] = (cost - tokens + Rate - 1) \div Rate]
       /\ tokens' = 0 /\ UNCHANGED credit

Wait(p, cost) == need[p] = 0 /\ nap[p] = 0 /\ Attempt(p, cost)
Wake(p) == need[p] > 0 /\ nap[p] = 0 /\ Attempt(p, need[p])

\* try_consume, when there are enough tokens; otherwise nothing changes.
TryConsume(p, cost) ==
  need[p] = 0 /\ nap[p] = 0 /\ tokens >= cost /\ Consume(cost) /\ UNCHANGED <<need, nap>>

\* Altered Refill: the capacity is forgotten.
RefillUnbounded(t) == t + Rate
Refill(t) == Least(Capacity, t + Rate)
BucketTick == /\ tokens' = Refill(tokens) /\ credit' = Least(Capacity, credit + Rate)
              /\ nap' = [p \in Procs |-> Less(nap[p], 1)]
              /\ UNCHANGED need

\* set_params, init_rate_limiter: a new, empty bucket.
SetParams == tokens' = 0 /\ UNCHANGED <<need, nap, credit>>

BucketNext == \/ \E p \in Procs, c \in Costs : Wait(p, c) \/ TryConsume(p, c)
              \/ \E p \in Procs : Wake(p)
              \/ BucketTick

\* Time passes and sleepers wake up.
BucketSpec == /\ BucketInit /\ [][BucketNext]_bucket
              /\ WF_bucket(BucketTick) /\ \A p \in Procs : WF_bucket(Wake(p))

-----------------------------------------------------------------------------
\* Never more tokens are handed out, in any span of time, than a bucket that
\* started full would have held.
NeverOverRate == tokens <= credit /\ credit <= Capacity

\* rate_limit.py:37, wait: "Block until at least `cost` tokens are available,
\* then consume them": with time passing and nobody else asking, it returns.
WaitEnds == \A p \in Procs : need[p] > 0 ~> need[p] = 0
=============================================================================
