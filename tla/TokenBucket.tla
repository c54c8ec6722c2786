---------------------------- MODULE TokenBucket -----------------------------
(***************************************************************************)
(* The two rate limiters of the process, which run the same algorithm:     *)
(* TokenBucketRateLimiter in front of the broker's REST calls, shared by   *)
(* the event loop and its executor threads, and _TokenBucket in front of   *)
(* the Discord posts.  A caller refills and takes a token under the lock,  *)
(* otherwise sleeps and tries again until its deadline.                    *)
(*                                                                         *)
(* Time is counted in ticks, and the bucket in units of which one is       *)
(* refilled per tick: a token is worth Cost units.                         *)
(***************************************************************************)
EXTENDS Integers, Sequences, FiniteSets

CONSTANTS Callers,         \* threads that make calls
          Capacity,        \* max_tokens / capacity
          Cost,            \* ticks that refill one token
          Timeout,         \* acquire(timeout)
          MaxTime          \* bound: ticks

ASSUME BucketAssumption ==
    /\ IsFiniteSet(Callers)
    /\ Capacity \in Nat
    /\ Cost \in Nat \ {0}
    /\ Timeout \in Nat
    /\ MaxTime \in Nat

VARIABLES insistent,    \* whose limiter it is: AlpacaClient's, or DiscordClient's
          now,          \* time.monotonic()
          units,        \* tokens * Cost
          lastRefill,   \* last_refill
          caller,       \* where each caller is, and its deadline
          granted,      \* ghost: the times at which tokens were taken
          calls         \* ghost: the times at which the guarded call was made

vars == <<insistent, now, units, lastRefill, caller, granted, calls>>

Steps == {"idle", "try", "check", "granted", "refused"}

AtMost(x, y) == IF x <= y THEN x ELSE y

\* Definitions whose name ends in an underscore are deliberately wrong variants
\* of the definition that follows them, used to test the properties.

Refilled_ == AtMost(Capacity * Cost, units + now)

\* tokens after _refill().
Refilled == AtMost(Capacity * Cost, units + (now - lastRefill))

-----------------------------------------------------------------------------
Init ==
    /\ insistent \in BOOLEAN
    /\ now = 0
    /\ units = Capacity * Cost
    /\ lastRefill = 0
    /\ caller = [c \in Callers |-> [step |-> "idle", deadline |-> 0]]
    /\ granted = <<>>
    /\ calls = <<>>

\* The MaxTime guard lets every caller that starts reach its deadline.
StartAcquire(c) ==
    /\ caller[c].step = "idle"
    /\ now + Timeout <= MaxTime
    /\ caller' = [caller EXCEPT ![c] = [step |-> "try", deadline |-> now + Timeout]]
    /\ UNCHANGED <<insistent, now, units, lastRefill, granted, calls>>

\* The locked part of the loop in acquire.
TakeOrNot(c) ==
    /\ caller[c].step = "try"
    /\ lastRefill' = now
    /\ \/ /\ Refilled >= Cost
          /\ units' = Refilled - Cost
          /\ granted' = Append(granted, now)
          /\ caller' = [caller EXCEPT ![c].step = "granted"]
       \/ /\ Refilled < Cost
          /\ units' = Refilled
          /\ caller' = [caller EXCEPT ![c].step = "check"]
          /\ UNCHANGED granted
    /\ UNCHANGED <<insistent, now, calls>>

GiveUpOrSleep_(c) ==
    /\ caller[c].step = "check"
    /\ caller' = [caller EXCEPT ![c].step = "try"]
    /\ UNCHANGED <<insistent, now, units, lastRefill, granted, calls>>

\* Outside the lock: give up at the deadline, or sleep and try again.
GiveUpOrSleep(c) ==
    /\ caller[c].step = "check"
    /\ caller' = [caller EXCEPT ![c].step =
                     IF now >= caller[c].deadline THEN "refused" ELSE "try"]
    /\ UNCHANGED <<insistent, now, units, lastRefill, granted, calls>>

Proceed_(c) ==
    /\ caller[c].step \in {"granted", "refused"}
    /\ calls' = Append(calls, now)
    /\ caller' = [caller EXCEPT ![c].step = "idle"]
    /\ UNCHANGED <<insistent, now, units, lastRefill, granted>>

\* The caller of acquire: the call is made with a token; without one
\* AlpacaClient._throttle proceeds, DiscordClient.send_embed does not.
Proceed(c) ==
    /\ \/ /\ caller[c].step = "granted" \/ insistent
          /\ calls' = Append(calls, now)
       \/ /\ caller[c].step = "refused" /\ ~insistent
          /\ UNCHANGED calls
    /\ caller[c].step \in {"granted", "refused"}
    /\ caller' = [caller EXCEPT ![c].step = "idle"]
    /\ UNCHANGED <<insistent, now, units, lastRefill, granted>>

Tick ==
    /\ now < MaxTime
    /\ now' = now + 1
    /\ UNCHANGED <<insistent, units, lastRefill, caller, granted, calls>>

Acquiring(c) == TakeOrNot(c) \/ GiveUpOrSleep(c) \/ Proceed(c)

Next ==
    \/ \E c \in Callers : StartAcquire(c) \/ Acquiring(c)
    \/ Tick

Spec == Init /\ [][Next]_vars

\* Time passes, and the system schedules every thread.
FairSpec == Spec /\ WF_vars(Tick) /\ \A c \in Callers : WF_vars(Acquiring(c))

-----------------------------------------------------------------------------
\* Every variable has its type; the bucket holds no more than its capacity and
\* was last refilled in the past.
TypeOK ==
    /\ insistent \in BOOLEAN
    /\ now \in Nat
    /\ units \in 0 .. Capacity * Cost
    /\ lastRefill \in 0 .. now
    /\ caller \in [Callers -> [step : Steps, deadline : Nat]]
    /\ granted \in Seq(0 .. now)
    /\ calls \in Seq(0 .. now)

\* What the i-th to the j-th grant take from the bucket.
Spent(i, j) == (j - i + 1) * Cost

\* Whatever the threads do, the tokens taken between any two moments are those
\* of a full bucket and what was refilled in between: the limit over a window
\* holds from any grant to any later one.
GrantsBounded ==
    \A i, j \in DOMAIN granted :
        i <= j => Spent(i, j) <= Capacity * Cost + (granted[j] - granted[i])

\* The strengthening of GrantsBounded: what is left in the bucket is part of
\* the same allowance.
Allowance ==
    /\ \A i \in DOMAIN granted :
          Spent(i, Len(granted)) + units
              <= Capacity * Cost + (lastRefill - granted[i])
    /\ \A i \in DOMAIN granted : granted[i] <= lastRefill
    /\ GrantsBounded

\* The strengthening of CallsBounded: the calls use up the grants in order, each
\* after its own, and no caller holds a token while the others take theirs twice.
Holding == {c \in Callers : caller[c].step = "granted"}

CallsPaired ==
    ~insistent =>
        /\ Len(granted) = Len(calls) + Cardinality(Holding)
        /\ \A k \in DOMAIN calls : granted[k] <= calls[k]
        /\ \A k \in DOMAIN calls, g \in DOMAIN granted :
              g >= k + Cardinality(Callers) => calls[k] <= granted[g]
        /\ \A i, j \in DOMAIN calls : i <= j => calls[i] <= calls[j]

BucketInv == TypeOK /\ Allowance /\ CallsPaired

\* A limiter whose callers respect a refusal bounds the calls themselves: from
\* one call to a later one at most a full bucket, what was refilled, and a
\* token each of the other callers had taken before.
CallsBounded ==
    ~insistent =>
        \A i, j \in DOMAIN calls :
            i <= j => (j - i) * Cost <= (Capacity + Cardinality(Callers) - 1) * Cost
                                           + (calls[j] - calls[i])

\* Every acquire returns: no caller waits behind the others for ever.
AcquireReturns ==
    \A c \in Callers : caller[c].step = "try" ~> caller[c].step = "idle"

=============================================================================
