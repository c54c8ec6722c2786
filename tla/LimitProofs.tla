--------------------------- MODULE LimitProofs ---------------------------
(***************************************************************************)
(* The two limits on what may happen within a window of time.  The tokens  *)
(* taken from a bucket: for every capacity, cost, timeout and set of       *)
(* callers.  The day trades made: for every limit, every length of the     *)
(* deque not below the limit, and every calendar of any length.            *)
(***************************************************************************)
EXTENDS TokenBucket, PDTGuard, FiniteSetTheorems, WellFoundedInduction, TLAPS

-----------------------------------------------------------------------------
\* The token bucket

\* A full bucket holds a natural number of units.
LEMMA FullTyped == Capacity * Cost \in Nat
  <1>1. \A x, y \in Nat : x * y \in Nat
    OBVIOUS
  <1> QED BY <1>1, BucketAssumption DEF BucketAssumption

\* _refill() leaves at most a full bucket, and adds at most one unit per tick.
LEMMA RefilledBounds ==
    ASSUME TypeOK
    PROVE  /\ Refilled \in 0 .. Capacity * Cost
           /\ Refilled <= units + (now - lastRefill)
  BY FullTyped DEF TypeOK, Refilled, AtMost

\* One more grant spends one token more.
LEMMA SpentGrows ==
    ASSUME NEW i \in Nat, NEW n \in Nat
    PROVE  /\ Spent(i, n) \in Int
           /\ Spent(i, n + 1) = Spent(i, n) + Cost
           /\ Spent(i, i) = Cost
  <1>1. \A c \in Nat : /\ (n - i + 1) * c \in Int
                       /\ ((n + 1) - i + 1) * c = (n - i + 1) * c + c
                       /\ (i - i + 1) * c = c
    OBVIOUS
  <1> QED BY <1>1, BucketAssumption DEF Spent, BucketAssumption

\* The recorded times lie in the past.
LEMMA TimesTyped ==
    ASSUME NEW t \in Nat, NEW ts \in Seq(0 .. t)
    PROVE  /\ Append(ts, t) \in Seq(0 .. t)
           /\ ts \in Seq(0 .. t + 1)
  <1>1. t \in 0 .. t
    OBVIOUS
  <1>2. /\ Len(ts) \in Nat
        /\ ts \in [1 .. Len(ts) -> 0 .. t]
        /\ 0 .. t \subseteq 0 .. t + 1
    OBVIOUS
  <1>3. ts \in [1 .. Len(ts) -> 0 .. t + 1]
    BY <1>2
  <1> QED BY <1>1, <1>2, <1>3

\* Types are kept by every step.
LEMMA TypeStep == TypeOK /\ [Next]_vars => TypeOK'
  <1> SUFFICES ASSUME TypeOK, [Next]_vars PROVE TypeOK'
    OBVIOUS
  <1> USE BucketAssumption, FullTyped DEF BucketAssumption, TypeOK, Steps
  <1>1. ASSUME NEW c \in Callers, StartAcquire(c) PROVE TypeOK'
    BY <1>1 DEF StartAcquire
  <1>2. ASSUME NEW c \in Callers, TakeOrNot(c) PROVE TypeOK'
    <2>1. Refilled \in 0 .. Capacity * Cost
      BY RefilledBounds
    <2>3. granted' \in Seq(0 .. now)
      <3>1. granted' = granted \/ granted' = Append(granted, now)
        BY <1>2 DEF TakeOrNot
      <3>2. now \in Nat /\ granted \in Seq(0 .. now)
        OBVIOUS
      <3> QED BY <3>1, <3>2, TimesTyped
    <2>4. caller' \in [Callers -> [step : Steps, deadline : Nat]]
      BY <1>2 DEF TakeOrNot
    <2>5. units' \in 0 .. Capacity * Cost
      BY <1>2, <2>1 DEF TakeOrNot
    <2> QED BY <1>2, <2>3, <2>4, <2>5 DEF TakeOrNot
  <1>3. ASSUME NEW c \in Callers, GiveUpOrSleep(c) PROVE TypeOK'
    BY <1>3 DEF GiveUpOrSleep
  <1>4. ASSUME NEW c \in Callers, Proceed(c) PROVE TypeOK'
    <2>2. calls' \in Seq(0 .. now)
      BY <1>4, TimesTyped DEF Proceed
    <2> QED BY <1>4, <2>2 DEF Proceed
  <1>5. ASSUME Tick PROVE TypeOK'
    <2>2. granted \in Seq(0 .. now + 1) /\ calls \in Seq(0 .. now + 1)
      BY TimesTyped
    <2> QED BY <1>5, <2>2 DEF Tick
  <1>6. CASE UNCHANGED vars
    BY <1>6 DEF vars
  <1> QED BY <1>1, <1>2, <1>3, <1>4, <1>5, <1>6 DEF Next, Acquiring

\* The types hold in every reachable state.
THEOREM BucketTyped == Spec => []TypeOK
  <1>1. Init => TypeOK
    BY FullTyped DEF Init, TypeOK, Steps
  <1> QED BY <1>1, TypeStep, PTL DEF Spec

\* A grant takes what the allowance of every earlier grant has left.
LEMMA TakeKeepsBound ==
    ASSUME TypeOK, Allowance, NEW c \in Callers, TakeOrNot(c)
    PROVE  Allowance'
  <1> USE BucketAssumption, FullTyped DEF BucketAssumption
  <1> DEFINE full == Capacity * Cost
             n == Len(granted)
  <1>0. /\ full \in Nat
        /\ n \in Nat
        /\ DOMAIN granted = 1 .. n
        /\ \A i \in 1 .. n : granted[i] \in 0 .. lastRefill
        /\ now \in Nat /\ lastRefill \in 0 .. now
        /\ units \in Nat /\ Cost \in Nat
    BY DEF TypeOK, Allowance
  <1>1. Refilled \in 0 .. full /\ Refilled <= units + (now - lastRefill)
    BY RefilledBounds
  <1>2. \A i \in 1 .. n : Spent(i, n) + units <= full + (lastRefill - granted[i])
    BY <1>0 DEF Allowance
  <1>6. \A i \in 1 .. n : Spent(i, n) \in Int
    <2> HIDE DEF n
    <2> QED BY <1>0, SpentGrows
  <1>3. \A i, j \in 1 .. n :
            i <= j => Spent(i, j) <= full + (granted[j] - granted[i])
    BY <1>0 DEF Allowance, GrantsBounded
  <1> HIDE DEF full
  <1>4. CASE granted' = granted /\ units' = Refilled /\ lastRefill' = now
    <2>1. \A i \in 1 .. n :
              Spent(i, n) + Refilled <= full + (now - granted[i])
      BY <1>0, <1>1, <1>2, <1>6, SMTT(30)
    <2>2. \A i \in 1 .. n : granted[i] <= now
      BY <1>0
    <2> QED BY <1>0, <1>3, <1>4, <2>1, <2>2 DEF Allowance, GrantsBounded, Spent, full
  <1>5. CASE /\ Refilled >= Cost
             /\ units' = Refilled - Cost
             /\ granted' = Append(granted, now)
             /\ lastRefill' = now
    <2> DEFINE g == Append(granted, now)
    <2>1. /\ DOMAIN g = 1 .. (n + 1)
          /\ Len(g) = n + 1
          /\ \A i \in 1 .. n : g[i] = granted[i]
          /\ g[n + 1] = now
      BY DEF TypeOK
    <2> HIDE DEF g
    <2>2. \A i \in 1 .. n : Spent(i, n + 1) = Spent(i, n) + Cost
      BY <1>0, SpentGrows
    <2>3. Spent(n + 1, n + 1) = Cost
      BY <1>0, SpentGrows
    <2>4. \A i \in 1 .. (n + 1) :
              Spent(i, n + 1) + (Refilled - Cost) <= full + (now - g[i])
      <3>1. \A i \in 1 .. n :
                Spent(i, n + 1) + (Refilled - Cost) <= full + (now - g[i])
        BY <1>0, <1>1, <1>2, <1>6, <2>1, <2>2, SMTT(30)
      <3>2. Spent(n + 1, n + 1) + (Refilled - Cost) <= full + (now - g[n + 1])
        BY <1>0, <1>1, <2>1, <2>3
      <3> QED BY <1>0, <3>1, <3>2
    <2>5. \A i \in 1 .. (n + 1) : g[i] <= now
      BY <1>0, <2>1
    <2>6. \A i, j \in 1 .. (n + 1) :
              i <= j => Spent(i, j) <= full + (g[j] - g[i])
      <3> SUFFICES ASSUME NEW i \in 1 .. (n + 1), NEW j \in 1 .. (n + 1), i <= j
                   PROVE  Spent(i, j) <= full + (g[j] - g[i])
        OBVIOUS
      <3>1. CASE j <= n
        <4>1. i \in 1 .. n /\ j \in 1 .. n
          BY <1>0, <3>1
        <4> QED BY <1>3, <2>1, <4>1
      <3>2. CASE j = n + 1
        <4>1. Spent(i, n + 1) + (Refilled - Cost) <= full + (now - g[i])
          BY <2>4
        <4>2. Spent(i, n + 1) \in Int
          BY <1>0, SpentGrows
        <4> QED BY <1>0, <1>1, <1>5, <2>1, <3>2, <4>1, <4>2
      <3> QED BY <1>0, <3>1, <3>2
    <2> QED
      BY <1>0, <1>5, <2>1, <2>4, <2>5, <2>6 DEF Allowance, GrantsBounded, Spent, full, g
  <1> QED BY <1>4, <1>5 DEF TakeOrNot

\* Allowance is kept by every step.
LEMMA BoundStep == TypeOK /\ Allowance /\ [Next]_vars => Allowance'
  <1> SUFFICES ASSUME TypeOK, Allowance, [Next]_vars PROVE Allowance'
    OBVIOUS
  <1>1. ASSUME NEW c \in Callers, TakeOrNot(c) PROVE Allowance'
    BY <1>1, TakeKeepsBound
  <1>2. CASE UNCHANGED <<units, lastRefill, granted>>
    BY <1>2 DEF Allowance, GrantsBounded, Spent
  <1> QED BY <1>1, <1>2
          DEF Next, Acquiring, StartAcquire, GiveUpOrSleep, Proceed, Tick, vars

-----------------------------------------------------------------------------
\* The calls that the tokens allow

\* The tokens in the callers' hands are counted, and are no more than the callers.
LEMMA HoldingCounted ==
    /\ IsFiniteSet(Callers) /\ Cardinality(Callers) \in Nat
    /\ IsFiniteSet(Holding) /\ Cardinality(Holding) \in 0 .. Cardinality(Callers)
  <1>1. IsFiniteSet(Callers)
    BY BucketAssumption DEF BucketAssumption
  <1>2. Holding \subseteq Callers
    BY DEF Holding
  <1>3. IsFiniteSet(Holding) /\ Cardinality(Holding) <= Cardinality(Callers)
    BY <1>1, <1>2, FS_Subset
  <1>4. Cardinality(Holding) \in Nat /\ Cardinality(Callers) \in Nat
    BY <1>1, <1>3, FS_CardinalityType
  <1> QED BY <1>1, <1>3, <1>4

\* A grant puts one more token into a caller's hand.
LEMMA TakePairs ==
    ASSUME TypeOK, CallsPaired, NEW c \in Callers, TakeOrNot(c)
    PROVE  CallsPaired'
  <1> SUFFICES ASSUME ~insistent PROVE CallsPaired'
    BY DEF TakeOrNot, CallsPaired
  <1> DEFINE n == Len(granted)
             m == Len(calls)
             N == Cardinality(Callers)
  <1>0. /\ n \in Nat /\ m \in Nat /\ N \in Nat
        /\ DOMAIN granted = 1 .. n /\ DOMAIN calls = 1 .. m
        /\ now \in Nat
        /\ \A k \in 1 .. m : calls[k] \in 0 .. now
        /\ \A g \in 1 .. n : granted[g] \in 0 .. now
    BY HoldingCounted, SMTT(30) DEF TypeOK
  <1>1. /\ caller \in [Callers -> [step : Steps, deadline : Nat]]
        /\ calls' = calls /\ UNCHANGED insistent /\ caller[c].step = "try"
    BY DEF TypeOK, TakeOrNot
  <1>2. /\ n = m + Cardinality(Holding)
        /\ \A k \in 1 .. m : granted[k] <= calls[k]
        /\ \A k \in 1 .. m, g \in 1 .. n : g >= k + N => calls[k] <= granted[g]
        /\ \A i, j \in 1 .. m : i <= j => calls[i] <= calls[j]
    BY <1>0 DEF CallsPaired
  <1>3. CASE granted' = granted /\ caller' = [caller EXCEPT ![c].step = "check"]
    <2>1. Holding' = Holding
      BY <1>1, <1>3 DEF Holding
    <2> QED BY <1>1, <1>3, <2>1 DEF CallsPaired
  <1>4. CASE granted' = Append(granted, now) /\ caller' = [caller EXCEPT ![c].step = "granted"]
    <2> DEFINE h == Append(granted, now)
    <2>1. /\ DOMAIN h = 1 .. (n + 1)
          /\ Len(h) = n + 1
          /\ \A i \in 1 .. n : h[i] = granted[i]
          /\ h[n + 1] = now
      BY DEF TypeOK
    <2>2. Holding' = Holding \union {c} /\ c \notin Holding
      BY <1>1, <1>4 DEF Holding
    <2>3. Cardinality(Holding') = Cardinality(Holding) + 1
      BY <2>2, HoldingCounted, FS_AddElement
    <2> HIDE DEF h, n, m, N
    <2>4. n + 1 = m + (Cardinality(Holding) + 1) /\ m <= n
      BY <1>0, <1>2, HoldingCounted
    <2>5. \A k \in 1 .. m : h[k] <= calls[k]
      BY <1>0, <1>2, <2>1, <2>4
    <2>6. \A k \in 1 .. m, g \in 1 .. (n + 1) : g >= k + N => calls[k] <= h[g]
      BY <1>0, <1>2, <2>1
    <2>7. granted' = h /\ Len(calls) = m /\ Len(h) = m + (Cardinality(Holding) + 1)
      BY <1>4, <2>1, <2>4 DEF h, m
    <2> QED BY <1>0, <1>1, <1>2, <2>1, <2>3, <2>5, <2>6, <2>7 DEF CallsPaired, N
  <1> QED BY <1>3, <1>4 DEF TakeOrNot

\* A call uses up the caller's token; the grants it follows are at most as many
\* more than the calls as there are callers.
LEMMA ProceedPairs ==
    ASSUME TypeOK, CallsPaired, NEW c \in Callers, Proceed(c)
    PROVE  CallsPaired'
  <1> SUFFICES ASSUME ~insistent PROVE CallsPaired'
    BY DEF Proceed, CallsPaired
  <1> DEFINE n == Len(granted)
             m == Len(calls)
             N == Cardinality(Callers)
  <1>0. /\ n \in Nat /\ m \in Nat /\ N \in Nat
        /\ DOMAIN granted = 1 .. n /\ DOMAIN calls = 1 .. m
        /\ now \in Nat
        /\ \A k \in 1 .. m : calls[k] \in 0 .. now
        /\ \A g \in 1 .. n : granted[g] \in 0 .. now
    BY HoldingCounted, SMTT(30) DEF TypeOK
  <1>1. /\ caller \in [Callers -> [step : Steps, deadline : Nat]]
        /\ granted' = granted /\ UNCHANGED insistent
        /\ caller' = [caller EXCEPT ![c].step = "idle"]
    BY DEF TypeOK, Proceed
  <1>2. /\ n = m + Cardinality(Holding)
        /\ \A k \in 1 .. m : granted[k] <= calls[k]
        /\ \A k \in 1 .. m, g \in 1 .. n : g >= k + N => calls[k] <= granted[g]
        /\ \A i, j \in 1 .. m : i <= j => calls[i] <= calls[j]
    BY <1>0 DEF CallsPaired
  <1>3. CASE calls' = calls /\ caller[c].step = "refused"
    <2>1. Holding' = Holding
      BY <1>1, <1>3 DEF Holding
    <2> QED BY <1>1, <1>3, <2>1 DEF CallsPaired
  <1>4. CASE calls' = Append(calls, now) /\ caller[c].step = "granted"
    <2> DEFINE d == Append(calls, now)
    <2>1. /\ DOMAIN d = 1 .. (m + 1)
          /\ Len(d) = m + 1
          /\ \A i \in 1 .. m : d[i] = calls[i]
          /\ d[m + 1] = now
      BY DEF TypeOK
    <2>2. Holding' = Holding \ {c} /\ c \in Holding
      BY <1>1, <1>4 DEF Holding
    <2>3. Cardinality(Holding') = Cardinality(Holding) - 1
      BY <2>2, HoldingCounted, FS_RemoveElement
    <2> HIDE DEF d, n, m, N
    <2>4. n = (m + 1) + (Cardinality(Holding) - 1) /\ m + 1 <= n /\ n <= m + N
      <3>1. Cardinality(Holding) \in 0 .. N /\ Cardinality(Holding) # 0
        BY <2>2, HoldingCounted, FS_EmptySet DEF N
      <3> QED BY <1>0, <1>2, <3>1
    <2>5. \A k \in 1 .. (m + 1) : granted[k] <= d[k]
      BY <1>0, <1>2, <2>1, <2>4
    <2>6. \A k \in 1 .. (m + 1), g \in 1 .. n : g >= k + N => d[k] <= granted[g]
      BY <1>0, <1>2, <2>1, <2>4
    <2>7. \A i, j \in 1 .. (m + 1) : i <= j => d[i] <= d[j]
      BY <1>0, <1>2, <2>1
    <2>8. calls' = d /\ Len(granted) = Len(d) + (Cardinality(Holding) - 1)
      BY <1>4, <2>1, <2>4 DEF d, n
    <2> QED BY <1>0, <1>1, <2>1, <2>3, <2>5, <2>6, <2>7, <2>8 DEF CallsPaired, N
  <1> QED BY <1>3, <1>4 DEF Proceed

\* CallsPaired is kept by every step.
LEMMA PairedStep == TypeOK /\ CallsPaired /\ [Next]_vars => CallsPaired'
  <1> SUFFICES ASSUME TypeOK, CallsPaired, [Next]_vars PROVE CallsPaired'
    OBVIOUS
  <1>1. CASE UNCHANGED <<insistent, granted, calls, Holding>>
    BY <1>1 DEF CallsPaired
  <1>c. caller \in [Callers -> [step : Steps, deadline : Nat]]
    BY DEF TypeOK
  <1>2. ASSUME NEW c \in Callers, StartAcquire(c) PROVE CallsPaired'
    <2>1. Holding' = Holding
      BY <1>2, <1>c DEF StartAcquire, Holding
    <2> QED BY <1>1, <1>2, <2>1 DEF StartAcquire
  <1>3. ASSUME NEW c \in Callers, GiveUpOrSleep(c) PROVE CallsPaired'
    <2>1. Holding' = Holding
      BY <1>3, <1>c DEF GiveUpOrSleep, Holding
    <2> QED BY <1>1, <1>3, <2>1 DEF GiveUpOrSleep
  <1>4. ASSUME NEW c \in Callers, TakeOrNot(c) PROVE CallsPaired'
    BY <1>4, TakePairs
  <1>5. ASSUME NEW c \in Callers, Proceed(c) PROVE CallsPaired'
    BY <1>5, ProceedPairs
  <1>6. CASE Tick \/ UNCHANGED vars
    BY <1>1, <1>6 DEF Tick, vars, Holding
  <1> QED BY <1>2, <1>3, <1>4, <1>5, <1>6 DEF Next, Acquiring

\* The arithmetic of CallsBounded: a few tokens more cost so much more.
LEMMA SpanGrows ==
    ASSUME NEW i \in Nat, NEW j \in Nat, NEW n \in Nat
    PROVE  /\ (j - i) * Cost = Spent(i + n, j) + (n - 1) * Cost
           /\ (Capacity + n - 1) * Cost = Capacity * Cost + (n - 1) * Cost
           /\ (n - 1) * Cost \in Int /\ Spent(i + n, j) \in Int /\ (j - i) * Cost \in Int
           /\ j - i <= n - 1 => (j - i) * Cost <= (n - 1) * Cost
  <1>1. \A c, d \in Nat : /\ (j - i) * c = (j - (i + n) + 1) * c + (n - 1) * c
                          /\ (d + n - 1) * c = d * c + (n - 1) * c
                          /\ (n - 1) * c \in Int /\ (j - (i + n) + 1) * c \in Int
                          /\ (j - i) * c \in Int
    OBVIOUS
  <1>2. \A c \in Nat : \A x, y \in Int : x <= y => x * c <= y * c
    OBVIOUS
  <1> QED BY <1>1, <1>2, BucketAssumption DEF Spent, BucketAssumption

-----------------------------------------------------------------------------
\* The theorems

\* Between any two grants no more tokens are taken than a full bucket holds and
\* the time between them refills, however many threads share the limiter.
THEOREM GrantsCorrect == Spec => []BucketInv
  <1>1. Init => Allowance
    BY DEF Init, Allowance, GrantsBounded
  <1>2. Spec => []Allowance
    BY <1>1, BucketTyped, BoundStep, PTL DEF Spec
  <1>3. Init => CallsPaired
    <2> SUFFICES ASSUME Init PROVE CallsPaired
      OBVIOUS
    <2>1. Holding = {} /\ granted = <<>> /\ calls = <<>>
      BY DEF Init, Holding
    <2> QED BY <2>1, FS_EmptySet DEF CallsPaired
  <1>4. Spec => []CallsPaired
    BY <1>3, BucketTyped, PairedStep, PTL DEF Spec
  <1> QED BY <1>2, <1>4, BucketTyped, PTL DEF BucketInv

\* The calls of a limiter whose callers respect a refusal are bounded like the
\* grants, but for one token in each other caller's hand.
THEOREM CallsCorrect == Spec => []CallsBounded
  <1>1. BucketInv => CallsBounded
    <2> SUFFICES ASSUME BucketInv, ~insistent,
                        NEW i \in DOMAIN calls, NEW j \in DOMAIN calls, i <= j
                 PROVE  (j - i) * Cost <= (Capacity + Cardinality(Callers) - 1) * Cost
                                             + (calls[j] - calls[i])
      BY DEF CallsBounded
    <2> DEFINE n == Len(granted)
               m == Len(calls)
               N == Cardinality(Callers)
               full == Capacity * Cost
    <2>t. /\ now \in Nat /\ granted \in Seq(0 .. now) /\ calls \in Seq(0 .. now)
      BY DEF BucketInv, TypeOK
    <2>0. /\ n \in Nat /\ m \in Nat /\ N \in Nat /\ full \in Nat
          /\ DOMAIN granted = 1 .. n /\ DOMAIN calls = 1 .. m
          /\ \A k \in 1 .. m : calls[k] \in Nat
          /\ \A g \in 1 .. n : granted[g] \in Nat
      BY <2>t, HoldingCounted, FullTyped, SMTT(30)
    <2>1. /\ n = m + Cardinality(Holding)
          /\ \A k \in 1 .. m : granted[k] <= calls[k]
          /\ \A k \in 1 .. m, g \in 1 .. n : g >= k + N => calls[k] <= granted[g]
          /\ calls[i] <= calls[j]
      BY <2>0 DEF BucketInv, CallsPaired
    <2>2. i \in 1 .. m /\ j \in 1 .. m /\ i \in Nat /\ j \in Nat
      BY <2>0
    <2>3. m <= n
      BY <2>0, <2>1, HoldingCounted
    <2>4. /\ (j - i) * Cost = Spent(i + N, j) + (N - 1) * Cost
          /\ (Capacity + N - 1) * Cost = full + (N - 1) * Cost
          /\ (N - 1) * Cost \in Int /\ Spent(i + N, j) \in Int /\ (j - i) * Cost \in Int
          /\ j - i <= N - 1 => (j - i) * Cost <= (N - 1) * Cost
      BY <2>0, <2>2, SpanGrows
    <2> HIDE DEF n, m, full
    <2>5. CASE i + N <= j
      <3>1. i + N \in 1 .. n /\ j \in 1 .. n
        BY <2>0, <2>2, <2>3, <2>5, SMTT(30)
      <3>2. Spent(i + N, j) <= full + (granted[j] - granted[i + N])
        BY <2>0, <2>5, <3>1 DEF BucketInv, Allowance, GrantsBounded, full
      <3>3. granted[j] <= calls[j] /\ calls[i] <= granted[i + N]
        BY <2>1, <2>2, <3>1
      <3>4. /\ granted[j] \in Nat /\ granted[i + N] \in Nat
            /\ calls[i] \in Nat /\ calls[j] \in Nat
        BY <2>0, <2>2, <3>1
      <3> HIDE DEF N
      <3>5. Spent(i + N, j) <= full + (calls[j] - calls[i])
        <4>1. Spent(i + N, j) \in Int /\ full \in Nat
          BY <2>0, <2>4
        <4> QED BY <3>2, <3>3, <3>4, <4>1
      <3>6. (j - i) * Cost <= (Capacity + N - 1) * Cost + (calls[j] - calls[i])
        BY <2>0, <2>4, <3>4, <3>5, SMTT(30)
      <3> QED BY <3>6 DEF N
    <2>6. CASE ~(i + N <= j)
      <3>1. j - i <= N - 1
        BY <2>0, <2>2, <2>6
      <3>2. calls[i] \in Nat /\ calls[j] \in Nat
        BY <2>0, <2>2
      <3> HIDE DEF N
      <3>3. (j - i) * Cost <= (Capacity + N - 1) * Cost + (calls[j] - calls[i])
        BY <2>0, <2>1, <2>4, <3>1, <3>2, SMTT(30)
      <3> QED BY <3>3 DEF N
    <2> QED BY <2>5, <2>6
  <1> QED BY <1>1, GrantsCorrect, PTL



-----------------------------------------------------------------------------
\* The calendar

\* Among any three successive days one is a business day; the walk back ends
\* on the latest.
LEMMA PrevFacts ==
    ASSUME NEW d \in Int
    PROVE  /\ PrevBusiness(d) \in d - 3 .. d - 1
           /\ Business(PrevBusiness(d))
           /\ \A x \in PrevBusiness(d) + 1 .. d - 1 : ~Business(x)
  <1> DEFINE P(e) == Business(e) /\ \A x \in e + 1 .. d - 1 : ~Business(x)
  <1>1. \E e \in d - 3 .. d - 1 : P(e)
    <2>1. CASE Business(d - 1)
      <3>1. P(d - 1)
        BY <2>1
      <3> QED BY <3>1
    <2>2. CASE ~Business(d - 1) /\ Business(d - 2)
      <3>1. P(d - 2)
        BY <2>2
      <3> QED BY <3>1
    <2>3. CASE ~Business(d - 1) /\ ~Business(d - 2)
      <3>1. Business(d - 3)
        BY <2>3 DEF Business
      <3>2. P(d - 3)
        BY <2>3, <3>1
      <3> QED BY <3>2
    <2> QED BY <2>1, <2>2, <2>3
  <1>2. P(CHOOSE e \in d - 3 .. d - 1 : P(e)) /\ (CHOOSE e \in d - 3 .. d - 1 : P(e)) \in d - 3 .. d - 1
    BY <1>1
  <1> QED BY <1>2 DEF PrevBusiness

LEMMA CutoffFacts ==
    ASSUME NEW d \in Int
    PROVE  /\ FirstOfFive(d) \in Int /\ BusinessDaysAgo(d) \in Int
           /\ FirstOfFive(d) < d
           /\ BusinessDaysAgo(d) < FirstOfFive(d)
           /\ Business(BusinessDaysAgo(d))
  <1> DEFINE p1 == PrevBusiness(d)
             p2 == PrevBusiness(p1)
             p3 == PrevBusiness(p2)
             p4 == PrevBusiness(p3)
             p5 == PrevBusiness(p4)
  <1>1. p1 \in Int /\ p1 < d
    BY PrevFacts
  <1> HIDE DEF p1
  <1>2. p2 \in Int /\ p2 < p1
    BY <1>1, PrevFacts
  <1> HIDE DEF p2
  <1>3. p3 \in Int /\ p3 < p2
    BY <1>2, PrevFacts
  <1> HIDE DEF p3
  <1>4. p4 \in Int /\ p4 < p3
    BY <1>3, PrevFacts
  <1> HIDE DEF p4
  <1>5. p5 \in Int /\ p5 < p4 /\ Business(p5)
    BY <1>4, PrevFacts
  <1>6. FirstOfFive(d) = p4 /\ BusinessDaysAgo(d) = p5
    BY DEF FirstOfFive, BusinessDaysAgo, p1, p2, p3, p4
  <1> HIDE DEF p5
  <1> QED BY <1>1, <1>2, <1>3, <1>4, <1>5, <1>6

-----------------------------------------------------------------------------
\* The walks over the calendar

\* The walk forward ends on the next business day.
LEMMA NextFacts ==
    ASSUME NEW d \in Int
    PROVE  /\ NextBusiness(d) \in d + 1 .. d + 3
           /\ Business(NextBusiness(d))
           /\ \A x \in d + 1 .. NextBusiness(d) - 1 : ~Business(x)
  <1> DEFINE P(e) == Business(e) /\ \A x \in d + 1 .. e - 1 : ~Business(x)
  <1>1. \E e \in d + 1 .. d + 3 : P(e)
    <2>1. CASE Business(d + 1)
      <3>1. P(d + 1)
        BY <2>1
      <3> QED BY <3>1
    <2>2. CASE ~Business(d + 1) /\ Business(d + 2)
      <3>1. P(d + 2)
        BY <2>2
      <3> QED BY <3>1
    <2>3. CASE ~Business(d + 1) /\ ~Business(d + 2)
      <3>1. Business(d + 3)
        BY <2>3 DEF Business
      <3>2. P(d + 3)
        BY <2>3, <3>1
      <3> QED BY <3>2
    <2> QED BY <2>1, <2>2, <2>3
  <1>2. P(CHOOSE e \in d + 1 .. d + 3 : P(e)) /\ (CHOOSE e \in d + 1 .. d + 3 : P(e)) \in d + 1 .. d + 3
    BY <1>1
  <1> QED BY <1>2 DEF NextBusiness

\* The same about both walks, without intervals.
LEMMA WalkBack ==
    ASSUME NEW d \in Int
    PROVE  /\ PrevBusiness(d) \in Int /\ PrevBusiness(d) < d /\ Business(PrevBusiness(d))
           /\ \A x \in Int : PrevBusiness(d) < x /\ x < d => ~Business(x)
  <1> DEFINE p == PrevBusiness(d)
  <1>1. p \in d - 3 .. d - 1 /\ Business(p) /\ \A x \in p + 1 .. d - 1 : ~Business(x)
    BY PrevFacts
  <1> HIDE DEF p
  <1>2. p \in Int /\ p < d /\ \A x \in Int : p < x /\ x < d => ~Business(x)
    BY <1>1
  <1> QED BY <1>1, <1>2 DEF p

LEMMA WalkForth ==
    ASSUME NEW d \in Int
    PROVE  /\ NextBusiness(d) \in Int /\ d < NextBusiness(d) /\ Business(NextBusiness(d))
           /\ \A x \in Int : d < x /\ x < NextBusiness(d) => ~Business(x)
  <1> DEFINE n == NextBusiness(d)
  <1>1. n \in d + 1 .. d + 3 /\ Business(n) /\ \A x \in d + 1 .. n - 1 : ~Business(x)
    BY NextFacts
  <1> HIDE DEF n
  <1>2. n \in Int /\ d < n /\ \A x \in Int : d < x /\ x < n => ~Business(x)
    BY <1>1
  <1> QED BY <1>1, <1>2 DEF n

\* No business day lies between a date and the end of its walk back.
LEMMA PrevIsLatest ==
    ASSUME NEW d \in Int, NEW x \in Int, Business(x), x < d
    PROVE  x <= PrevBusiness(d)
  BY WalkBack

\* The walk back from a later date ends no earlier.
LEMMA PrevMonotone ==
    ASSUME NEW d \in Int, NEW e \in Int, d <= e
    PROVE  PrevBusiness(d) <= PrevBusiness(e)
  <1>1. PrevBusiness(d) \in Int /\ PrevBusiness(d) < d /\ Business(PrevBusiness(d))
    BY WalkBack
  <1>2. PrevBusiness(d) < e
    BY <1>1
  <1> QED BY <1>1, <1>2, PrevIsLatest

\* From a business day, one walk undoes the other.
LEMMA PrevOfNext ==
    ASSUME NEW d \in Int, Business(d)
    PROVE  PrevBusiness(NextBusiness(d)) = d
  <1> DEFINE e == NextBusiness(d)
             p == PrevBusiness(e)
  <1>1. e \in Int /\ d < e /\ \A x \in Int : d < x /\ x < e => ~Business(x)
    BY WalkForth
  <1> HIDE DEF e
  <1>2. p \in Int /\ p < e /\ Business(p) /\ d <= p
    BY <1>1, WalkBack, PrevIsLatest
  <1> HIDE DEF p
  <1>3. p = d
    BY <1>1, <1>2
  <1> QED BY <1>3 DEF p, e

\* The five business days that end with a later date start no earlier, and those
\* before a later date neither.
LEMMA CutoffMonotone ==
    ASSUME NEW d \in Int, NEW e \in Int, d <= e
    PROVE  /\ FirstOfFive(d) <= FirstOfFive(e)
           /\ BusinessDaysAgo(d) <= BusinessDaysAgo(e)
  <1> DEFINE a1 == PrevBusiness(d)  b1 == PrevBusiness(e)
             a2 == PrevBusiness(a1) b2 == PrevBusiness(b1)
             a3 == PrevBusiness(a2) b3 == PrevBusiness(b2)
             a4 == PrevBusiness(a3) b4 == PrevBusiness(b3)
  <1>1. a1 \in Int /\ b1 \in Int /\ a1 <= b1
    BY WalkBack, PrevMonotone
  <1> HIDE DEF a1, b1
  <1>2. a2 \in Int /\ b2 \in Int /\ a2 <= b2
    BY <1>1, WalkBack, PrevMonotone
  <1> HIDE DEF a2, b2
  <1>3. a3 \in Int /\ b3 \in Int /\ a3 <= b3
    BY <1>2, WalkBack, PrevMonotone
  <1> HIDE DEF a3, b3
  <1>4. a4 \in Int /\ b4 \in Int /\ a4 <= b4
    BY <1>3, WalkBack, PrevMonotone
  <1>5. FirstOfFive(d) = a4 /\ FirstOfFive(e) = b4
    BY DEF a1, a2, a3, b1, b2, b3, FirstOfFive
  <1> HIDE DEF a4, b4
  <1> QED BY <1>4, <1>5, PrevMonotone DEF BusinessDaysAgo

\* Five business days after day trade d, and the business day after those.
Fifth(d) == NextBusiness(NextBusiness(NextBusiness(NextBusiness(NextBusiness(d)))))

\* A day trade is on the cutoff of the fifth business day after it, and the next
\* business day's cutoff is later.
LEMMA CutoffOfFifth ==
    ASSUME NEW d \in Int, Business(d)
    PROVE  /\ Fifth(d) \in Int /\ d < Fifth(d) /\ Business(Fifth(d))
           /\ BusinessDaysAgo(Fifth(d)) = d
           /\ FirstOfFive(Fifth(d)) = NextBusiness(d)
           /\ BusinessDaysAgo(NextBusiness(Fifth(d))) = NextBusiness(d)
           /\ d < NextBusiness(d)
  <1> DEFINE n1 == NextBusiness(d)
             n2 == NextBusiness(n1)
             n3 == NextBusiness(n2)
             n4 == NextBusiness(n3)
             n5 == NextBusiness(n4)
             n6 == NextBusiness(n5)
  <1>1. n1 \in Int /\ Business(n1) /\ d < n1 /\ PrevBusiness(n1) = d
    BY WalkForth, PrevOfNext
  <1> HIDE DEF n1
  <1>2. n2 \in Int /\ Business(n2) /\ n1 < n2 /\ PrevBusiness(n2) = n1
    BY <1>1, WalkForth, PrevOfNext
  <1> HIDE DEF n2
  <1>3. n3 \in Int /\ Business(n3) /\ n2 < n3 /\ PrevBusiness(n3) = n2
    BY <1>2, WalkForth, PrevOfNext
  <1> HIDE DEF n3
  <1>4. n4 \in Int /\ Business(n4) /\ n3 < n4 /\ PrevBusiness(n4) = n3
    BY <1>3, WalkForth, PrevOfNext
  <1> HIDE DEF n4
  <1>5. n5 \in Int /\ Business(n5) /\ n4 < n5 /\ PrevBusiness(n5) = n4
    BY <1>4, WalkForth, PrevOfNext
  <1> HIDE DEF n5
  <1>6. n6 \in Int /\ PrevBusiness(n6) = n5
    BY <1>5, WalkForth, PrevOfNext
  <1> HIDE DEF n6
  <1>7. Fifth(d) = n5 /\ NextBusiness(Fifth(d)) = n6 /\ NextBusiness(d) = n1
    BY DEF Fifth, n1, n2, n3, n4, n5, n6
  <1>8. /\ FirstOfFive(n5) = n1
        /\ BusinessDaysAgo(n5) = d
        /\ BusinessDaysAgo(n6) = n1
    BY <1>1, <1>2, <1>3, <1>4, <1>5, <1>6 DEF FirstOfFive, BusinessDaysAgo
  <1> QED BY <1>1, <1>2, <1>3, <1>4, <1>5, <1>7, <1>8

\* From the cutoff of any date to the day before it there are five business days.
LEMMA FiveDays ==
    ASSUME NEW d \in Int
    PROVE  Cardinality({x \in BusinessDaysAgo(d) .. d - 1 : Business(x)}) = 5
  <1> DEFINE p1 == PrevBusiness(d)
             p2 == PrevBusiness(p1)
             p3 == PrevBusiness(p2)
             p4 == PrevBusiness(p3)
             p5 == PrevBusiness(p4)
             Between(p, e) == \A x \in Int : p < x /\ x < e => ~Business(x)
  <1>1. p1 \in Int /\ Business(p1) /\ p1 < d /\ Between(p1, d)
    BY WalkBack
  <1> HIDE DEF p1
  <1>2. p2 \in Int /\ Business(p2) /\ p2 < p1 /\ Between(p2, p1)
    BY <1>1, WalkBack
  <1> HIDE DEF p2
  <1>3. p3 \in Int /\ Business(p3) /\ p3 < p2 /\ Between(p3, p2)
    BY <1>2, WalkBack
  <1> HIDE DEF p3
  <1>4. p4 \in Int /\ Business(p4) /\ p4 < p3 /\ Between(p4, p3)
    BY <1>3, WalkBack
  <1> HIDE DEF p4
  <1>5. p5 \in Int /\ Business(p5) /\ p5 < p4 /\ Between(p5, p4)
    BY <1>4, WalkBack
  <1> HIDE DEF p5
  <1>6. BusinessDaysAgo(d) = p5
    BY DEF FirstOfFive, BusinessDaysAgo, p1, p2, p3, p4, p5
  <1>7. {x \in p5 .. d - 1 : Business(x)} = {p1, p2, p3, p4, p5}
    <2>1. ASSUME NEW x \in p5 .. d - 1, Business(x) PROVE x \in {p1, p2, p3, p4, p5}
      <3>1. x \in Int /\ p5 <= x /\ x < d
        BY <1>5, <2>1
      <3>2. x <= p1
        BY <1>1, <2>1, <3>1
      <3>3. x = p1 \/ x <= p2
        BY <1>1, <1>2, <2>1, <3>1, <3>2
      <3>4. x = p1 \/ x = p2 \/ x <= p3
        BY <1>2, <1>3, <2>1, <3>1, <3>3
      <3>5. x = p1 \/ x = p2 \/ x = p3 \/ x <= p4
        BY <1>3, <1>4, <2>1, <3>1, <3>4
      <3>6. x = p1 \/ x = p2 \/ x = p3 \/ x = p4 \/ x <= p5
        BY <1>4, <1>5, <2>1, <3>1, <3>5
      <3> QED BY <1>5, <3>1, <3>6
    <2>2. {p1, p2, p3, p4, p5} \subseteq p5 .. d - 1
      BY <1>1, <1>2, <1>3, <1>4, <1>5
    <2> QED BY <1>1, <1>2, <1>3, <1>4, <1>5, <2>1, <2>2
  <1> HIDE DEF Between
  <1>8. /\ p2 \notin {p1} /\ p3 \notin {p1, p2} /\ p4 \notin {p1, p2, p3}
        /\ p5 \notin {p1, p2, p3, p4}
    BY <1>1, <1>2, <1>3, <1>4, <1>5
  <1>9. IsFiniteSet({p1}) /\ Cardinality({p1}) = 1
    BY FS_Singleton
  <1>10. IsFiniteSet({p1, p2}) /\ Cardinality({p1, p2}) = 2
    <2>1. {p1, p2} = {p1} \union {p2}
      OBVIOUS
    <2> QED BY <1>8, <1>9, <2>1, FS_AddElement
  <1>11. IsFiniteSet({p1, p2, p3}) /\ Cardinality({p1, p2, p3}) = 3
    <2>1. {p1, p2, p3} = {p1, p2} \union {p3}
      OBVIOUS
    <2> QED BY <1>8, <1>10, <2>1, FS_AddElement
  <1>12. IsFiniteSet({p1, p2, p3, p4}) /\ Cardinality({p1, p2, p3, p4}) = 4
    <2>1. {p1, p2, p3, p4} = {p1, p2, p3} \union {p4}
      OBVIOUS
    <2> QED BY <1>8, <1>11, <2>1, FS_AddElement
  <1>13. Cardinality({p1, p2, p3, p4, p5}) = 5
    <2>1. {p1, p2, p3, p4, p5} = {p1, p2, p3, p4} \union {p5}
      OBVIOUS
    <2> QED BY <1>8, <1>12, <2>1, FS_AddElement
  <1> QED BY <1>6, <1>7, <1>13

\* A set of dates since the first has an earliest one.
LEMMA Earliest ==
    ASSUME NEW T, T \subseteq Nat, T # {}
    PROVE  \E d \in T : \A e \in T : d <= e
  <1>1. PICK d \in T : \A e \in T : <<e, d>> \notin OpToRel(<, Nat)
    BY WFMin, NatLessThanWellFounded, ZenonT(30)
  <1>2. ASSUME NEW e \in T PROVE d <= e
    <2>1. ~(e < d)
      BY <1>1, <1>2 DEF OpToRel
    <2> QED BY <2>1
  <1> QED BY <1>2

\* The oldest day trade that counts is a business day from the cutoff to today, and
\* no other one that counts is older.
LEMMA OldestFacts ==
    ASSUME GuardInv, InWindow # {}
    PROVE  /\ Oldest \in Int /\ Business(Oldest)
           /\ Oldest >= BusinessDaysAgo(today)
           /\ Oldest <= today
  <1> DEFINE T == {dayTrades[i] : i \in InWindow}
  <1>1. today \in Nat /\ dayTrades \in Seq(0 .. today)
    BY DEF GuardInv, GuardTypeOK
  <1>2. \A i \in InWindow : /\ i \in DOMAIN dayTrades
                            /\ dayTrades[i] \in 0 .. today
                            /\ dayTrades[i] >= BusinessDaysAgo(today)
    BY <1>1 DEF InWindow
  <1>3. \A d \in T : /\ d \in 0 .. today
                     /\ d >= BusinessDaysAgo(today)
                     /\ Business(d)
    BY <1>2 DEF GuardInv
  <1>4. T # {} /\ T \subseteq Nat
    BY <1>1, <1>3
  <1>5. \E d \in T : \A e \in T : d <= e
    <2> HIDE DEF T
    <2> QED BY <1>4, Earliest
  <1>6. \E d \in T : \A i \in InWindow : d <= dayTrades[i]
    BY <1>5
  <1>7. Oldest \in T
    BY <1>6 DEF Oldest
  <1> HIDE DEF T
  <1> QED BY <1>1, <1>3, <1>7

\* A day trade counts exactly if at most five business days lie between it and today,
\* its own included and today's not.
LEMMA WindowHolds == GuardInv => WindowExact
  <1> SUFFICES ASSUME GuardInv PROVE WindowExact
    OBVIOUS
  <1> DEFINE c    == BusinessDaysAgo(today)
             B(x) == {d \in x .. today - 1 : Business(d)}
  <1>1. /\ today \in Int /\ c \in Int /\ c < today
        /\ Cardinality(B(c)) = 5
    <2>1. today \in Int
      BY DEF GuardInv, GuardTypeOK
    <2> QED BY <2>1, CutoffFacts, FiveDays
  <1>2. ASSUME NEW i \in DOMAIN dayTrades
        PROVE  dayTrades[i] \in Int /\ Business(dayTrades[i])
    BY DEF GuardInv, GuardTypeOK
  <1>3. \A x \in Int : IsFiniteSet(B(x))
    <2>1. \A x \in Int : IsFiniteSet(x .. today - 1)
      BY <1>1, FS_Interval
    <2>2. \A x \in Int : B(x) \subseteq x .. today - 1
      OBVIOUS
    <2> HIDE DEF B
    <2> QED BY <2>1, <2>2, FS_Subset
  <1>4. ASSUME NEW x \in Int, Business(x)
        PROVE  x >= c <=> Cardinality(B(x)) <= 5
    <2>1. CASE x >= c
      <3>1. B(x) \subseteq B(c)
        BY <1>1, <2>1
      <3> HIDE DEF B, c
      <3>2. Cardinality(B(x)) <= Cardinality(B(c))
        BY <1>1, <1>3, <3>1, FS_Subset
      <3> QED BY <1>1, <2>1, <3>2
    <2>2. CASE x < c
      <3>1. x \notin B(c) /\ B(c) \union {x} \subseteq B(x)
        BY <1>1, <1>4, <2>2
      <3> HIDE DEF B, c
      <3>2. /\ IsFiniteSet(B(c) \union {x})
            /\ Cardinality(B(c) \union {x}) = 6
        BY <1>1, <1>3, <3>1, FS_AddElement
      <3>3. /\ Cardinality(B(c) \union {x}) <= Cardinality(B(x))
            /\ Cardinality(B(x)) \in Nat
        BY <1>3, <3>1, FS_Subset, FS_CardinalityType
      <3> QED BY <1>1, <2>2, <3>2, <3>3
    <2> QED BY <1>1, <2>1, <2>2
  <1>5. \A i \in DOMAIN dayTrades : dayTrades[i] >= c <=> Cardinality(B(dayTrades[i])) <= 5
    <2> HIDE DEF B, c
    <2> QED BY <1>2, <1>4
  <1> QED BY <1>5 DEF WindowExact, InWindow

-----------------------------------------------------------------------------
(***************************************************************************)
(* Where the guard and its documentation disagree, and by how much.        *)
(***************************************************************************)

\* The docstring of get_reset_date: it is "the first day it no longer counts".
GoneOnReset == Oldest < BusinessDaysAgo(ResetDate)

\* The oldest day trade counts on that date and on every one before, and first does
\* not on the next business day.
ResetOneDayEarly ==
    InWindow # {} =>
        /\ ResetDate >= today
        /\ ~GoneOnReset
        /\ \A d \in today .. ResetDate : Oldest >= BusinessDaysAgo(d)
        /\ Oldest < BusinessDaysAgo(NextBusiness(ResetDate))

\* The module's head: "3 day trades per rolling 5 business-day window".  The guard
\* counts those in the five business days up to today, and besides exactly those of
\* the business day before them.
InLastFive == {i \in DOMAIN dayTrades : dayTrades[i] >= FirstOfFive(today)}
WindowOneDayLong ==
    Business(today) =>
        InWindow = InLastFive \union {i \in DOMAIN dayTrades :
                                         dayTrades[i] = BusinessDaysAgo(today)}

\* Between the cutoff and the five business days there is no other business day.
LEMMA WindowLongHolds == GuardInv => WindowOneDayLong
  <1> SUFFICES ASSUME GuardInv PROVE WindowOneDayLong
    OBVIOUS
  <1> DEFINE c == BusinessDaysAgo(today)
             f == FirstOfFive(today)
  <1>1. today \in Int
    BY DEF GuardInv, GuardTypeOK
  <1>2. f \in Int /\ c \in Int /\ c < f
    BY <1>1, CutoffFacts
  <1>3. \A x \in Int : c < x /\ x < f => ~Business(x)
    <2>1. c = PrevBusiness(f)
      BY DEF BusinessDaysAgo
    <2> HIDE DEF c, f
    <2> QED BY <1>2, <2>1, WalkBack
  <1>4. ASSUME NEW i \in DOMAIN dayTrades
        PROVE  dayTrades[i] \in Int /\ Business(dayTrades[i])
    BY DEF GuardInv, GuardTypeOK
  <1>5. \A i \in DOMAIN dayTrades :
           dayTrades[i] >= c <=> dayTrades[i] >= f \/ dayTrades[i] = c
    <2> HIDE DEF c, f
    <2> QED BY <1>2, <1>3, <1>4
  <1> QED BY <1>5 DEF WindowOneDayLong, InWindow, InLastFive

\* That is so in every state in which the guard can be.
LEMMA ResetEarlyHolds == GuardInv => ResetOneDayEarly
  <1> SUFFICES ASSUME GuardInv PROVE ResetOneDayEarly
    OBVIOUS
  <1>1. today \in Nat /\ today \in Int
    BY DEF GuardInv, GuardTypeOK
  <1>2. ASSUME InWindow # {}
        PROVE  /\ ResetDate >= today
               /\ ~GoneOnReset
               /\ \A d \in today .. ResetDate : Oldest >= BusinessDaysAgo(d)
               /\ Oldest < BusinessDaysAgo(NextBusiness(ResetDate))
    <2> DEFINE o == Oldest
               r == ResetDate
    <2>1. o \in Int /\ Business(o) /\ o >= BusinessDaysAgo(today)
      BY <1>2, OldestFacts
    <2>2. r = Fifth(o)
      BY DEF ResetDate, Fifth
    <2> HIDE DEF o, r
    <2>3. /\ r \in Int /\ Business(r)
          /\ BusinessDaysAgo(r) = o
          /\ FirstOfFive(r) = NextBusiness(o)
          /\ BusinessDaysAgo(NextBusiness(r)) = NextBusiness(o)
          /\ o < NextBusiness(o) /\ NextBusiness(o) \in Int
      BY <2>1, <2>2, CutoffOfFifth, WalkForth
    <2>4. r >= today
      <3> SUFFICES ASSUME r < today PROVE FALSE
        BY <1>1, <2>3
      <3> DEFINE p == PrevBusiness(today)
      <3>1. p \in Int /\ r <= p
        BY <1>1, <2>3, PrevIsLatest, WalkBack
      <3>2. BusinessDaysAgo(today) = FirstOfFive(p)
        BY DEF BusinessDaysAgo, FirstOfFive
      <3> HIDE DEF p
      <3>3. FirstOfFive(r) <= FirstOfFive(p) /\ FirstOfFive(p) \in Int
        BY <2>3, <3>1, CutoffFacts, CutoffMonotone
      <3> QED BY <2>1, <2>3, <3>2, <3>3
    <2>5. \A d \in today .. r : o >= BusinessDaysAgo(d)
      <3>1. ASSUME NEW d \in today .. r PROVE BusinessDaysAgo(d) <= o
        BY <1>1, <2>3, CutoffMonotone
      <3>2. \A d \in today .. r : d \in Int /\ BusinessDaysAgo(d) \in Int
        BY <1>1, <2>3, CutoffFacts
      <3> QED BY <2>1, <3>1, <3>2
    <2>6. o < BusinessDaysAgo(NextBusiness(r))
      BY <2>3
    <2>7. ~(o < BusinessDaysAgo(r))
      BY <2>1, <2>3
    <2> QED BY <2>4, <2>5, <2>6, <2>7 DEF GoneOnReset, o, r
  <1> QED BY <1>2 DEF ResetOneDayEarly

-----------------------------------------------------------------------------
\* The bounded deque decides like the full history: what it has forgotten is
\* either out of the window, or followed by enough day trades that are in it.
LEMMA DequeDecides ==
    ASSUME GuardInv
    PROVE  /\ DecisionExact
           /\ IsFiniteSet(InWindowEver)
           /\ IsFiniteSet(InWindow)
  <1> DEFINE m == Len(dayTrades)
             n == Len(history)
             M == n - m
             c == BusinessDaysAgo(today)
             A == InWindow
             B == InWindowEver
             C == {i + M : i \in A}
             f == [i \in A |-> i + M]
  <1>1. m \in Nat /\ n \in Nat /\ M \in Nat /\ c \in Int /\ today \in Nat
    <2>1. today \in Int /\ today \in Nat /\ m \in Nat /\ n \in Nat
      BY DEF GuardInv, GuardTypeOK
    <2>2. m = IF n <= MaxLen THEN n ELSE MaxLen
      BY DEF GuardInv
    <2>3. c \in Int
      BY <2>1, CutoffFacts
    <2> HIDE DEF m, n, c
    <2> QED BY <2>1, <2>2, <2>3, GuardAssumption DEF GuardAssumption
  <1>2. /\ A = {i \in 1 .. m : dayTrades[i] >= c}
        /\ B = {i \in 1 .. n : history[i] >= c}
    BY DEF InWindow, InWindowEver, GuardInv, GuardTypeOK
  <1>3. \A i \in 1 .. m : /\ dayTrades[i] \in Int
                          /\ dayTrades[i] = history[M + i]
    BY SMTT(30) DEF GuardInv, GuardTypeOK, Forgotten
  <1>4. /\ \A i \in 1 .. n : history[i] \in Int
        /\ \A i, j \in 1 .. n : i <= j => history[i] <= history[j]
    BY SMTT(30) DEF GuardInv, GuardTypeOK
  <1>5. /\ M > 0 => m = MaxLen
        /\ MaxLen \in Nat /\ MaxDayTrades \in Nat /\ MaxDayTrades <= MaxLen
    BY <1>1, GuardAssumption DEF GuardInv, GuardAssumption
  <1> HIDE DEF m, n, M, c, A, B
  <1>6. IsFiniteSet(A) /\ IsFiniteSet(B)
    <2>1. A \in SUBSET (1 .. m) /\ B \in SUBSET (1 .. n) /\ m \in Int /\ n \in Int
      BY <1>1, <1>2
    <2>2. IsFiniteSet(1 .. m) /\ IsFiniteSet(1 .. n)
      BY <2>1, FS_Interval
    <2> QED BY <2>1, <2>2, FS_Subset
  <1>7. Cardinality(C) = Cardinality(A)
    <2>1. f \in Bijection(A, C)
      <3>1. f \in [A -> C]
        OBVIOUS
      <3>2. \A a, b \in A : f[a] = f[b] => a = b
        BY <1>1, <1>2
      <3>3. \A t \in C : \E s \in A : f[s] = t
        OBVIOUS
      <3> HIDE DEF f
      <3> QED BY <3>1, <3>2, <3>3 DEF Bijection, Injection, Surjection, IsInjective
    <2>2. ExistsBijection(A, C)
      BY <2>1 DEF ExistsBijection
    <2> QED BY <2>2, <1>6, FS_Bijection
  <1>8. C \subseteq B
    <2> SUFFICES ASSUME NEW i \in A
                 PROVE  i + M \in B
      OBVIOUS
    <2>1. i \in 1 .. m /\ history[M + i] >= c /\ i + M = M + i
      BY <1>1, <1>2, <1>3
    <2>2. i + M \in 1 .. n
      BY <2>1, <1>1 DEF M
    <2> QED BY <2>1, <2>2, <1>2
  <1>9. /\ Cardinality(A) \in Nat /\ Cardinality(B) \in Nat
        /\ Cardinality(A) <= Cardinality(B)
    BY <1>6, <1>7, <1>8, FS_CardinalityType, FS_Subset
  <1>10. Cardinality(A) < MaxDayTrades <=> Cardinality(B) < MaxDayTrades
    <2>1. CASE B = C
      BY <2>1, <1>7
    <2>2. CASE B # C
      <3>1. PICK j \in B : j \notin C
        BY <2>2, <1>8
      <3>2. j \in 1 .. n /\ history[j] >= c
        BY <1>2
      <3>3. j <= M
        <4> SUFFICES ASSUME j > M
                     PROVE  FALSE
          BY <1>1, <3>2
        <4>1. j - M \in 1 .. m /\ M + (j - M) = j /\ (j - M) + M = j
          BY <1>1, <3>2 DEF M
        <4>2. j - M \in A
          BY <4>1, <3>2, <1>2, <1>3
        <4> QED BY <4>1, <4>2, <3>1
      <3>4. A = 1 .. m
        <4> SUFFICES ASSUME NEW i \in 1 .. m
                     PROVE  dayTrades[i] >= c
          BY <1>2
        <4>1. M + i \in 1 .. n /\ j <= M + i
          BY <1>1, <3>2, <3>3 DEF M
        <4>2. history[j] <= history[M + i]
          BY <4>1, <3>2, <1>4
        <4> QED BY <4>1, <4>2, <3>2, <1>1, <1>3, <1>4
      <3>5. m = MaxLen
        BY <3>2, <3>3, <1>1, <1>5
      <3>6. Cardinality(A) = m
        BY <3>4, <1>1, FS_Interval
      <3> QED BY <3>5, <3>6, <1>5, <1>9
    <2> QED BY <2>1, <2>2
  <1>11. A = InWindow /\ B = InWindowEver
    BY DEF A, B
  <1> QED BY <1>6, <1>10, <1>11 DEF DecisionExact, CanExit, RollingCount

-----------------------------------------------------------------------------
\* The rule

\* An index up to n + 1 is the last or an earlier one.
LEMMA LastOrEarlier ==
    \A n \in Nat : \A j \in 1 .. (n + 1) : j \in 1 .. n \/ j = n + 1
  OBVIOUS

LEMMA InitInv == GuardInit => GuardInv
  <1> SUFFICES ASSUME GuardInit
               PROVE  GuardInv
    OBVIOUS
  <1>1. today = 0 /\ dayTrades = <<>> /\ history = <<>>
    BY DEF GuardInit
  <1> QED BY <1>1, GuardAssumption DEF GuardInv, GuardTypeOK, PdtRule, Forgotten, GuardAssumption

\* Another day: the dates on record stay dates of the past.
LEMMA NextDayStep ==
    ASSUME GuardInv, NextDay
    PROVE  GuardInv'
  <1>1. /\ today \in Nat
        /\ today' = today + 1 /\ dayTrades' = dayTrades /\ history' = history
    BY DEF GuardInv, GuardTypeOK, NextDay
  <1>2. \A s \in Seq(0 .. today) : s \in Seq(0 .. (today + 1))
    BY <1>1
  <1>3. GuardTypeOK'
    BY <1>1, <1>2 DEF GuardInv, GuardTypeOK
  <1>4. PdtRule'
    BY <1>1 DEF GuardInv, PdtRule
  <1> QED BY <1>1, <1>3, <1>4 DEF GuardInv, Forgotten

\* A permitted day trade is not one too many: those of its five business days
\* are it and some of the window that was counted.
LEMMA DayTradeRule ==
    ASSUME GuardInv, DayTrade
    PROVE  PdtRule'
  <1> DEFINE n == Len(history)
             S(h, i) == {j \in 1 .. i : h[j] >= FirstOfFive(h[i])}
  <1>1. /\ today \in Nat /\ today \in Int
        /\ history \in Seq(0 .. today) /\ n \in Nat
        /\ history' = Append(history, today)
    BY DEF GuardInv, GuardTypeOK, DayTrade
  <1>2. /\ DOMAIN history' = 1 .. (n + 1)
        /\ \A i \in 1 .. n : history'[i] = history[i] /\ history[i] \in Int
        /\ history'[n + 1] = today
        /\ DOMAIN history = 1 .. n
    BY <1>1
  <1> HIDE DEF n
  <1> SUFFICES ASSUME NEW i \in 1 .. (n + 1)
               PROVE  Cardinality(S(history', i)) <= MaxDayTrades
    BY <1>2 DEF PdtRule
  <1>3. CASE i \in 1 .. n
    <2>1. S(history', i) = S(history, i)
      BY <1>1, <1>2, <1>3
    <2> QED BY <2>1, <1>2, <1>3 DEF GuardInv, PdtRule
  <1>4. CASE i = n + 1
    <2> DEFINE T == {j \in 1 .. n : history[j] >= FirstOfFive(today)}
    <2>1. S(history', i) \subseteq T \cup {n + 1}
      BY <1>1, <1>2, <1>4
    <2>2. /\ FirstOfFive(today) \in Int /\ BusinessDaysAgo(today) \in Int
          /\ BusinessDaysAgo(today) < FirstOfFive(today)
      BY <1>1, CutoffFacts
    <2>3. T \in SUBSET InWindowEver
      BY <1>2, <2>2 DEF InWindowEver
    <2>4. IsFiniteSet(InWindowEver) /\ Cardinality(InWindowEver) < MaxDayTrades
      BY DequeDecides DEF DecisionExact, DayTrade
    <2> HIDE DEF T
    <2>5. IsFiniteSet(T) /\ Cardinality(T) <= Cardinality(InWindowEver)
      BY <2>3, <2>4, FS_Subset
    <2>6. /\ IsFiniteSet(T \cup {n + 1})
          /\ Cardinality(T \cup {n + 1}) <= Cardinality(T) + 1
          /\ Cardinality(T) \in Nat /\ Cardinality(InWindowEver) \in Nat
      <3>1. /\ IsFiniteSet(T \cup {n + 1})
            /\ Cardinality(T \cup {n + 1}) =
                   IF n + 1 \in T THEN Cardinality(T) ELSE Cardinality(T) + 1
        BY <2>5, FS_AddElement
      <3>2. Cardinality(T) \in Nat /\ Cardinality(InWindowEver) \in Nat
        BY <2>4, <2>5, FS_CardinalityType
      <3> QED BY <3>1, <3>2
    <2> HIDE DEF S
    <2>7. /\ Cardinality(S(history', i)) <= Cardinality(T \cup {n + 1})
          /\ Cardinality(S(history', i)) \in Nat /\ Cardinality(T \cup {n + 1}) \in Nat
      BY <2>1, <2>6, FS_Subset, FS_CardinalityType
    <2> QED BY <2>4, <2>5, <2>6, <2>7, GuardAssumption DEF GuardAssumption
  <1> QED BY <1>1, <1>3, <1>4, LastOrEarlier

\* The deque gets nothing but the day trade.
LEMMA AppendedFrom ==
    ASSUME NEW S, NEW q \in Seq(S), NEW d \in S
    PROVE  \A i \in DOMAIN Appended(q, d) :
              Appended(q, d)[i] = d \/ \E k \in 1 .. Len(q) : Appended(q, d)[i] = q[k]
  <1>1. CASE Len(q) < MaxLen
    BY <1>1 DEF Appended
  <1>2. CASE ~(Len(q) < MaxLen)
    <2> DEFINE t == Tail(q)
    <2>1. Len(q) \in Nat /\ Len(q) > 0 /\ q # <<>>
      BY <1>2, GuardAssumption DEF GuardAssumption
    <2>2. /\ t \in Seq(S) /\ Len(t) = Len(q) - 1
          /\ \A k \in 1 .. Len(t) : t[k] = q[k + 1]
      BY <2>1
    <2> HIDE DEF t
    <2>3. /\ DOMAIN Append(t, d) = 1 .. (Len(t) + 1)
          /\ \A k \in 1 .. Len(t) : Append(t, d)[k] = t[k]
          /\ Append(t, d)[Len(t) + 1] = d
      BY <2>2
    <2>4. ASSUME NEW i \in 1 .. (Len(t) + 1)
          PROVE  Append(t, d)[i] = d \/ \E k \in 1 .. Len(q) : Append(t, d)[i] = q[k]
      <3>1. CASE i = Len(t) + 1
        BY <2>3, <3>1
      <3>2. CASE i \in 1 .. Len(t)
        <4>1. i + 1 \in 1 .. Len(q) /\ Append(t, d)[i] = q[i + 1]
          BY <2>1, <2>2, <2>3, <3>2
        <4> QED BY <4>1
      <3> QED BY <2>1, <2>2, <3>1, <3>2, LastOrEarlier
    <2>5. Appended(q, d) = Append(t, d)
      BY <1>2 DEF Appended, t
    <2> QED BY <2>3, <2>4, <2>5
  <1> QED BY <1>1, <1>2

LEMMA DayTradeStep ==
    ASSUME GuardInv, DayTrade
    PROVE  GuardInv'
  <1> DEFINE n == Len(history)
             m == Len(dayTrades)
  <1>1. /\ today \in Nat /\ today' = today
        /\ history \in Seq(0 .. today) /\ dayTrades \in Seq(0 .. today)
        /\ today \in 0 .. today
        /\ n \in Nat /\ m \in Nat /\ MaxLen \in Nat \ {0}
        /\ m = IF n <= MaxLen THEN n ELSE MaxLen
        /\ history' = Append(history, today)
        /\ dayTrades' = Appended(dayTrades, today)
    BY GuardAssumption DEF GuardInv, GuardTypeOK, DayTrade, GuardAssumption
  <1>2. /\ history' \in Seq(0 .. today) /\ Len(history') = n + 1
        /\ DOMAIN history' = 1 .. (n + 1)
        /\ \A i \in 1 .. n : history'[i] = history[i] /\ history[i] \in 0 .. today
        /\ history'[n + 1] = today
    BY <1>1, SMTT(30)
  <1>3. \A i, j \in 1 .. n : i <= j => history[i] <= history[j]
    BY DEF GuardInv
  <1>4. \A i \in 1 .. m : dayTrades[i] = history[n - m + i]
    <2>1. DOMAIN dayTrades = 1 .. m
      BY <1>1
    <2> QED BY <2>1 DEF GuardInv, Forgotten
  <1>5. \A i, j \in DOMAIN history' : i <= j => history'[i] <= history'[j]
    <2> HIDE DEF n
    <2> SUFFICES ASSUME NEW i \in 1 .. (n + 1), NEW j \in 1 .. (n + 1), i <= j
                 PROVE  history'[i] <= history'[j]
      BY <1>2
    <2>1. CASE j = n + 1
      BY <1>1, <1>2, <2>1
    <2>2. CASE j \in 1 .. n
      <3>1. i \in 1 .. n
        BY <1>1, <2>2
      <3> QED BY <3>1, <2>2, <1>2, <1>3
    <2>3. n \in Nat
      BY <1>1
    <2> QED BY <2>1, <2>2, <2>3, LastOrEarlier
  <1>6. /\ dayTrades' \in Seq(0 .. today)
        /\ Len(dayTrades') = IF n + 1 <= MaxLen THEN n + 1 ELSE MaxLen
        /\ \A i \in DOMAIN dayTrades' : dayTrades'[i] = history'[(n + 1) - Len(dayTrades') + i]
    <2>1. CASE m < MaxLen
      <3>1. m = n /\ n + 1 <= MaxLen
        BY <1>1, <2>1
      <3>2. dayTrades' = Append(dayTrades, today)
        BY <1>1, <2>1 DEF Appended
      <3>3. /\ dayTrades' \in Seq(0 .. today) /\ Len(dayTrades') = m + 1
            /\ DOMAIN dayTrades' = 1 .. (m + 1)
            /\ \A i \in 1 .. m : dayTrades'[i] = dayTrades[i]
            /\ dayTrades'[m + 1] = today
        BY <1>1, <3>2
      <3> HIDE DEF m, n
      <3>4. ASSUME NEW i \in 1 .. (m + 1)
            PROVE  dayTrades'[i] = history'[i]
        <4>1. CASE i \in 1 .. m
          <5>1. n - m + i = i
            BY <1>1, <3>1
          <5> QED BY <4>1, <5>1, <1>2, <1>4, <3>1, <3>3
        <4>2. CASE i = m + 1
          BY <4>2, <1>2, <3>1, <3>3
        <4>3. m \in Nat
          BY <1>1
        <4> QED BY <4>1, <4>2, <4>3, LastOrEarlier
      <3>5. \A i \in 1 .. (m + 1) : (n + 1) - (m + 1) + i = i
        BY <1>1, <3>1
      <3> QED BY <3>1, <3>3, <3>4, <3>5
    <2>2. CASE ~(m < MaxLen)
      <3>1. m = MaxLen /\ n + 1 > MaxLen /\ n >= m /\ m > 0
        BY <1>1, <2>2, SMTT(30)
      <3>2. dayTrades' = Append(Tail(dayTrades), today)
        BY <1>1, <2>2 DEF Appended
      <3>3. /\ Tail(dayTrades) \in Seq(0 .. today) /\ Len(Tail(dayTrades)) = m - 1
            /\ \A i \in 1 .. (m - 1) : Tail(dayTrades)[i] = dayTrades[i + 1]
        <4>1. dayTrades # <<>>
          BY <3>1
        <4> QED BY <1>1, <4>1
      <3>4. /\ dayTrades' \in Seq(0 .. today) /\ Len(dayTrades') = m
            /\ DOMAIN dayTrades' = 1 .. m
            /\ \A i \in 1 .. (m - 1) : dayTrades'[i] = dayTrades[i + 1]
            /\ dayTrades'[m] = today
        <4> DEFINE t == Tail(dayTrades)
        <4>1. t \in Seq(0 .. today) /\ Len(t) = m - 1
          BY <3>3
        <4>2. \A i \in 1 .. (m - 1) : t[i] = dayTrades[i + 1]
          BY <3>3
        <4> HIDE DEF t
        <4>3. /\ Append(t, today) \in Seq(0 .. today) /\ Len(Append(t, today)) = Len(t) + 1
              /\ DOMAIN Append(t, today) = 1 .. (Len(t) + 1)
              /\ \A i \in 1 .. Len(t) : Append(t, today)[i] = t[i]
              /\ Append(t, today)[Len(t) + 1] = today
          BY <1>1, <4>1, SMTT(30)
        <4>4. dayTrades' = Append(t, today) /\ Len(t) + 1 = m
          BY <3>2, <4>1, <1>1 DEF t
        <4> HIDE DEF m
        <4> QED BY <4>1, <4>2, <4>3, <4>4
      <3> HIDE DEF m, n
      <3>5. ASSUME NEW i \in 1 .. m
            PROVE  dayTrades'[i] = history'[(n + 1) - m + i]
        <4>1. CASE i \in 1 .. (m - 1)
          <5>1. /\ i + 1 \in 1 .. m /\ n - m + (i + 1) = (n + 1) - m + i
                /\ (n + 1) - m + i \in 1 .. n
            BY <1>1, <3>1, <4>1
          <5> QED BY <4>1, <5>1, <1>2, <1>4, <3>4
        <4>2. CASE i = m
          <5>1. (n + 1) - m + i = n + 1
            BY <1>1, <4>2
          <5> QED BY <4>2, <5>1, <1>2, <3>4
        <4>3. m - 1 \in Nat /\ (m - 1) + 1 = m
          BY <1>1, <3>1
        <4> QED BY <4>1, <4>2, <4>3, LastOrEarlier
      <3>6. m = IF n + 1 <= MaxLen THEN n + 1 ELSE MaxLen
        BY <3>1, <1>1
      <3>7. (n + 1) - Len(dayTrades') = (n + 1) - m
        BY <3>4
      <3> QED BY <3>4, <3>5, <3>6, <3>7
    <2> QED BY <2>1, <2>2
  <1>7. PdtRule'
    BY DayTradeRule
  <1>8. \A i \in DOMAIN dayTrades' : Business(dayTrades'[i])
    <2>1. Business(today) /\ \A i \in 1 .. m : Business(dayTrades[i])
      BY <1>1, SMTT(30) DEF GuardInv, DayTrade
    <2> HIDE DEF m, n
    <2>2. \A i \in DOMAIN dayTrades' :
             dayTrades'[i] = today \/ \E k \in 1 .. m : dayTrades'[i] = dayTrades[k]
      BY <1>1, AppendedFrom DEF m
    <2> QED BY <2>1, <2>2
  <1> HIDE DEF n, m
  <1> QED BY <1>1, <1>2, <1>5, <1>6, <1>7, <1>8 DEF GuardInv, GuardTypeOK, Forgotten

\* The record of the guard is the latest part of the history, in order.
THEOREM GuardCorrect == GuardSpec => []GuardInv
  <1>1. GuardInv /\ [GuardNext]_guardVars => GuardInv'
    <2> SUFFICES ASSUME GuardInv, [GuardNext]_guardVars
                 PROVE  GuardInv'
      OBVIOUS
    <2>1. CASE UNCHANGED guardVars
      BY <2>1 DEF guardVars, GuardInv, GuardTypeOK, PdtRule, Forgotten
    <2> QED BY <2>1, DayTradeStep, NextDayStep DEF GuardNext
  <1> QED BY <1>1, InitInv, PTL DEF GuardSpec

\* No day trade is ever one too many for the five business days it ends,
\* whatever the limit and however many day trades the deque has forgotten.
THEOREM RuleCorrect == GuardSpec => []PdtRule
  <1>1. GuardInv => PdtRule
    BY DEF GuardInv
  <1> QED BY <1>1, GuardCorrect, PTL

\* can_exit answers as if the whole history were kept, if the deque is no
\* shorter than the limit.
THEOREM DecisionCorrect == GuardSpec => []DecisionExact
  <1>1. GuardInv => DecisionExact
    BY DequeDecides
  <1> QED BY <1>1, GuardCorrect, PTL

\* get_rolling_count counts the day trades of the last five business days before today,
\* and of today, across weekends and on them.
THEOREM WindowCorrect == GuardSpec => []WindowExact
  <1> QED BY WindowHolds, GuardCorrect, PTL

\* The date that get_reset_date returns is one business day early, always.
THEOREM ResetEarly == GuardSpec => []ResetOneDayEarly
  <1> QED BY ResetEarlyHolds, GuardCorrect, PTL

\* On a business day the guard counts the day trades of the documented five business
\* days, and those of the business day before them.
THEOREM WindowLong == GuardSpec => []WindowOneDayLong
  <1> QED BY WindowLongHolds, GuardCorrect, PTL

=============================================================================
