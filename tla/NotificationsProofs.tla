------------------------- MODULE NotificationsProofs -------------------------
(***************************************************************************)
(* The notification queue keeps what it accepted, in order, for every      *)
(* number of channels and keys, size of the queue and number of attempts.  *)
(***************************************************************************)
EXTENDS Notifications, FiniteSetTheorems, TLAPS

-----------------------------------------------------------------------------
\* Sequences

\* What Append and Tail do, element by element.
LEMMA AppendFacts ==
    ASSUME NEW S, NEW s \in Seq(S), NEW e \in S
    PROVE  /\ Append(s, e) \in Seq(S)
           /\ Len(Append(s, e)) = Len(s) + 1
           /\ DOMAIN Append(s, e) = 1 .. (Len(s) + 1)
           /\ \A i \in 1 .. Len(s) : Append(s, e)[i] = s[i]
           /\ Append(s, e)[Len(s) + 1] = e
  OBVIOUS

\* An index of a sequence that grew by one is the last or an earlier one.
LEMMA LastOrEarlier ==
    \A n \in Nat : \A j \in 1 .. (n + 1) : j \in 1 .. n \/ j = n + 1
  OBVIOUS

LEMMA TailFacts ==
    ASSUME NEW S, NEW s \in Seq(S), s # <<>>
    PROVE  /\ Tail(s) \in Seq(S)
           /\ Len(s) > 0
           /\ Len(Tail(s)) = Len(s) - 1
           /\ DOMAIN Tail(s) = 1 .. (Len(s) - 1)
           /\ \A i \in 1 .. (Len(s) - 1) : Tail(s)[i] = s[i + 1]
           /\ Head(s) = s[1]
           /\ Head(s) \in S
  OBVIOUS

-----------------------------------------------------------------------------
\* Types

LEMMA IdleTyped ==
    /\ NoItem \in Item
    /\ Idle \in [step : WorkerSteps, item : Item, attempt : 1 .. MaxAttempts]
  BY QueueAssumption DEF QueueAssumption, NoItem, Idle, Item, WorkerSteps

\* A jump and a count keep their types.
LEMMA SmallSteps ==
    ASSUME TypeOK
    PROVE  /\ \A s \in WorkerSteps :
                 Goto(s) => worker' \in [step : WorkerSteps, item : Item, attempt : 1 .. MaxAttempts]
           /\ \A s \in Stat : Count(s) \in [Stat -> Nat]
           /\ Calls \in Nat
  <1>1. worker \in [step : WorkerSteps, item : Item, attempt : 1 .. MaxAttempts]
    BY DEF TypeOK
  <1>2. ASSUME NEW s \in WorkerSteps
        PROVE  [worker EXCEPT !.step = s]
                  \in [step : WorkerSteps, item : Item, attempt : 1 .. MaxAttempts]
    BY <1>1
  <1>3. stats \in [Stat -> Nat] /\ Len(accepted) \in Nat
    BY DEF TypeOK
  <1>4. stats["dropped"] \in Nat /\ stats["throttled"] \in Nat
    BY <1>3 DEF Stat
  <1>5. ASSUME NEW s \in Stat PROVE Count(s) \in [Stat -> Nat]
    BY <1>3 DEF Count
  <1> QED BY <1>2, <1>3, <1>4, <1>5 DEF Goto, Calls

\* Settling keeps the types of what it changes.
LEMMA SettleTyped ==
    ASSUME TypeOK, NEW r \in {"sent", "failed"}, Settle(r)
    PROVE  /\ stats' \in [Stat -> Nat]
           /\ settled' \in Seq(Outcome)
           /\ worker' = Idle
  <1>1. [id |-> worker.item.id, result |-> r] \in Outcome
    BY DEF TypeOK, Outcome, Item
  <1>2. settled \in Seq(Outcome)
    BY DEF TypeOK
  <1>3. settled' \in Seq(Outcome)
    BY <1>1, <1>2, AppendFacts DEF Settle
  <1> QED BY <1>3, SmallSteps DEF Settle, Stat

\* Accepting and dropping keep the types of what they change.
LEMMA EnqueueTyped ==
    ASSUME TypeOK, NEW c \in Channels, Enqueued(c) \/ Dropped
    PROVE  queue' \in Seq(Item) /\ accepted' \in Seq(Nat) /\ stats' \in [Stat -> Nat]
  <1>1. [id |-> Calls + 1, channel |-> c] \in Item /\ Calls + 1 \in Nat
    BY SmallSteps DEF Item
  <1>2. queue \in Seq(Item) /\ accepted \in Seq(Nat) /\ stats \in [Stat -> Nat]
    BY DEF TypeOK
  <1>3. CASE Enqueued(c)
    BY <1>1, <1>2, <1>3, AppendFacts DEF Enqueued
  <1>4. CASE Dropped
    BY <1>2, <1>4, SmallSteps DEF Dropped, Stat
  <1> QED BY <1>3, <1>4

\* The ghost record of a signal call is a set of signals.
LEMMA RecordTyped ==
    ASSUME TypeOK, NEW k \in Keys, NEW r \in {"queued", "dropped", "throttled"}, Record(k, r)
    PROVE  history' \subseteq Signal
  <1>1. [id |-> Calls + 1, key |-> k, time |-> now, result |-> r] \in Signal
    BY SmallSteps DEF TypeOK, Signal
  <1> QED BY <1>1 DEF TypeOK, Record

\* TypeOK is kept by every step, one action after the other.
LEMMA TypeStep == TypeOK /\ [Next]_vars => TypeOK'
  <1> SUFFICES ASSUME TypeOK, [Next]_vars PROVE TypeOK'
    OBVIOUS
  <1> USE DEF vars, program, ghost
  <1>1. ASSUME NEW c \in Channels, Enqueue(c) PROVE TypeOK'
    BY <1>1, EnqueueTyped DEF TypeOK, Enqueue
  <1>2. ASSUME NEW k \in Keys, EnqueueSignal(k) PROVE TypeOK'
    <2>1. SignalChannel \in Channels
      BY QueueAssumption DEF QueueAssumption
    <2>2. queue' \in Seq(Item) /\ accepted' \in Seq(Nat) /\ stats' \in [Stat -> Nat]
      <3>1. CASE UNCHANGED <<queue, accepted>> /\ stats' = Count("throttled")
        BY <3>1, SmallSteps DEF TypeOK, Stat
      <3>2. CASE Enqueued(SignalChannel) \/ Dropped
        BY <2>1, <3>2, EnqueueTyped
      <3> QED BY <1>2, <3>1, <3>2 DEF EnqueueSignal
    <2>3. history' \subseteq Signal
      BY <1>2, RecordTyped DEF EnqueueSignal
    <2>4. /\ DOMAIN lastSent' \subseteq Keys
          /\ \A j \in DOMAIN lastSent' : lastSent'[j] \in 0 .. now
      <3>1. CASE UNCHANGED lastSent
        BY <3>1 DEF TypeOK
      <3>2. CASE lastSent' = [j \in DOMAIN lastSent \union {k} |->
                                IF j = k THEN now ELSE lastSent[j]]
        BY <3>2 DEF TypeOK
      <3> QED BY <1>2, <3>1, <3>2 DEF EnqueueSignal
    <2> QED BY <1>2, <2>2, <2>3, <2>4 DEF TypeOK, EnqueueSignal
  <1>3. CASE Shutdown \/ JoinReturns \/ ProcessEnds
    BY <1>3 DEF TypeOK, Shutdown, JoinReturns, ProcessEnds
  <1>4. CASE WorkerStops \/ Looks
    BY <1>4, SmallSteps DEF TypeOK, WorkerStops, Looks, WorkerSteps
  <1>5. CASE Take
    <2>1. CASE queue = <<>>
      BY <1>5, <2>1, SmallSteps DEF TypeOK, Take, WorkerSteps
    <2>2. CASE queue # <<>>
      <3>1. Tail(queue) \in Seq(Item) /\ Head(queue) \in Item
        BY <2>2, TailFacts DEF TypeOK
      <3>2. [step |-> "route", item |-> Head(queue), attempt |-> 1]
               \in [step : WorkerSteps, item : Item, attempt : 1 .. MaxAttempts]
        BY <3>1, QueueAssumption DEF QueueAssumption, WorkerSteps, BusySteps
      <3> QED BY <1>5, <2>2, <3>1, <3>2 DEF TypeOK, Take
    <2> QED BY <2>1, <2>2
  <1>6. CASE Route \/ AwaitToken
    <2>1. CASE UNCHANGED <<stats, settled>> /\ (Goto("token") \/ Goto("post"))
      BY <1>6, <2>1, SmallSteps DEF TypeOK, Route, AwaitToken, WorkerSteps, BusySteps
    <2>2. CASE Settle("failed")
      BY <1>6, <2>2, SettleTyped, IdleTyped DEF TypeOK, Route, AwaitToken
    <2> QED BY <1>6, <2>1, <2>2 DEF Route, AwaitToken
  <1>7. CASE Post
    <2>1. seen' \in Seq(Nat)
      <3>1. worker.item.id \in Nat /\ seen \in Seq(Nat)
        BY DEF TypeOK, Item
      <3> QED BY <1>7, <3>1, AppendFacts DEF Post
    <2>2. CASE UNCHANGED <<stats, settled>> /\ (Goto("retry") \/ Goto("repost"))
      BY <1>7, <2>1, <2>2, SmallSteps DEF TypeOK, Post, WorkerSteps, BusySteps
    <2>3. CASE Settle("sent")
      BY <1>7, <2>1, <2>3, SettleTyped, IdleTyped DEF TypeOK, Post
    <2> QED BY <1>7, <2>2, <2>3 DEF Post
  <1>8. CASE Retry
    <2>1. CASE Settle("failed")
      BY <1>8, <2>1, SettleTyped, IdleTyped DEF TypeOK, Retry
    <2>2. CASE /\ worker.attempt < MaxAttempts
               /\ worker' = [worker EXCEPT !.step = "post", !.attempt = @ + 1]
               /\ UNCHANGED <<stats, settled>>
      <3>1. worker' \in [step : WorkerSteps, item : Item, attempt : 1 .. MaxAttempts]
        <4>1. worker \in [step : WorkerSteps, item : Item, attempt : 1 .. MaxAttempts]
          BY DEF TypeOK
        <4>2. worker.attempt + 1 \in 1 .. MaxAttempts /\ "post" \in WorkerSteps
          BY <2>2, <4>1, QueueAssumption DEF QueueAssumption, WorkerSteps, BusySteps
        <4> QED BY <2>2, <4>1, <4>2
      <3> QED BY <1>8, <2>2, <3>1 DEF TypeOK, Retry
    <2> QED BY <1>8, <2>1, <2>2 DEF Retry
  <1>9. CASE Tick
    BY <1>9 DEF TypeOK, Tick
  <1>10. CASE UNCHANGED vars
    BY <1>10 DEF TypeOK
  <1> QED BY <1>1, <1>2, <1>3, <1>4, <1>5, <1>6, <1>7, <1>8, <1>9, <1>10
          DEF Next, Worker

-----------------------------------------------------------------------------
\* The steps, grouped by what they do to the four sequences

\* Nothing moves through the queue, and the worker keeps what it has.
Still ==
    /\ UNCHANGED <<queue, seen, accepted, settled>>
    /\ stats' \in {stats, Count("dropped"), Count("throttled")}
    /\ Busy' <=> Busy
    /\ worker'.item = worker.item

\* A call is accepted.
Accepts ==
    /\ \E c \in Channels :
          /\ Len(queue) < MaxSize
          /\ Calls < MaxCalls
          /\ queue' = Append(queue, [id |-> Calls + 1, channel |-> c])
          /\ accepted' = Append(accepted, Calls + 1)
    /\ UNCHANGED <<stats, worker, seen, settled>>

\* The worker takes the first notification.
Takes ==
    /\ ~Busy
    /\ Busy'
    /\ queue # <<>>
    /\ queue' = Tail(queue)
    /\ worker'.item = Head(queue)
    /\ UNCHANGED <<stats, seen, accepted, settled>>

\* Discord accepts the notification in hand.
Shows == seen' = Append(seen, worker.item.id) \/ UNCHANGED seen

\* The worker posts without settling.
Posts ==
    /\ Busy
    /\ Busy'
    /\ Shows
    /\ worker'.item = worker.item
    /\ UNCHANGED <<stats, queue, accepted, settled>>

\* The worker settles the notification in hand.
Settles ==
    /\ Busy
    /\ ~Busy'
    /\ Shows
    /\ \E r \in {"sent", "failed"} :
          /\ settled' = Append(settled, [id |-> worker.item.id, result |-> r])
          /\ stats' = Count(r)
    /\ UNCHANGED <<queue, accepted>>

\* Every step is of one of these kinds.
LEMMA StepKinds ==
    ASSUME TypeOK, [Next]_vars
    PROVE  Still \/ Accepts \/ Takes \/ Posts \/ Settles
  <1> USE DEF vars, program, ghost, Busy, BusySteps
  <1>1. ASSUME NEW c \in Channels, Enqueue(c) PROVE Still \/ Accepts
    BY <1>1 DEF Enqueue, CanEnqueue, Enqueued, Dropped, Still, Accepts
  <1>2. ASSUME NEW k \in Keys, EnqueueSignal(k) PROVE Still \/ Accepts
    BY <1>2, QueueAssumption
       DEF QueueAssumption, EnqueueSignal, CanEnqueue, Enqueued, Dropped, Still, Accepts
  <1>3. CASE Shutdown \/ JoinReturns \/ ProcessEnds \/ Tick \/ UNCHANGED vars
    BY <1>3 DEF Shutdown, JoinReturns, ProcessEnds, Tick, Still
  <1>4. ASSUME NEW s, Goto(s) PROVE worker'.step = s /\ worker'.item = worker.item
    BY <1>4 DEF Goto, TypeOK
  <1>5. CASE WorkerStops \/ Looks
    BY <1>4, <1>5 DEF WorkerStops, Looks, Still
  <1>6. CASE Take
    BY <1>4, <1>6 DEF Take, Still, Takes
  <1>7. ASSUME NEW r \in {"sent", "failed"}, Settle(r), Busy, Shows,
               UNCHANGED <<queue, accepted>>
        PROVE  Settles
    BY <1>7 DEF Settle, Settles, Idle
  <1>8. CASE Route \/ AwaitToken
    BY <1>4, <1>7, <1>8 DEF Route, AwaitToken, Still, Shows
  <1>9. CASE Post
    BY <1>4, <1>7, <1>9 DEF Post, Still, Shows, Posts
  <1>10. CASE Retry
    <2>1. CASE worker' = [worker EXCEPT !.step = "post", !.attempt = @ + 1]
      BY <1>10, <2>1 DEF Retry, Still, TypeOK, Settle, Idle
    <2>2. CASE Settle("failed")
      BY <1>7, <1>10, <2>2 DEF Retry, Shows
    <2> QED BY <1>10, <2>1, <2>2 DEF Retry
  <1> QED BY <1>1, <1>2, <1>3, <1>5, <1>6, <1>8, <1>9, <1>10 DEF Next, Worker

-----------------------------------------------------------------------------
\* The invariant

\* The shape of the state that the proofs below rely on.
LEMMA Shape ==
    ASSUME TypeOK
    PROVE  /\ queue \in Seq(Item) /\ seen \in Seq(Nat) /\ accepted \in Seq(Nat)
           /\ settled \in Seq(Outcome)
           /\ Len(queue) \in Nat /\ Len(seen) \in Nat /\ Len(accepted) \in Nat
           /\ Len(settled) \in Nat
           /\ DOMAIN queue = 1 .. Len(queue) /\ DOMAIN seen = 1 .. Len(seen)
           /\ DOMAIN accepted = 1 .. Len(accepted)
           /\ DOMAIN settled = 1 .. Len(settled)
           /\ \A i \in 1 .. Len(accepted) : accepted[i] \in Nat
           /\ worker.item \in Item /\ worker.item.id \in Nat
           /\ Calls \in Nat
  <1>1. Calls \in Nat
    BY SmallSteps
  <1> QED BY <1>1 DEF TypeOK, Item

\* Calls counts the calls that are not accepted, too.
LEMMA CallsGrow ==
    ASSUME TypeOK, accepted' = accepted,
           stats' \in {stats} \union {Count(r) : r \in Stat}
    PROVE  Calls' \in Nat /\ Calls' >= Calls
  <1>1. /\ stats["dropped"] \in Nat
        /\ stats["throttled"] \in Nat
        /\ stats'["dropped"] \in {stats["dropped"], stats["dropped"] + 1}
        /\ stats'["throttled"] \in {stats["throttled"], stats["throttled"] + 1}
    BY DEF TypeOK, Count, Stat
  <1>2. Len(accepted) \in Nat
    BY Shape
  <1>3. /\ Calls = Len(accepted) + stats["dropped"] + stats["throttled"]
        /\ Calls' = Len(accepted) + stats'["dropped"] + stats'["throttled"]
    BY DEF Calls
  <1> HIDE DEF Calls
  <1>4. ASSUME NEW a \in Nat, NEW b \in Nat, NEW c \in Nat,
               NEW d \in {b, b + 1}, NEW e \in {c, c + 1}
        PROVE  a + d + e \in Nat /\ a + d + e >= a + b + c
    OBVIOUS
  <1> QED BY <1>1, <1>2, <1>3, <1>4

\* The numbers in the log and their bound survive a step that accepts nothing.
LEMMA LogKept ==
    ASSUME QueueInv, accepted' = accepted,
           stats' \in {stats} \union {Count(r) : r \in Stat}
    PROVE  /\ \A i \in DOMAIN accepted' : accepted'[i] <= Calls'
           /\ \A i, j \in DOMAIN accepted' : i < j => accepted'[i] < accepted'[j]
  BY CallsGrow, Shape DEF QueueInv

\* Discord's sequence stays ordered: what is in hand is the newest it has seen.
LEMMA SeenKept ==
    ASSUME QueueInv, Shows, Busy
    PROVE  /\ seen' \in Seq(Nat)
           /\ \A j \in DOMAIN seen' :
                 \E i \in 1 .. (Len(settled) + 1) : seen'[j] = accepted[i]
           /\ \A i, j \in DOMAIN seen' : i <= j => seen'[i] <= seen'[j]
  <1> DEFINE n == Len(settled) + 1
  <1>1. TypeOK
    BY DEF QueueInv
  <1>2. /\ n \in 1 .. Len(accepted)
        /\ worker.item.id = accepted[n]
        /\ worker.item.id \in Nat
        /\ \A i \in 1 .. n : i \in DOMAIN accepted /\ accepted[i] \in Nat
    BY <1>1, Shape DEF QueueInv, Pipeline, InHand
  <1>3. /\ seen \in Seq(Nat)
        /\ Len(seen) \in Nat
        /\ DOMAIN seen = 1 .. Len(seen)
        /\ \A j \in 1 .. Len(seen) : \E i \in 1 .. n : seen[j] = accepted[i]
        /\ \A i, j \in 1 .. Len(seen) : i <= j => seen[i] <= seen[j]
    BY <1>1, Shape DEF QueueInv, InHand, SeenInOrder
  <1> HIDE DEF n
  <1>4. \A i \in 1 .. n : accepted[i] <= accepted[n]
    <2>1. n \in DOMAIN accepted /\ n \in Nat /\ accepted[n] \in Nat
      BY <1>2, <1>1, Shape
    <2>2. ASSUME NEW i \in 1 .. n, i < n PROVE accepted[i] < accepted[n]
      BY <1>2, <2>1, <2>2 DEF QueueInv
    <2>3. ASSUME NEW i \in 1 .. n PROVE accepted[i] <= accepted[n]
      BY <1>2, <2>1, <2>2, <2>3
    <2> QED BY <2>3
  <1>5. CASE UNCHANGED seen
    BY <1>3, <1>5 DEF n
  <1>6. CASE seen' = Append(seen, worker.item.id)
    <2>1. /\ seen' \in Seq(Nat)
          /\ DOMAIN seen' = 1 .. (Len(seen) + 1)
          /\ \A i \in 1 .. Len(seen) : seen'[i] = seen[i]
          /\ seen'[Len(seen) + 1] = accepted[n]
      BY <1>2, <1>3, <1>6, AppendFacts
    <2>2. ASSUME NEW j \in 1 .. (Len(seen) + 1)
          PROVE  j \in 1 .. Len(seen) \/ j = Len(seen) + 1
      BY <1>3
    <2>3. ASSUME NEW j \in 1 .. (Len(seen) + 1)
          PROVE  \E i \in 1 .. n : seen'[j] = accepted[i]
      <3>1. CASE j \in 1 .. Len(seen)
        BY <1>3, <2>1, <3>1
      <3>2. CASE j = Len(seen) + 1
        <4>1. n \in 1 .. n
          BY <1>2, <1>1, Shape
        <4> QED BY <2>1, <3>2, <4>1
      <3> QED BY <2>2, <3>1, <3>2
    <2>4. ASSUME NEW i \in 1 .. (Len(seen) + 1), NEW j \in 1 .. (Len(seen) + 1), i <= j
          PROVE  seen'[i] <= seen'[j]
      <3>1. CASE j \in 1 .. Len(seen)
        <4>1. i \in 1 .. Len(seen)
          BY <1>3, <2>4, <3>1
        <4> QED BY <1>3, <2>1, <2>4, <3>1, <4>1
      <3>2. CASE j = Len(seen) + 1
        <4>1. PICK m \in 1 .. n : seen'[i] = accepted[m]
          BY <2>3
        <4> QED BY <1>4, <2>1, <3>2, <4>1
      <3> QED BY <2>2, <3>1, <3>2
    <2> QED BY <2>1, <2>3, <2>4 DEF n
  <1> QED BY <1>5, <1>6 DEF Shows

\* QueueInv is kept by every step, one kind of step after the other.
LEMMA QueueStep == QueueInv /\ [Next]_vars => QueueInv'
  <1> SUFFICES ASSUME QueueInv, [Next]_vars PROVE QueueInv'
    OBVIOUS
  <1>1. TypeOK /\ TypeOK'
    BY TypeStep DEF QueueInv
  <1>2. QueueAssumption
    BY QueueAssumption
  <1> USE <1>1, Shape
  <1>3. CASE Still
    <2>1. stats' \in {stats} \union {Count(r) : r \in Stat}
      BY <1>3 DEF Still, Stat
    <2>2. /\ \A i \in DOMAIN accepted' : accepted'[i] <= Calls'
          /\ \A i, j \in DOMAIN accepted' : i < j => accepted'[i] < accepted'[j]
      BY <1>3, <2>1, LogKept DEF Still
    <2> QED BY <1>3, <2>2 DEF Still, QueueInv, Pipeline, InHand, SeenInOrder
  <1>4. CASE Accepts
    <2>1. PICK c \in Channels :
              /\ Len(queue) < MaxSize
              /\ queue' = Append(queue, [id |-> Calls + 1, channel |-> c])
              /\ accepted' = Append(accepted, Calls + 1)
      BY <1>4 DEF Accepts
    <2> DEFINE new == [id |-> Calls + 1, channel |-> c]
               n == Len(settled) + InHand
    <2>2. new \in Item /\ Calls + 1 \in Nat /\ new.id = Calls + 1
      BY DEF Item
    <2>3. /\ Len(queue') = Len(queue) + 1
          /\ DOMAIN queue' = 1 .. (Len(queue) + 1)
          /\ \A i \in 1 .. Len(queue) : queue'[i] = queue[i]
          /\ queue'[Len(queue) + 1] = new
      BY <2>1, <2>2, AppendFacts
    <2>4. /\ Len(accepted') = Len(accepted) + 1
          /\ DOMAIN accepted' = 1 .. (Len(accepted) + 1)
          /\ \A i \in 1 .. Len(accepted) : accepted'[i] = accepted[i]
          /\ accepted'[Len(accepted) + 1] = Calls + 1
      BY <2>1, <2>2, AppendFacts
    <2>5. /\ UNCHANGED <<stats, worker, seen, settled>>
          /\ InHand' = InHand
          /\ Busy' = Busy
          /\ InHand \in Nat
          /\ n \in Nat
      BY <1>4 DEF Accepts, InHand, Busy
    <2>6. Calls' = Calls + 1
      <3>1. stats["dropped"] \in Nat /\ stats["throttled"] \in Nat
        BY DEF TypeOK, Stat
      <3> QED BY <2>4, <2>5, <3>1, SMTT(30) DEF Calls
    <2> HIDE DEF new
    <2>7. Len(accepted) = n + Len(queue)
      BY DEF QueueInv, Pipeline
    <2>8. Len(accepted') = n + Len(queue')
      BY <2>3, <2>4, <2>5, <2>7, SMTT(30)
    <2>9. \A i \in DOMAIN queue' : queue'[i].id = accepted'[n + i]
      <3>1. \A i \in 1 .. Len(queue) : queue[i].id = accepted[n + i]
        BY DEF QueueInv, Pipeline
      <3>2. \A i \in 1 .. Len(queue) : n + i \in 1 .. Len(accepted)
        BY <2>5, <2>7
      <3>3. queue'[Len(queue) + 1].id = accepted'[n + (Len(queue) + 1)]
        BY <2>2, <2>3, <2>4, <2>5, <2>7
      <3>4. ASSUME NEW i \in 1 .. Len(queue) PROVE queue'[i].id = accepted'[n + i]
        BY <2>3, <2>4, <3>1, <3>2
      <3>5. ASSUME NEW i \in 1 .. (Len(queue) + 1)
            PROVE  i \in 1 .. Len(queue) \/ i = Len(queue) + 1
        OBVIOUS
      <3> QED BY <2>3, <3>3, <3>4, <3>5
    <2>10. \A i \in DOMAIN settled : settled[i].id = accepted'[i]
      <3>1. \A i \in 1 .. Len(settled) : i \in 1 .. Len(accepted)
        BY <2>5, <2>7 DEF InHand
      <3> QED BY <2>4, <3>1 DEF QueueInv, Pipeline
    <2>11. Busy => worker.item.id = accepted'[Len(settled) + 1]
      <3>1. Busy => Len(settled) + 1 \in 1 .. Len(accepted)
        BY <2>7 DEF InHand
      <3> QED BY <2>4, <3>1 DEF QueueInv, Pipeline
    <2>12. Pipeline'
      BY <2>5, <2>8, <2>9, <2>10, <2>11 DEF Pipeline
    <2>13. \A i \in 1 .. Len(accepted) : accepted[i] <= Calls
      BY DEF QueueInv
    <2>14. \A i \in DOMAIN accepted' : accepted'[i] <= Calls'
      <3>1. \A i \in 1 .. Len(accepted) : accepted[i] <= Calls + 1
        BY <2>13
      <3>2. ASSUME NEW i \in 1 .. (Len(accepted) + 1)
            PROVE  i \in 1 .. Len(accepted) \/ i = Len(accepted) + 1
        OBVIOUS
      <3>3. ASSUME NEW i \in 1 .. (Len(accepted) + 1) PROVE accepted'[i] <= Calls + 1
        BY <2>4, <3>1, <3>2, SMTT(30)
      <3> QED BY <2>4, <2>6, <3>3
    <2>15. \A i, j \in DOMAIN accepted' : i < j => accepted'[i] < accepted'[j]
      <3>1. \A i, j \in 1 .. Len(accepted) : i < j => accepted[i] < accepted[j]
        BY DEF QueueInv
      <3>2. ASSUME NEW i \in 1 .. (Len(accepted) + 1), NEW j \in 1 .. (Len(accepted) + 1),
                   i < j
            PROVE  accepted'[i] < accepted'[j]
        <4>1. i \in 1 .. Len(accepted) /\ accepted'[i] = accepted[i] /\ accepted[i] \in Nat
          BY <2>4, <3>2
        <4>2. CASE j \in 1 .. Len(accepted)
          BY <2>4, <3>1, <3>2, <4>1, <4>2
        <4>3. CASE j = Len(accepted) + 1
          <5>1. accepted'[i] <= Calls /\ accepted'[j] = Calls + 1
            BY <2>4, <2>13, <4>1, <4>3
          <5>2. accepted'[i] \in Nat
            BY <4>1
          <5> QED BY <5>1, <5>2
        <4>4. j \in 1 .. Len(accepted) \/ j = Len(accepted) + 1
          BY LastOrEarlier
        <4> QED BY <4>2, <4>3, <4>4
      <3> QED BY <2>4, <3>2
    <2>16. \A j \in DOMAIN seen : \E i \in 1 .. n : seen[j] = accepted'[i]
      <3>1. \A j \in DOMAIN seen : \E i \in 1 .. n : seen[j] = accepted[i]
        BY DEF QueueInv
      <3>2. \A i \in 1 .. n : i \in 1 .. Len(accepted)
        BY <2>5, <2>7
      <3> QED BY <2>4, <3>1, <3>2
    <2>17. Len(queue') <= MaxSize
      BY <1>2, <2>1, <2>3 DEF QueueAssumption
    <2> QED BY <2>5, <2>12, <2>14, <2>15, <2>16, <2>17 DEF QueueInv, SeenInOrder
  <1>5. CASE Takes
    <2>1. /\ Len(queue) > 0
          /\ Len(queue') = Len(queue) - 1
          /\ DOMAIN queue' = 1 .. (Len(queue) - 1)
          /\ \A i \in 1 .. (Len(queue) - 1) : queue'[i] = queue[i + 1]
          /\ worker'.item = queue[1]
      BY <1>5, TailFacts DEF Takes
    <2>2. InHand = 0 /\ InHand' = 1
      BY <1>5 DEF Takes, InHand
    <2>3. \A i \in 1 .. Len(queue) : queue[i].id = accepted[Len(settled) + i]
      <3>1. \A i \in 1 .. Len(queue) : queue[i].id = accepted[Len(settled) + InHand + i]
        BY DEF QueueInv, Pipeline
      <3> QED BY <2>2, <3>1
    <2>4. \A i \in DOMAIN queue' : queue'[i].id = accepted[Len(settled) + 1 + i]
      <3>1. ASSUME NEW i \in 1 .. (Len(queue) - 1)
            PROVE  queue'[i].id = accepted[Len(settled) + 1 + i]
        <4>1. i + 1 \in 1 .. Len(queue) /\ Len(settled) + (i + 1) = Len(settled) + 1 + i
          OBVIOUS
        <4> QED BY <2>1, <2>3, <4>1
      <3> QED BY <2>1, <3>1
    <2>5. Pipeline'
      <3>1. worker'.item.id = accepted[Len(settled) + 1]
        BY <2>1, <2>3
      <3>2. Len(accepted) = Len(settled) + 1 + Len(queue')
        BY <2>1, <2>2 DEF QueueInv, Pipeline
      <3> QED BY <1>5, <2>2, <2>4, <3>1, <3>2 DEF Takes, QueueInv, Pipeline
    <2>6. \A j \in DOMAIN seen :
             \E i \in 1 .. (Len(settled) + 1) : seen[j] = accepted[i]
      <3>1. \A j \in DOMAIN seen : \E i \in 1 .. (Len(settled) + 0) : seen[j] = accepted[i]
        BY <2>2 DEF QueueInv
      <3> QED BY <3>1
    <2>7. Len(queue') <= MaxSize
      BY <1>2, <2>1 DEF QueueAssumption, QueueInv
    <2>8. /\ \A i \in DOMAIN accepted' : accepted'[i] <= Calls'
          /\ \A i, j \in DOMAIN accepted' : i < j => accepted'[i] < accepted'[j]
      BY <1>5, LogKept DEF Takes
    <2> QED BY <1>5, <2>2, <2>5, <2>6, <2>7, <2>8 DEF Takes, QueueInv, SeenInOrder
  <1>6. CASE Posts
    <2>1. InHand = 1 /\ InHand' = 1
      BY <1>6 DEF Posts, InHand
    <2>2. /\ \A j \in DOMAIN seen' :
                \E i \in 1 .. (Len(settled) + 1) : seen'[j] = accepted[i]
          /\ \A i, j \in DOMAIN seen' : i <= j => seen'[i] <= seen'[j]
      BY <1>6, SeenKept DEF Posts
    <2>3. /\ \A i \in DOMAIN accepted' : accepted'[i] <= Calls'
          /\ \A i, j \in DOMAIN accepted' : i < j => accepted'[i] < accepted'[j]
      BY <1>6, LogKept DEF Posts
    <2>4. Pipeline'
      BY <1>6, <2>1 DEF Posts, QueueInv, Pipeline
    <2> QED BY <1>6, <2>1, <2>2, <2>3, <2>4 DEF Posts, QueueInv, SeenInOrder
  <1>7. CASE Settles
    <2>1. PICK r \in {"sent", "failed"} :
              /\ settled' = Append(settled, [id |-> worker.item.id, result |-> r])
              /\ stats' = Count(r)
      BY <1>7 DEF Settles
    <2> DEFINE out == [id |-> worker.item.id, result |-> r]
    <2>2. out \in Outcome /\ out.id = worker.item.id
      BY DEF Outcome
    <2> HIDE DEF out
    <2>3. /\ Len(settled') = Len(settled) + 1
          /\ DOMAIN settled' = 1 .. (Len(settled) + 1)
          /\ \A i \in 1 .. Len(settled) : settled'[i] = settled[i]
          /\ settled'[Len(settled) + 1] = out
      BY <2>1, <2>2, AppendFacts DEF out
    <2>4. InHand = 1 /\ InHand' = 0
      BY <1>7 DEF Settles, InHand
    <2>5. worker.item.id = accepted[Len(settled) + 1]
      BY <1>7 DEF Settles, QueueInv, Pipeline
    <2>6. Pipeline'
      <3>1. \A i \in DOMAIN settled' : settled'[i].id = accepted[i]
        BY <2>2, <2>3, <2>5 DEF QueueInv, Pipeline
      <3>2. Len(accepted) = Len(settled') + 0 + Len(queue)
        BY <2>3, <2>4 DEF QueueInv, Pipeline
      <3>3. \A i \in DOMAIN queue : queue[i].id = accepted[Len(settled') + 0 + i]
        BY <2>3, <2>4 DEF QueueInv, Pipeline
      <3> QED BY <1>7, <2>4, <3>1, <3>2, <3>3 DEF Settles, Pipeline
    <2>7. /\ \A j \in DOMAIN seen' :
                \E i \in 1 .. (Len(settled) + 1) : seen'[j] = accepted[i]
          /\ \A i, j \in DOMAIN seen' : i <= j => seen'[i] <= seen'[j]
      BY <1>7, SeenKept DEF Settles
    <2>8. stats' \in {stats} \union {Count(q) : q \in Stat}
      BY <2>1 DEF Stat
    <2>9. /\ \A i \in DOMAIN accepted' : accepted'[i] <= Calls'
          /\ \A i, j \in DOMAIN accepted' : i < j => accepted'[i] < accepted'[j]
      BY <1>7, <2>8, LogKept DEF Settles
    <2>10. \A j \in DOMAIN seen' :
              \E i \in 1 .. (Len(settled') + InHand') : seen'[j] = accepted[i]
      BY <2>3, <2>4, <2>7
    <2> QED BY <1>7, <2>6, <2>7, <2>9, <2>10 DEF Settles, QueueInv, SeenInOrder
  <1> QED BY <1>3, <1>4, <1>5, <1>6, <1>7, StepKinds

\* The initial state satisfies the invariant.
LEMMA QueueInit == Init => QueueInv
  <1> SUFFICES ASSUME Init PROVE QueueInv
    OBVIOUS
  <1>1. TypeOK
    <2>1. queue \in Seq(Item) /\ seen \in Seq(Nat) /\ accepted \in Seq(Nat)
          /\ settled \in Seq(Outcome)
      BY DEF Init
    <2>2. DOMAIN lastSent = {} /\ stats \in [Stat -> Nat] /\ now \in Nat /\ history = {}
      BY DEF Init
    <2> QED BY <2>1, <2>2, IdleTyped DEF Init, TypeOK
  <1>2. ~Busy /\ InHand = 0
    BY DEF Init, Idle, Busy, BusySteps, InHand
  <1> QED BY <1>1, <1>2, QueueAssumption
          DEF Init, QueueInv, Pipeline, SeenInOrder, QueueAssumption

\* The invariant holds in every reachable state.
THEOREM QueueCorrect == Spec => []QueueInv
  BY QueueInit, QueueStep, PTL DEF Spec

\* Nothing accepted is lost, doubled or overtaken between the two threads.
THEOREM PipelineCorrect == Spec => []Pipeline
  <1>1. QueueInv => Pipeline
    BY DEF QueueInv
  <1> QED BY <1>1, QueueCorrect, PTL

\* Discord sees notifications in the order of the calls.
THEOREM OrderCorrect == Spec => []SeenInOrder
  <1>1. QueueInv => SeenInOrder
    BY DEF QueueInv
  <1> QED BY <1>1, QueueCorrect, PTL

-----------------------------------------------------------------------------
\* The throttle windows

\* No step uncounts a call, and a signal call is counted whatever comes of it.
LEMMA CallsCounted ==
    ASSUME TypeOK, [Next]_vars
    PROVE  /\ Calls \in Nat /\ Calls' \in Nat /\ Calls' >= Calls
           /\ (\E k \in Keys : EnqueueSignal(k)) => Calls' = Calls + 1
  <1>t. /\ Calls \in Nat /\ Len(accepted) \in Nat /\ accepted \in Seq(Nat)
        /\ stats \in [Stat -> Nat]
        /\ stats["dropped"] \in Nat /\ stats["throttled"] \in Nat
    BY Shape DEF TypeOK, Stat
  <1>a. ASSUME accepted' = Append(accepted, Calls + 1), stats' = stats
        PROVE  Calls' = Calls + 1
    <2>1. Len(accepted') = Len(accepted) + 1
      BY <1>t, <1>a, AppendFacts
    <2> QED BY <1>t, <1>a, <2>1, SMTT(30) DEF Calls
  <1>b. ASSUME accepted' = accepted, stats' = Count("dropped") \/ stats' = Count("throttled")
        PROVE  Calls' = Calls + 1
    <2>1. \/ /\ stats'["dropped"] = stats["dropped"] + 1
             /\ stats'["throttled"] = stats["throttled"]
          \/ /\ stats'["throttled"] = stats["throttled"] + 1
             /\ stats'["dropped"] = stats["dropped"]
      BY <1>t, <1>b DEF Count, Stat
    <2> DEFINE a == Len(accepted)
               b == stats["dropped"]
               c == stats["throttled"]
               b2 == stats'["dropped"]
               c2 == stats'["throttled"]
    <2>2. Calls = a + b + c /\ Calls' = a + b2 + c2
      BY <1>b DEF Calls
    <2>3. a \in Nat /\ b \in Nat /\ c \in Nat
      BY <1>t
    <2>4. \/ b2 = b + 1 /\ c2 = c
          \/ c2 = c + 1 /\ b2 = b
      BY <2>1
    <2> HIDE DEF a, b, c, b2, c2, Calls
    <2> QED BY <2>2, <2>3, <2>4
  <1>1. ASSUME NEW k \in Keys, EnqueueSignal(k) PROVE Calls' = Calls + 1
    BY <1>1, <1>a, <1>b DEF EnqueueSignal, Enqueued, Dropped
  <1>2. CASE Accepts
    BY <1>2, <1>a, <1>t DEF Accepts
  <1>3. CASE Still \/ Takes \/ Posts \/ Settles
    <2>1. accepted' = accepted
      BY <1>3 DEF Still, Takes, Posts, Settles
    <2>2. stats' \in {stats} \union {Count(r) : r \in Stat}
      <3>1. CASE Still
        BY <3>1 DEF Still, Stat
      <3>2. CASE Takes \/ Posts
        BY <3>2 DEF Takes, Posts
      <3>3. CASE Settles
        BY <3>3 DEF Settles, Stat
      <3> QED BY <1>3, <3>1, <3>2, <3>3
    <2> QED BY <1>t, <1>1, <2>1, <2>2, CallsGrow
  <1>4. Calls' \in Nat /\ Calls' >= Calls
    BY <1>t, <1>2, <1>3, StepKinds
  <1> QED BY <1>t, <1>1, <1>4

\* Only a signal call touches the windows and the history.
LEMMA WindowsFrame ==
    ASSUME [Next]_vars
    PROVE  (\E k \in Keys : EnqueueSignal(k)) \/ UNCHANGED <<lastSent, history>>
  <1> USE DEF vars, program, ghost
  <1>1. ASSUME NEW c \in Channels, Enqueue(c) PROVE UNCHANGED <<lastSent, history>>
    BY <1>1 DEF Enqueue
  <1>2. CASE Shutdown \/ JoinReturns \/ ProcessEnds \/ Tick \/ UNCHANGED vars
    BY <1>2 DEF Shutdown, JoinReturns, ProcessEnds, Tick
  <1>3. CASE WorkerStops \/ Looks \/ Take
    BY <1>3 DEF WorkerStops, Looks, Take
  <1>4. CASE Route \/ AwaitToken
    BY <1>4 DEF Route, AwaitToken
  <1>5. CASE Post \/ Retry
    BY <1>5 DEF Post, Retry
  <1> QED BY <1>1, <1>2, <1>3, <1>4, <1>5 DEF Next, Worker

\* What a signal call records, and when it is let through.
LEMMA SignalFacts ==
    ASSUME TypeOK, NEW k \in Keys, EnqueueSignal(k)
    PROVE  \E r \in {"queued", "dropped", "throttled"} :
             /\ history' = history \union
                   {[id |-> Calls + 1, key |-> k, time |-> now, result |-> r]}
             /\ \/ r = "throttled" /\ lastSent' = lastSent
                \/ /\ ~Throttled(k)
                   /\ lastSent' = [j \in DOMAIN lastSent \union {k} |->
                                     IF j = k THEN now ELSE lastSent[j]]
  BY DEF EnqueueSignal, Record

\* WindowsKept and OncePerWindow: a signal is queued when the window of the last one
\* of its key, queued or dropped, is over.
LEMMA WindowsStep ==
    TypeOK /\ WindowsKept /\ OncePerWindow /\ [Next]_vars => WindowsKept' /\ OncePerWindow'
  <1> SUFFICES ASSUME TypeOK, WindowsKept, OncePerWindow, [Next]_vars
               PROVE  WindowsKept' /\ OncePerWindow'
    OBVIOUS
  <1>t. /\ now \in Nat /\ Throttle \in Nat
        /\ \A g \in history : g.id \in Nat /\ g.time \in Nat /\ g.key \in Keys
        /\ \A k \in DOMAIN lastSent : lastSent[k] \in 0 .. now
    BY QueueAssumption DEF TypeOK, Signal, QueueAssumption
  <1>c. Calls \in Nat /\ Calls' \in Nat /\ Calls' >= Calls
    BY CallsCounted
  <1>1. CASE UNCHANGED <<lastSent, history>>
    <2>1. WindowsKept'
      BY <1>t, <1>c, <1>1 DEF WindowsKept
    <2> QED BY <1>1, <2>1 DEF OncePerWindow
  <1>2. ASSUME NEW k \in Keys, EnqueueSignal(k) PROVE WindowsKept' /\ OncePerWindow'
    <2>1. PICK r \in {"queued", "dropped", "throttled"} :
             /\ history' = history \union
                   {[id |-> Calls + 1, key |-> k, time |-> now, result |-> r]}
             /\ \/ r = "throttled" /\ lastSent' = lastSent
                \/ /\ ~Throttled(k)
                   /\ lastSent' = [j \in DOMAIN lastSent \union {k} |->
                                     IF j = k THEN now ELSE lastSent[j]]
      BY <1>2, SignalFacts
    <2> DEFINE new == [id |-> Calls + 1, key |-> k, time |-> now, result |-> r]
    <2>2. /\ history' = history \union {new}
          /\ new.id = Calls + 1 /\ new.key = k /\ new.time = now /\ new.result = r
      BY <2>1
    <2> HIDE DEF new
    <2>3. Calls' = Calls + 1
      BY <1>2, CallsCounted
    <2>4. \A j \in DOMAIN lastSent : j \in DOMAIN lastSent' /\ lastSent'[j] >= lastSent[j]
      <3>1. CASE lastSent' = lastSent
        BY <1>t, <3>1
      <3>2. CASE lastSent' = [j \in DOMAIN lastSent \union {k} |->
                                IF j = k THEN now ELSE lastSent[j]]
        BY <1>t, <3>2
      <3> QED BY <2>1, <3>1, <3>2
    <2>5. r = "queued" => k \in DOMAIN lastSent' /\ lastSent'[k] = now
      BY <2>1
    <2>6. \A j \in DOMAIN lastSent' : lastSent'[j] \in Nat
      BY <1>t, <2>1
    <2>7. WindowsKept'
      <3>1. ASSUME NEW g \in history
            PROVE  /\ g.id <= Calls'
                   /\ g.result = "queued" =>
                         g.key \in DOMAIN lastSent' /\ g.time <= lastSent'[g.key]
        BY <1>t, <1>c, <2>4, <2>6 DEF WindowsKept
      <3> QED BY <1>t, <1>c, <2>2, <2>3, <2>5, <3>1 DEF WindowsKept
    <2>8. ASSUME NEW g \in history, g.key = k, g.result = "queued", r = "queued"
          PROVE  now - g.time >= Throttle
      <3>1. k \in DOMAIN lastSent /\ g.time <= lastSent[k]
        BY <2>8 DEF WindowsKept
      <3>2. ~(now - lastSent[k] < Throttle)
        BY <2>1, <2>8, <3>1 DEF Throttled
      <3> QED BY <1>t, <3>1, <3>2
    <2>9. \A g \in history : g.id <= Calls
      BY DEF WindowsKept
    <2>10. OncePerWindow'
      BY <1>t, <1>c, <2>2, <2>8, <2>9 DEF OncePerWindow
    <2> QED BY <2>7, <2>10
  <1> QED BY <1>1, <1>2, WindowsFrame

\* Two signals of one key are never queued within the throttle window, dropped ones
\* between them or not.
THEOREM WindowCorrect == Spec => []OncePerWindow
  <1>1. Init => WindowsKept /\ OncePerWindow
    BY DEF Init, WindowsKept, OncePerWindow
  <1>2. QueueInv => TypeOK
    BY DEF QueueInv
  <1> QED BY <1>1, <1>2, WindowsStep, QueueCorrect, PTL DEF Spec

-----------------------------------------------------------------------------
\* The statistics

\* Where a sequence has an element of a set.
Hits(s, T) == {i \in DOMAIN s : s[i] \in T}

\* An append adds one place, or none.
LEMMA HitsAppend ==
    ASSUME NEW S, NEW s \in Seq(S), NEW e \in S, NEW T
    PROVE  /\ Cardinality(Hits(s, T)) \in Nat
           /\ Cardinality(Hits(Append(s, e), T)) =
                 Cardinality(Hits(s, T)) + (IF e \in T THEN 1 ELSE 0)
  <1> DEFINE n == Len(s)
             A == Hits(s, T)
             B == Hits(Append(s, e), T)
  <1>1. n \in Nat /\ DOMAIN s = 1 .. n
    OBVIOUS
  <1>2. /\ DOMAIN Append(s, e) = 1 .. (n + 1)
        /\ \A i \in 1 .. n : Append(s, e)[i] = s[i]
        /\ Append(s, e)[n + 1] = e
    BY AppendFacts
  <1> HIDE DEF n
  <1>3. A = {i \in 1 .. n : s[i] \in T}
    BY <1>1 DEF Hits
  <1>4. IsFiniteSet(A)
    <2>1. A \in SUBSET (1 .. n)
      BY <1>3
    <2>2. IsFiniteSet(1 .. n)
      BY <1>1, FS_Interval
    <2> QED BY <2>1, <2>2, FS_Subset
  <1>5. n + 1 \notin A
    BY <1>1, <1>3
  <1>6. CASE e \in T
    <2>1. B = A \union {n + 1}
      BY <1>1, <1>2, <1>3, <1>6 DEF Hits
    <2> HIDE DEF A, B
    <2>2. Cardinality(A \union {n + 1}) = Cardinality(A) + 1 /\ Cardinality(A) \in Nat
      BY <1>4, <1>5, FS_AddElement, FS_CardinalityType
    <2> QED BY <1>6, <2>1, <2>2 DEF A, B
  <1>7. CASE e \notin T
    <2>1. B = A
      BY <1>1, <1>2, <1>3, <1>7 DEF Hits
    <2> HIDE DEF A, B
    <2>2. Cardinality(A) \in Nat
      BY <1>4, FS_CardinalityType
    <2> QED BY <1>7, <2>1, <2>2 DEF A, B
  <1> QED BY <1>6, <1>7

\* What Discord accepts, and only the worker's post gets it there.
LEMMA ShowSteps ==
    ASSUME TypeOK, [Next]_vars
    PROVE  \/ UNCHANGED seen
           \/ /\ seen' = Append(seen, worker.item.id)
              /\ worker.step \in {"post", "repost"}
              /\ \/ ~Busy'
                 \/ /\ worker'.step = "retry"
                    /\ worker'.item = worker.item
                    /\ worker'.attempt = worker.attempt
  <1> USE DEF vars, program, ghost
  <1>1. CASE Post
    BY <1>1 DEF Post, Settle, Idle, Goto, Busy, BusySteps, TypeOK
  <1>2. ASSUME NEW c \in Channels, Enqueue(c) PROVE UNCHANGED seen
    BY <1>2 DEF Enqueue
  <1>3. ASSUME NEW k \in Keys, EnqueueSignal(k) PROVE UNCHANGED seen
    BY <1>3 DEF EnqueueSignal
  <1>4. CASE Shutdown \/ JoinReturns \/ ProcessEnds \/ Tick \/ UNCHANGED vars
    BY <1>4 DEF Shutdown, JoinReturns, ProcessEnds, Tick
  <1>5. CASE WorkerStops \/ Looks \/ Take \/ Route \/ AwaitToken \/ Retry
    BY <1>5 DEF WorkerStops, Looks, Take, Route, AwaitToken, Retry
  <1> QED BY <1>1, <1>2, <1>3, <1>4, <1>5 DEF Next, Worker

\* The attempts of the notification in hand that are over.
Over == IF worker.step = "retry" THEN worker.attempt ELSE worker.attempt - 1

\* A worker that stays busy with one notification goes back on no attempt.
LEMMA TrySteps ==
    ASSUME TypeOK, [Next]_vars, Busy'
    PROVE  \/ Busy /\ worker'.item = worker.item /\ Over' >= Over
           \/ /\ ~Busy /\ queue # <<>> /\ worker'.item = Head(queue)
              /\ worker'.attempt = 1 /\ worker'.step = "route"
  <1> USE DEF vars, program, ghost
  <1>t. /\ worker.attempt \in Nat
        /\ \A s \in WorkerSteps : Goto(s) =>
              /\ worker'.step = s
              /\ worker'.item = worker.item
              /\ worker'.attempt = worker.attempt
    BY DEF Goto, TypeOK
  <1>a. ASSUME worker' = worker PROVE Busy /\ worker'.item = worker.item /\ Over' >= Over
    BY <1>a, <1>t DEF Busy, Over
  <1>b. ASSUME NEW r, Settle(r) PROVE FALSE
    BY <1>b DEF Settle, Idle, Busy, BusySteps
  <1>1. ASSUME NEW c \in Channels, Enqueue(c) PROVE worker' = worker
    BY <1>1 DEF Enqueue
  <1>2. ASSUME NEW k \in Keys, EnqueueSignal(k) PROVE worker' = worker
    BY <1>2 DEF EnqueueSignal
  <1>3. CASE Shutdown \/ JoinReturns \/ ProcessEnds \/ Tick \/ UNCHANGED vars
    BY <1>a, <1>3 DEF Shutdown, JoinReturns, ProcessEnds, Tick
  <1>4. CASE WorkerStops \/ Looks
    BY <1>t, <1>4 DEF WorkerStops, Looks, WorkerSteps, Busy, BusySteps
  <1>5. CASE Take
    BY <1>t, <1>5 DEF Take, WorkerSteps, Busy, BusySteps
  <1>6. CASE Route \/ AwaitToken
    BY <1>t, <1>b, <1>6 DEF Route, AwaitToken, WorkerSteps, Busy, BusySteps, Over
  <1>7. CASE Post
    BY <1>t, <1>b, <1>7 DEF Post, WorkerSteps, Busy, BusySteps, Over
  <1>8. CASE Retry
    <2>1. worker' = [worker EXCEPT !.step = "post", !.attempt = @ + 1]
      BY <1>b, <1>8 DEF Retry
    <2>2. /\ worker'.step = "post" /\ worker'.item = worker.item
          /\ worker'.attempt = worker.attempt + 1
      BY <2>1 DEF TypeOK
    <2> QED BY <1>t, <1>8, <2>2 DEF Retry, Busy, BusySteps, Over
  <1> QED BY <1>a, <1>1, <1>2, <1>3, <1>4, <1>5, <1>6, <1>7, <1>8 DEF Next, Worker

\* How often a notification has been seen, before and after a step.
LEMMA SeenTimesStep ==
    ASSUME TypeOK, NEW m \in Nat
    PROVE  /\ SeenTimes(m) \in Nat
           /\ seen' = seen => SeenTimes(m)' = SeenTimes(m)
           /\ seen' = Append(seen, worker.item.id) =>
                 SeenTimes(m)' = SeenTimes(m) + (IF m = worker.item.id THEN 1 ELSE 0)
  <1>1. seen \in Seq(Nat) /\ worker.item.id \in Nat
    BY Shape
  <1>2. /\ SeenTimes(m) = Cardinality(Hits(seen, {m}))
        /\ SeenTimes(m)' = Cardinality(Hits(seen', {m}))
    BY DEF SeenTimes, Hits
  <1>3. /\ Cardinality(Hits(seen, {m})) \in Nat
        /\ Cardinality(Hits(Append(seen, worker.item.id), {m})) =
              Cardinality(Hits(seen, {m})) + (IF worker.item.id \in {m} THEN 1 ELSE 0)
    <2> DEFINE w == worker.item.id
    <2>1. w \in Nat
      BY <1>1
    <2> HIDE DEF w
    <2>2. /\ Cardinality(Hits(seen, {m})) \in Nat
          /\ Cardinality(Hits(Append(seen, w), {m})) =
                Cardinality(Hits(seen, {m})) + (IF w \in {m} THEN 1 ELSE 0)
      BY <1>1, <2>1, HitsAppend
    <2> QED BY <2>2 DEF w
  <1>4. worker.item.id \in {m} <=> m = worker.item.id
    OBVIOUS
  <1>5. seen' = seen => SeenTimes(m)' = SeenTimes(m)
    BY DEF SeenTimes
  <1>6. ASSUME seen' = Append(seen, worker.item.id)
        PROVE  SeenTimes(m)' = Cardinality(Hits(Append(seen, worker.item.id), {m}))
    BY <1>2, <1>6
  <1> HIDE DEF SeenTimes
  <1> QED BY <1>2, <1>3, <1>4, <1>5, <1>6

\* What is still in the queue Discord has not seen.
LEMMA QueuedUnseen ==
    ASSUME QueueInv, ~Busy, queue # <<>>
    PROVE  SeenTimes(Head(queue).id) = 0
  <1>1. TypeOK
    BY DEF QueueInv
  <1>2. /\ queue \in Seq(Item) /\ Len(queue) \in Nat /\ DOMAIN queue = 1 .. Len(queue)
        /\ Len(settled) \in Nat /\ Len(accepted) \in Nat
        /\ DOMAIN accepted = 1 .. Len(accepted)
        /\ \A i \in 1 .. Len(accepted) : accepted[i] \in Nat
    BY <1>1, Shape
  <1> DEFINE n == Len(settled)
  <1>3. /\ Len(accepted) = n + Len(queue)
        /\ \A i \in 1 .. Len(queue) : queue[i].id = accepted[n + i]
        /\ \A j \in DOMAIN seen : \E i \in 1 .. n : seen[j] = accepted[i]
    <2>1. InHand = 0
      BY DEF InHand
    <2> QED BY <1>2, <2>1 DEF QueueInv, Pipeline
  <1>4. Len(queue) > 0 /\ Head(queue) = queue[1]
    BY <1>2, TailFacts
  <1> HIDE DEF n
  <1>5. n + 1 \in 1 .. Len(accepted) /\ n \in Nat /\ Head(queue).id = accepted[n + 1]
    BY <1>2, <1>3, <1>4 DEF n
  <1>6. ASSUME NEW i \in 1 .. n PROVE accepted[i] # accepted[n + 1]
    <2>1. i \in DOMAIN accepted /\ n + 1 \in DOMAIN accepted /\ i < n + 1
      BY <1>2, <1>5
    <2>2. accepted[i] < accepted[n + 1]
      BY <2>1 DEF QueueInv
    <2> QED BY <1>2, <2>1, <2>2
  <1>7. {j \in DOMAIN seen : seen[j] = Head(queue).id} = {}
    BY <1>3, <1>5, <1>6
  <1> QED BY <1>7, FS_EmptySet DEF SeenTimes

\* TriesCounted is kept: a notification that Discord accepts uses up an attempt.
LEMMA TriesStep == QueueInv /\ TriesCounted /\ [Next]_vars => TriesCounted'
  <1> SUFFICES ASSUME QueueInv, TriesCounted, [Next]_vars, Busy'
               PROVE  SeenTimes(worker.item.id)' <= Over'
    BY DEF TriesCounted, Over
  <1>1. TypeOK /\ TypeOK'
    BY TypeStep DEF QueueInv
  <1>2. worker.attempt \in Nat /\ worker'.attempt \in Nat
    BY <1>1 DEF TypeOK
  <1>3. Over \in Int /\ Over' \in Int
    BY <1>2 DEF Over
  <1> DEFINE k == worker.item.id
             k2 == worker'.item.id
             N(i) == SeenTimes(i)
  <1>4. CASE Busy /\ worker'.item = worker.item /\ Over' >= Over
    <2>1. N(k) <= Over /\ k \in Nat
      BY <1>1, <1>4, Shape DEF TriesCounted, Over
    <2>2. SeenTimes(worker.item.id)' = Cardinality({j \in DOMAIN seen' : seen'[j] = k})
      BY <1>4 DEF SeenTimes
    <2>3. CASE UNCHANGED seen
      <3>1. SeenTimes(worker.item.id)' = N(k)
        BY <2>2, <2>3 DEF SeenTimes
      <3>2. N(k) \in Nat
        BY <1>1, <2>1, SeenTimesStep
      <3> HIDE DEF N
      <3> QED BY <1>3, <1>4, <2>1, <3>1, <3>2
    <2>4. CASE /\ seen' = Append(seen, worker.item.id)
               /\ worker.step \in {"post", "repost"}
               /\ worker'.step = "retry"
               /\ worker'.attempt = worker.attempt
      <3>1. /\ Cardinality({j \in DOMAIN seen' : seen'[j] = k}) = N(k) + 1
            /\ N(k) \in Nat
        <4> HIDE DEF k
        <4>1. k \in Nat /\ k = worker.item.id
          BY <2>1 DEF k
        <4>2. Cardinality({j \in DOMAIN seen' : seen'[j] = k}) = N(k) + 1 /\ N(k) \in Nat
          BY <1>1, <2>4, <4>1, SeenTimesStep DEF SeenTimes
        <4> QED BY <4>2
      <3>2. Over = worker.attempt - 1 /\ Over' = worker.attempt
        BY <2>4 DEF Over
      <3> HIDE DEF N
      <3> QED BY <1>2, <2>1, <2>2, <3>1, <3>2
    <2> QED BY <1>1, <2>3, <2>4, ShowSteps
  <1>5. CASE /\ ~Busy /\ queue # <<>> /\ worker'.item = Head(queue)
             /\ worker'.attempt = 1 /\ worker'.step = "route"
    <2>1. seen' = seen
      BY <1>1, <1>5, ShowSteps DEF Busy, BusySteps
    <2>2. SeenTimes(worker.item.id)' = SeenTimes(Head(queue).id)
      BY <1>5, <2>1 DEF SeenTimes
    <2>3. Over' = 0
      BY <1>5 DEF Over
    <2> QED BY <1>5, <2>2, <2>3, QueuedUnseen
  <1> QED BY <1>1, <1>4, <1>5, TrySteps

\* The worker settles what it has in hand, and as sent only what Discord just took.
LEMMA SettleSteps ==
    ASSUME TypeOK, [Next]_vars
    PROVE  \/ /\ settled' = settled
              /\ \A r \in {"sent", "failed"} : stats'[r] = stats[r]
           \/ \E r \in {"sent", "failed"} :
                 /\ settled' = Append(settled, [id |-> worker.item.id, result |-> r])
                 /\ stats' = Count(r)
                 /\ r = "sent" => seen' = Append(seen, worker.item.id)
  <1> USE DEF vars, program, ghost
  <1>1. ASSUME UNCHANGED settled, stats' \in {stats, Count("dropped"), Count("throttled")}
        PROVE  \A r \in {"sent", "failed"} : stats'[r] = stats[r]
    BY <1>1 DEF TypeOK, Count, Stat
  <1>2. CASE Still
    BY <1>1, <1>2 DEF Still
  <1>3. CASE Accepts \/ Takes \/ Posts
    BY <1>3 DEF Accepts, Takes, Posts
  <1>4. CASE Settles
    <2>1. worker.step \in BusySteps /\ worker'.step \notin BusySteps
      BY <1>4 DEF Settles, Busy
    <2>2. CASE Route \/ AwaitToken \/ Retry
      <3>1. Settle("failed")
        BY <2>1, <2>2 DEF Route, AwaitToken, Retry, Goto, BusySteps, TypeOK
      <3> QED BY <3>1 DEF Settle
    <2>3. CASE Post
      <3>1. seen' = Append(seen, worker.item.id) /\ Settle("sent")
        BY <2>1, <2>3 DEF Post, Goto, BusySteps, TypeOK
      <3> QED BY <3>1 DEF Settle
    <2>4. CASE WorkerStops \/ Looks \/ Take
      BY <2>1, <2>4 DEF WorkerStops, Looks, Take, BusySteps
    <2>5. ASSUME worker' = worker PROVE FALSE
      BY <2>1, <2>5
    <2>6. ASSUME NEW c \in Channels, Enqueue(c) PROVE FALSE
      BY <2>5, <2>6 DEF Enqueue
    <2>7. ASSUME NEW k \in Keys, EnqueueSignal(k) PROVE FALSE
      BY <2>5, <2>7 DEF EnqueueSignal
    <2>8. CASE Shutdown \/ JoinReturns \/ ProcessEnds \/ Tick \/ UNCHANGED vars
      BY <2>5, <2>8 DEF Shutdown, JoinReturns, ProcessEnds, Tick
    <2> QED BY <2>2, <2>3, <2>4, <2>6, <2>7, <2>8 DEF Next, Worker
  <1> QED BY <1>2, <1>3, <1>4, StepKinds

\* The counts of the outcomes are kept by a step.
LEMMA CountsStep ==
    ASSUME TypeOK, [Next]_vars, NEW r \in {"sent", "failed"},
           stats[r] = Cardinality({i \in DOMAIN settled : settled[i].result = r})
    PROVE  stats'[r] = Cardinality({i \in DOMAIN settled' : settled'[i].result = r})
  <1> DEFINE T == {o \in Outcome : o.result = r}
  <1>1. settled \in Seq(Outcome) /\ settled' \in Seq(Outcome) /\ stats \in [Stat -> Nat]
    BY TypeStep DEF TypeOK
  <1>2. ASSUME NEW s \in Seq(Outcome)
        PROVE  {i \in DOMAIN s : s[i].result = r} = Hits(s, T)
    BY <1>2 DEF Hits
  <1>3. /\ stats[r] = Cardinality(Hits(settled, T))
        /\ Cardinality({i \in DOMAIN settled' : settled'[i].result = r}) =
              Cardinality(Hits(settled', T))
    BY <1>1, <1>2
  <1>4. CASE settled' = settled /\ stats'[r] = stats[r]
    BY <1>3, <1>4
  <1>5. ASSUME NEW q \in {"sent", "failed"},
               settled' = Append(settled, [id |-> worker.item.id, result |-> q]),
               stats' = Count(q)
        PROVE  stats'[r] = Cardinality(Hits(settled', T))
    <2> DEFINE o == [id |-> worker.item.id, result |-> q]
    <2>1. o \in Outcome /\ (o \in T <=> q = r)
      BY Shape DEF Outcome
    <2>2. stats'[r] = stats[r] + (IF q = r THEN 1 ELSE 0)
      BY <1>1, <1>5 DEF Count, Stat
    <2>3. settled' = Append(settled, o)
      BY <1>5
    <2> HIDE DEF o, T
    <2>4. Cardinality(Hits(settled', T)) =
             Cardinality(Hits(settled, T)) + (IF o \in T THEN 1 ELSE 0)
      BY <1>1, <2>1, <2>3, HitsAppend
    <2> QED BY <1>3, <2>1, <2>2, <2>4
  <1> HIDE DEF T
  <1> QED BY <1>3, <1>4, <1>5, SettleSteps

\* StatsExact is kept by every step.
LEMMA StatsStep == QueueInv /\ TriesCounted /\ StatsExact /\ [Next]_vars => StatsExact'
  <1> SUFFICES ASSUME QueueInv, TriesCounted, StatsExact, [Next]_vars PROVE StatsExact'
    OBVIOUS
  <1>1. TypeOK /\ TypeOK'
    BY TypeStep DEF QueueInv
  <1>2. \A r \in {"sent", "failed"} :
           stats'[r] = Cardinality({i \in DOMAIN settled' : settled'[i].result = r})
    BY <1>1, CountsStep DEF StatsExact
  <1>s. /\ seen \in Seq(Nat) /\ Len(seen) \in Nat /\ DOMAIN seen = 1 .. Len(seen)
        /\ worker.item.id \in Nat
        /\ settled \in Seq(Outcome) /\ Len(settled) \in Nat
        /\ DOMAIN settled = 1 .. Len(settled)
        /\ \A j \in 1 .. Len(seen) : seen[j] \in Nat
    BY <1>1, Shape
  <1>a. ASSUME seen' = Append(seen, worker.item.id)
        PROVE  /\ DOMAIN seen' = 1 .. (Len(seen) + 1)
               /\ \A j \in 1 .. Len(seen) : seen'[j] = seen[j]
               /\ seen'[Len(seen) + 1] = worker.item.id
    BY <1>s, <1>a, AppendFacts
  <1>b. \A j \in DOMAIN seen : j \in DOMAIN seen' /\ seen'[j] = seen[j]
    <2>1. CASE seen' = Append(seen, worker.item.id)
      BY <1>s, <1>a, <2>1
    <2> QED BY <1>1, <2>1, ShowSteps
  <1>3. \A i \in DOMAIN settled' :
           settled'[i].result = "sent" => \E j \in DOMAIN seen' : seen'[j] = settled'[i].id
    <2>1. \A i \in DOMAIN settled :
             settled[i].result = "sent" => \E j \in DOMAIN seen' : seen'[j] = settled[i].id
      BY <1>b DEF StatsExact
    <2>2. CASE settled' = settled
      BY <2>1, <2>2
    <2>3. ASSUME NEW r \in {"sent", "failed"},
                 settled' = Append(settled, [id |-> worker.item.id, result |-> r]),
                 r = "sent" => seen' = Append(seen, worker.item.id)
          PROVE  \A i \in DOMAIN settled' :
                    settled'[i].result = "sent" =>
                       \E j \in DOMAIN seen' : seen'[j] = settled'[i].id
      <3> DEFINE o == [id |-> worker.item.id, result |-> r]
      <3>1. o \in Outcome /\ o.id = worker.item.id /\ o.result = r
        BY <1>s DEF Outcome
      <3>2. settled' = Append(settled, o)
        BY <2>3
      <3> HIDE DEF o
      <3>3. /\ DOMAIN settled' = 1 .. (Len(settled) + 1)
            /\ \A i \in 1 .. Len(settled) : settled'[i] = settled[i]
            /\ settled'[Len(settled) + 1] = o
        BY <1>s, <3>1, <3>2, AppendFacts
      <3>4. r = "sent" => \E j \in DOMAIN seen' : seen'[j] = worker.item.id
        <4> SUFFICES ASSUME r = "sent" PROVE \E j \in DOMAIN seen' : seen'[j] = worker.item.id
          OBVIOUS
        <4>1. Len(seen) + 1 \in DOMAIN seen' /\ seen'[Len(seen) + 1] = worker.item.id
          BY <1>s, <1>a, <2>3
        <4> QED BY <4>1
      <3>5. ASSUME NEW i \in 1 .. (Len(settled) + 1), settled'[i].result = "sent"
            PROVE  \E j \in DOMAIN seen' : seen'[j] = settled'[i].id
        <4>1. CASE i \in 1 .. Len(settled)
          <5>1. settled'[i] = settled[i] /\ i \in DOMAIN settled
            BY <1>s, <3>3, <4>1
          <5> QED BY <2>1, <3>5, <5>1
        <4>2. CASE i = Len(settled) + 1
          <5>1. settled'[i] = o
            BY <3>3, <4>2
          <5> QED BY <3>1, <3>4, <3>5, <5>1
        <4> QED BY <1>s, <4>1, <4>2, LastOrEarlier
      <3> QED BY <3>3, <3>5
    <2> QED BY <1>1, <2>2, <2>3, SettleSteps
  <1>4. \A i \in DOMAIN seen' : SeenTimes(seen[i])' <= MaxAttempts
    <2> DEFINE T(m) == Cardinality({j \in DOMAIN seen' : seen'[j] = m})
    <2>1. \A m \in Nat :
             /\ SeenTimes(m) \in Nat
             /\ seen' = seen => T(m) = SeenTimes(m)
             /\ seen' = Append(seen, worker.item.id) =>
                   T(m) = SeenTimes(m) + (IF m = worker.item.id THEN 1 ELSE 0)
      BY <1>1, SeenTimesStep DEF SeenTimes
    <2>2. \A i \in DOMAIN seen' : SeenTimes(seen[i])' = T(seen'[i])
      BY DEF SeenTimes
    <2>3. \A i \in 1 .. Len(seen) : SeenTimes(seen[i]) <= MaxAttempts
      BY <1>s DEF StatsExact
    <2>4. MaxAttempts \in Nat
      BY QueueAssumption DEF QueueAssumption
    <2> HIDE DEF T
    <2>5. CASE seen' = seen
      BY <1>s, <2>1, <2>2, <2>3, <2>5, ZenonT(30)
    <2>6. CASE seen' = Append(seen, worker.item.id) /\ worker.step \in {"post", "repost"}
      <3>1. SeenTimes(worker.item.id) + 1 <= MaxAttempts
        <4>1. SeenTimes(worker.item.id) <= worker.attempt - 1
          BY <2>6 DEF TriesCounted, Busy, BusySteps
        <4>2. worker.attempt \in 1 .. MaxAttempts /\ SeenTimes(worker.item.id) \in Nat
          BY <1>1, <1>s, <2>1 DEF TypeOK
        <4> QED BY <2>4, <4>1, <4>2
      <3>2. ASSUME NEW i \in 1 .. (Len(seen) + 1) PROVE T(seen'[i]) <= MaxAttempts
        <4>1. CASE seen'[i] = worker.item.id
          BY <1>s, <2>1, <2>6, <3>1, <4>1, ZenonT(30)
        <4>2. CASE seen'[i] # worker.item.id
          <5>1. i # Len(seen) + 1
            BY <1>a, <2>6, <4>2
          <5>2. i \in 1 .. Len(seen)
            BY <1>s, <5>1
          <5>3. seen'[i] = seen[i] /\ seen[i] \in Nat
            BY <1>s, <1>a, <2>6, <5>2
          <5>4. T(seen[i]) = SeenTimes(seen[i]) + 0 /\ SeenTimes(seen[i]) \in Nat
            BY <2>1, <2>6, <4>2, <5>3
          <5> QED BY <2>3, <5>2, <5>3, <5>4
        <4> QED BY <4>1, <4>2
      <3> QED BY <1>a, <2>2, <2>6, <3>2
    <2> QED BY <1>1, <2>5, <2>6, ShowSteps
  <1> QED BY <1>2, <1>3, <1>4 DEF StatsExact

\* Every part of the inductive invariant holds in every reachable state.
THEOREM NotifyCorrect == Spec => []NotifyInv
  <1>1. Init => TriesCounted /\ WindowsKept /\ OncePerWindow
    BY DEF Init, Idle, Busy, BusySteps, TriesCounted, WindowsKept, OncePerWindow
  <1>2. QueueInv => TypeOK
    BY DEF QueueInv
  <1> QED BY <1>1, <1>2, TriesStep, WindowsStep, QueueCorrect, PTL DEF Spec, NotifyInv

\* What is counted as sent or failed is what was settled so, what is counted as sent
\* Discord has seen, and it has seen nothing more often than there are attempts.
THEOREM StatsCorrect == Spec => []StatsExact
  <1>1. Init => StatsExact
    <2> SUFFICES ASSUME Init PROVE StatsExact
      OBVIOUS
    <2>1. \A r : {i \in DOMAIN settled : settled[i].result = r} = {}
      BY DEF Init
    <2> QED BY <2>1, FS_EmptySet DEF Init, StatsExact, Stat
  <1>2. NotifyInv => QueueInv /\ TriesCounted
    BY DEF NotifyInv
  <1> QED BY <1>1, <1>2, StatsStep, NotifyCorrect, PTL DEF Spec

-----------------------------------------------------------------------------
\* The refinement

\* A step of the queue accepts, settles the next call, or changes nothing of
\* the outbox.
LEMMA BoxStep == QueueInv /\ [Next]_vars => [Box!Next]_<<accepted, settled>>
  <1> SUFFICES ASSUME QueueInv, [Next]_vars PROVE [Box!Next]_<<accepted, settled>>
    OBVIOUS
  <1>1. TypeOK
    BY DEF QueueInv
  <1> USE <1>1, Shape
  <1>2. CASE Still \/ Takes \/ Posts
    BY <1>2 DEF Still, Takes, Posts
  <1>3. CASE Accepts
    <2>1. /\ Len(queue) < MaxSize
          /\ Calls + 1 \in 1 .. MaxCalls
          /\ accepted' = Append(accepted, Calls + 1)
          /\ settled' = settled
      BY <1>3, QueueAssumption DEF Accepts, QueueAssumption
    <2>2. Len(accepted) < Len(settled) + (MaxSize + 1)
      BY <2>1, QueueAssumption DEF QueueInv, Pipeline, InHand, QueueAssumption
    <2>3. Box!Accept(Calls + 1)
      BY <2>1, <2>2 DEF Box!Accept
    <2> QED BY <2>1, <2>3, ZenonT(30) DEF Box!Next
  <1>4. CASE Settles
    <2>1. PICK r \in {"sent", "failed"} :
              settled' = Append(settled, [id |-> worker.item.id, result |-> r])
      BY <1>4 DEF Settles
    <2>2. /\ worker.item.id = accepted[Len(settled) + 1]
          /\ Len(settled) < Len(accepted)
      BY <1>4 DEF Settles, QueueInv, Pipeline, InHand
    <2>3. Box!SettleNext(r)
      BY <1>4, <2>1, <2>2 DEF Box!SettleNext, Settles
    <2> QED BY <2>3 DEF Box!Next
  <1> QED BY <1>2, <1>3, <1>4, StepKinds

\* The notification queue implements the outbox.
THEOREM BoxCorrect == Spec => BoxSpec
  <1>1. Init => Box!Init
    BY DEF Init, Box!Init
  <1> QED BY <1>1, BoxStep, QueueCorrect, PTL DEF Spec, BoxSpec, Box!Spec

=============================================================================
