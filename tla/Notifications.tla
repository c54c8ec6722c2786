--------------------------- MODULE Notifications ----------------------------
(***************************************************************************)
(* NotificationQueue and DiscordClient: the event loop enqueues without    *)
(* blocking, a daemon thread takes the notifications one by one and posts  *)
(* them, a signal handler stops the thread, and the process ends.          *)
(*                                                                         *)
(* Every call of an enqueue method makes one notification, known by its    *)
(* number: 1 for the first call, 2 for the next.  What it says is left     *)
(* out.  Waiting for a token is a choice between getting one and timing    *)
(* out; TokenBucket says when.                                             *)
(***************************************************************************)
EXTENDS Integers, Sequences, FiniteSets

CONSTANTS Channels,        \* Discord channels
          Configured,      \* the channels that have a webhook URL
          SignalChannel,   \* the channel of signals
          Keys,            \* symbol and type of a signal
          MaxSize,         \* max_size of the queue
          Throttle,        \* signal_throttle_seconds, in ticks
          MaxAttempts,     \* max_retries + 1 of _send_webhook
          MaxCalls,        \* bound: calls of the enqueue methods
          MaxTime          \* bound: ticks

ASSUME QueueAssumption ==
    /\ Configured \subseteq Channels
    /\ SignalChannel \in Channels
    /\ MaxSize \in Nat \ {0}
    /\ Throttle \in Nat
    /\ MaxAttempts \in Nat \ {0}
    /\ MaxCalls \in Nat
    /\ MaxTime \in Nat

VARIABLES
    queue,       \* NotificationQueue.queue
    worker,      \* the daemon thread: where it is and its locals
    stop,        \* _stop_event
    main,        \* the event loop's thread
    lastSent,    \* _signal_throttle, by key, of the keys it has
    stats,       \* stats
    now,         \* time.time()
    seen,        \* ghost: what Discord accepted, in order
    accepted,    \* ghost: the numbers whose enqueue call returned True, in order
    settled,     \* ghost: the outcomes of those the worker is done with, in order
    history      \* ghost: the signal calls

program == <<queue, worker, stop, main, lastSent, stats>>
ghost   == <<seen, accepted, settled, history>>
vars    == <<program, now, ghost>>

-----------------------------------------------------------------------------
Item   == [id : Nat, channel : Channels]
Stat   == {"sent", "failed", "dropped", "throttled"}
Outcome == [id : Nat, result : {"sent", "failed"}]
Signal == [id : Nat, key : Keys, time : Nat, result : {"queued", "dropped", "throttled"}]

BusySteps   == {"route", "token", "post", "repost", "retry"}
WorkerSteps == {"poll", "get", "over"} \union BusySteps

\* What the worker holds when it holds nothing.
NoItem == [id |-> 0, channel |-> SignalChannel]
Idle   == [step |-> "poll", item |-> NoItem, attempt |-> 1]

Count(s) == [stats EXCEPT ![s] = @ + 1]

\* Calls so far: every call is enqueued, dropped or throttled.
Calls == Len(accepted) + stats["dropped"] + stats["throttled"]

\* Definitions whose name ends in an underscore are deliberately wrong variants
\* of the definition that follows them, used to test the properties.

\* _is_throttled.
Throttled_(k) == k \in DOMAIN lastSent /\ now - lastSent[k] <= 0
Throttled(k)  == k \in DOMAIN lastSent /\ now - lastSent[k] < Throttle

Init ==
    /\ queue = <<>>
    /\ worker = Idle
    /\ stop = FALSE
    /\ main = "running"
    /\ lastSent = [k \in {} |-> 0]
    /\ stats = [s \in Stat |-> 0]
    /\ now = 0
    /\ seen = <<>>
    /\ accepted = <<>>
    /\ settled = <<>>
    /\ history = {}

-----------------------------------------------------------------------------
(***************************************************************************)
(* The event loop's thread.                                                *)
(***************************************************************************)

Enqueued_(c) ==
    /\ queue' = <<[id |-> Calls + 1, channel |-> c]>> \o queue
    /\ accepted' = Append(accepted, Calls + 1)
    /\ UNCHANGED stats

\* put_nowait succeeds.
Enqueued(c) ==
    /\ Len(queue) < MaxSize
    /\ queue' = Append(queue, [id |-> Calls + 1, channel |-> c])
    /\ accepted' = Append(accepted, Calls + 1)
    /\ UNCHANGED stats

\* put_nowait raises Full.
Dropped ==
    /\ Len(queue) >= MaxSize
    /\ stats' = Count("dropped")
    /\ UNCHANGED <<queue, accepted>>

CanEnqueue == main \in {"running", "stopped"} /\ Calls < MaxCalls

\* enqueue_trade_entry, enqueue_trade_exit, enqueue_alert, enqueue_daily_summary.
Enqueue(c) ==
    /\ CanEnqueue
    /\ Enqueued(c) \/ Dropped
    /\ UNCHANGED <<worker, stop, main, lastSent, now, seen, settled, history>>

Record(k, result) ==
    history' = history \union {[id |-> Calls + 1, key |-> k, time |-> now, result |-> result]}

\* enqueue_signal: the time is recorded before it is known whether there is
\* room.
EnqueueSignal(k) ==
    /\ CanEnqueue
    /\ \/ /\ Throttled(k)
          /\ stats' = Count("throttled")
          /\ Record(k, "throttled")
          /\ UNCHANGED <<queue, accepted, lastSent>>
       \/ /\ ~Throttled(k)
          /\ lastSent' = [j \in DOMAIN lastSent \union {k} |->
                            IF j = k THEN now ELSE lastSent[j]]
          /\ \/ Enqueued(SignalChannel) /\ Record(k, "queued")
             \/ Dropped /\ Record(k, "dropped")
    /\ UNCHANGED <<worker, stop, main, now, seen, settled>>

\* The signal handler interrupts the thread and calls shutdown.
Shutdown ==
    /\ main \in {"running", "stopped"}
    /\ stop' = TRUE
    /\ main' = "joining"
    /\ UNCHANGED <<queue, worker, lastSent, stats, now, ghost>>

\* join(timeout) returns, because the worker is over or the time is; then the
\* interrupted code goes on.
JoinReturns ==
    /\ main = "joining"
    /\ main' = "stopped"
    /\ UNCHANGED <<queue, worker, stop, lastSent, stats, now, ghost>>

\* The process ends and takes the daemon thread with it.
ProcessEnds ==
    /\ main # "over"
    /\ main' = "over"
    /\ UNCHANGED <<queue, worker, stop, lastSent, stats, now, ghost>>

-----------------------------------------------------------------------------
(***************************************************************************)
(* The daemon thread.                                                      *)
(***************************************************************************)

Alive == main # "over"

Goto(s) == worker' = [worker EXCEPT !.step = s]

\* The loop's condition: the worker stops whatever is in the queue.
WorkerStops ==
    /\ Alive
    /\ worker.step = "poll"
    /\ stop
    /\ Goto("over")
    /\ UNCHANGED <<queue, stop, main, lastSent, stats, now, ghost>>

Looks_ ==
    /\ Alive
    /\ worker.step = "poll"
    /\ Goto("get")
    /\ UNCHANGED <<queue, stop, main, lastSent, stats, now, ghost>>

\* The loop's condition is false: go on.
Looks ==
    /\ Alive
    /\ worker.step = "poll"
    /\ ~stop
    /\ Goto("get")
    /\ UNCHANGED <<queue, stop, main, lastSent, stats, now, ghost>>

\* The queue is empty: sleep and go round; otherwise get.
Take ==
    /\ Alive
    /\ worker.step = "get"
    /\ \/ /\ queue = <<>>
          /\ Goto("poll")
          /\ UNCHANGED queue
       \/ /\ queue # <<>>
          /\ queue' = Tail(queue)
          /\ worker' = [step |-> "route", item |-> Head(queue), attempt |-> 1]
    /\ UNCHANGED <<stop, main, lastSent, stats, now, ghost>>

Settle_(result) ==
    /\ stats' = Count("sent")
    /\ settled' = Append(settled, [id |-> worker.item.id, result |-> result])
    /\ worker' = Idle

\* send_embed returned: count and go round the loop.
Settle(result) ==
    /\ stats' = Count(result)
    /\ settled' = Append(settled, [id |-> worker.item.id, result |-> result])
    /\ worker' = Idle

\* A channel without a URL is skipped.
Route ==
    /\ Alive
    /\ worker.step = "route"
    /\ \/ /\ worker.item.channel \in Configured
          /\ Goto("token")
          /\ UNCHANGED <<stats, settled>>
       \/ /\ worker.item.channel \notin Configured
          /\ Settle("failed")
    /\ UNCHANGED <<queue, stop, main, lastSent, now, seen, accepted, history>>

\* The rate limiter grants a token, or times out.
AwaitToken ==
    /\ Alive
    /\ worker.step = "token"
    /\ \/ /\ Goto("post")
          /\ UNCHANGED <<stats, settled>>
       \/ Settle("failed")
    /\ UNCHANGED <<queue, stop, main, lastSent, now, seen, accepted, history>>

\* requests.post: Discord accepts and answers, accepts and the answer is lost,
\* answers 429, or refuses.  After a 429 the post is repeated once, and a
\* second 429 is an error.
Post ==
    /\ Alive
    /\ worker.step \in {"post", "repost"}
    /\ \/ /\ seen' = Append(seen, worker.item.id)
          /\ Settle("sent")
       \/ /\ seen' = Append(seen, worker.item.id)
          /\ Goto("retry")
          /\ UNCHANGED <<stats, settled>>
       \/ /\ worker.step = "post"
          /\ Goto("repost")
          /\ UNCHANGED <<seen, stats, settled>>
       \/ /\ Goto("retry")
          /\ UNCHANGED <<seen, stats, settled>>
    /\ UNCHANGED <<queue, stop, main, lastSent, now, accepted, history>>

Retry_ ==
    /\ Alive
    /\ worker.step = "retry"
    /\ queue' = Append(queue, worker.item)
    /\ worker' = Idle
    /\ UNCHANGED <<stop, main, lastSent, stats, now, ghost>>

RetryForEver_ ==
    /\ Alive
    /\ worker.step = "retry"
    /\ Goto("post")
    /\ UNCHANGED <<queue, stop, main, lastSent, stats, now, ghost>>

\* retry_with_backoff: post again, or send_embed returns False.
Retry ==
    /\ Alive
    /\ worker.step = "retry"
    /\ \/ /\ worker.attempt < MaxAttempts
          /\ worker' = [worker EXCEPT !.step = "post", !.attempt = @ + 1]
          /\ UNCHANGED <<stats, settled>>
       \/ /\ worker.attempt = MaxAttempts
          /\ Settle("failed")
    /\ UNCHANGED <<queue, stop, main, lastSent, now, seen, accepted, history>>

Tick ==
    /\ now < MaxTime
    /\ now' = now + 1
    /\ UNCHANGED <<program, ghost>>

-----------------------------------------------------------------------------
Worker == WorkerStops \/ Looks \/ Take \/ Route \/ AwaitToken \/ Post \/ Retry

Next ==
    \/ \E c \in Channels : Enqueue(c)
    \/ \E k \in Keys : EnqueueSignal(k)
    \/ Shutdown \/ JoinReturns \/ ProcessEnds
    \/ Worker
    \/ Tick

Spec == Init /\ [][Next]_vars

\* The thread is scheduled and its posts have a timeout.
FairSpec == Spec /\ WF_vars(Worker) /\ WF_vars(JoinReturns)

-----------------------------------------------------------------------------
\* Every variable has its type.
TypeOK ==
    /\ queue \in Seq(Item)
    /\ worker \in [step : WorkerSteps, item : Item, attempt : 1 .. MaxAttempts]
    /\ stop \in BOOLEAN
    /\ main \in {"running", "joining", "stopped", "over"}
    /\ DOMAIN lastSent \subseteq Keys
    /\ \A k \in DOMAIN lastSent : lastSent[k] \in 0 .. now
    /\ stats \in [Stat -> Nat]
    /\ now \in Nat
    /\ seen \in Seq(Nat)
    /\ accepted \in Seq(Nat)
    /\ settled \in Seq(Outcome)
    /\ history \subseteq Signal

Busy == worker.step \in BusySteps
InHand == IF Busy THEN 1 ELSE 0

\* Nothing an enqueue method accepted is lost, doubled or overtaken between the
\* two threads: the accepted notifications are those settled, the one in hand
\* and those waiting, in this order.
Pipeline ==
    /\ Len(accepted) = Len(settled) + InHand + Len(queue)
    /\ \A i \in DOMAIN settled : settled[i].id = accepted[i]
    /\ Busy => worker.item.id = accepted[Len(settled) + 1]
    /\ \A i \in DOMAIN queue : queue[i].id = accepted[Len(settled) + InHand + i]

\* How often Discord has seen a notification.
SeenTimes(n) == Cardinality({j \in DOMAIN seen : seen[j] = n})

\* The statistics agree with what happened: what is counted as sent was seen, and
\* nothing is seen more often than it is posted with a lost answer.
StatsExact ==
    /\ \A r \in {"sent", "failed"} :
          stats[r] = Cardinality({i \in DOMAIN settled : settled[i].result = r})
    /\ \A i \in DOMAIN settled :
          settled[i].result = "sent" => \E j \in DOMAIN seen : seen[j] = settled[i].id
    /\ \A i \in DOMAIN seen : SeenTimes(seen[i]) <= MaxAttempts

\* Discord sees notifications in the order of the enqueue calls, whatever is
\* retried after a lost answer.
SeenInOrder ==
    \A i, j \in DOMAIN seen : i <= j => seen[i] <= seen[j]

\* Two signals of one key are never queued within the throttle window.
OncePerWindow ==
    \A g, h \in history :
        /\ g.key = h.key
        /\ g.result = "queued"
        /\ h.result = "queued"
        /\ g.id < h.id
        => h.time - g.time >= Throttle

\* The queue implements a bounded outbox that settles its log in order.
Box == INSTANCE Outbox WITH log <- accepted, outcomes <- settled,
                            Ids <- 1 .. MaxCalls, Bound <- MaxSize + 1
BoxSpec == Box!Spec

\* The inductive invariant behind Pipeline, SeenInOrder and BoxSpec: the numbers
\* of the accepted calls grow, and what Discord has seen the worker has taken.
QueueInv ==
    /\ TypeOK
    /\ Len(queue) <= MaxSize
    /\ Pipeline
    /\ \A i \in DOMAIN accepted : accepted[i] <= Calls
    /\ \A i, j \in DOMAIN accepted : i < j => accepted[i] < accepted[j]
    /\ \A j \in DOMAIN seen :
          \E i \in 1 .. (Len(settled) + InHand) : seen[j] = accepted[i]
    /\ SeenInOrder

\* The strengthening of StatsExact: the notification in hand has been seen at most
\* once for each attempt that is over.
TriesCounted ==
    Busy => SeenTimes(worker.item.id)
              <= (IF worker.step = "retry" THEN worker.attempt ELSE worker.attempt - 1)

\* The strengthening of OncePerWindow: a queued signal is old, and its key's throttle
\* window started no earlier.
WindowsKept ==
    \A g \in history :
        /\ g.id <= Calls
        /\ g.result = "queued" =>
              g.key \in DOMAIN lastSent /\ g.time <= lastSent[g.key]

NotifyInv == QueueInv /\ TriesCounted /\ WindowsKept

\* What is accepted is settled, unless the worker is stopped or the process
\* ends first.
AcceptedSettled ==
    \A n \in 1 .. MaxCalls :
        Len(accepted) >= n ~> Len(settled) >= n \/ stop \/ main = "over"

\* Once told to stop the worker does, unless the process ends first.
ShutdownEnds == stop ~> worker.step = "over" \/ main = "over"

=============================================================================
