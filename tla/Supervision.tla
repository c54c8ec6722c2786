---------------------------- MODULE Supervision -----------------------------
(***************************************************************************)
(* What keeps the live process going and what stops it: the connect loop   *)
(* of StreamEngine.start, the signal handler, the circuit-breaker check    *)
(* after every bar, the daily portfolio snapshots it compares with, and    *)
(* the flag and the snapshots surviving the process.                       *)
(*                                                                         *)
(* What a bar does to the book and the account is in LiveTrading; here a   *)
(* bar is a dispatch followed by a check.  Equity takes a few values, and  *)
(* the market moves it at any time.                                        *)
(***************************************************************************)
EXTENDS Integers, Sequences, FiniteSets, FiniteSetsExt

CONSTANTS Values,          \* the values equity takes
          DefaultPeak,     \* what the repository returns without snapshots
          DailyPct,        \* daily_loss_limit, in percent
          WeeklyPct,       \* weekly_loss_limit
          DrawdownPct,     \* max_drawdown_limit
          LossDays,        \* consecutive_loss_days
          Lookback,        \* snapshots the weekly check looks back
          MaxDay,          \* bound: days
          Limit            \* bound: how often each event occurs

Events == {"fault",      \* a broker or database call that raises
           "stop",       \* SIGTERM or SIGINT
           "reset",      \* --reset-circuit-breaker
           "crash"}      \* the process dies

ASSUME SupervisionAssumption ==
    /\ Values \subseteq Nat \ {0} /\ Values # {}
    /\ DefaultPeak \in Nat
    /\ {DailyPct, WeeklyPct, DrawdownPct} \subseteq 0 .. 100
    /\ LossDays \in Nat \ {0}
    /\ Lookback \in Nat
    /\ MaxDay \in Nat
    /\ Limit \in [Events -> Nat]

VARIABLES
    phase,         \* where run_live_trading and StreamEngine.start are
    running,       \* StreamEngine._running
    baseline,      \* StreamEngine._equity_at_open
    bar,           \* the bar handler, and the equity its check has read
    post,          \* the post-market task, and the equity it has read
    posted,        \* the post-market task has run today
    active,        \* the circuit-breaker flag in the database
    rows,          \* the daily snapshots, oldest first
    equity,        \* the account's equity
    day,
    heard,         \* ghost: the phase in which this process's engine was first stopped
    late,          \* ghost: bars dispatched during a breach, see CountLate
    used           \* how often each bounded event has occurred

engine == <<phase, running, baseline>>
db     == <<active, rows>>
market == <<equity, day>>
vars   == <<engine, bar, post, posted, db, market, heard, late, used>>

\* "down": no process.  "starting": run_live_trading before the engine exists.
\* "opening": start() awaits the account.  "waiting": it sleeps before it
\* connects again.
Phases == {"down", "starting", "opening", "streaming", "waiting"}

Row == [value : Values, peak : Nat, pnl : Int]

Idle == [pc |-> "idle", equity |-> 0]

Occurs(e) ==
    /\ used[e] < Limit[e]
    /\ used' = [used EXCEPT ![e] = @ + 1]

\* Without snapshots a fresh account is taken to be worth 500 dollars.
Peak == IF rows = <<>> THEN DefaultPeak ELSE Max({rows[i].peak : i \in DOMAIN rows})

\* get_portfolio_value_n_days_ago: counts snapshots, not days.
ValueAgo(n) ==
    IF Len(rows) > n THEN rows[Len(rows) - n].value
    ELSE IF rows # <<>> THEN rows[1].value ELSE DefaultPeak

\* get_consecutive_loss_days reaches the limit: the latest snapshots all have a
\* negative daily_pnl.
LossStreak ==
    /\ Len(rows) >= LossDays
    /\ \A i \in Len(rows) - LossDays + 1 .. Len(rows) : rows[i].pnl < 0

\* Disabled when the engine could not read the equity it started with.
DailyLoss(value) == baseline > 0 /\ 100 * (value - baseline) < -DailyPct * baseline

WeeklyLoss(value) == 100 * value < ValueAgo(Lookback) * (100 - WeeklyPct)

Drawdown(value) == 100 * value < Peak * (100 - DrawdownPct)

\* Definitions whose name ends in an underscore are deliberately wrong variants
\* of the definition that follows them, used to test the properties.

\* Forgets the daily loss.
Breached_(value) == WeeklyLoss(value) \/ Drawdown(value) \/ LossStreak

\* check_all_conditions.
Breached(value) == DailyLoss(value) \/ WeeklyLoss(value) \/ Drawdown(value) \/ LossStreak

\* Breached by the conditions that an elapsed day does not take back.
InBreach == DailyLoss(equity) \/ Drawdown(equity)

-----------------------------------------------------------------------------
Init ==
    /\ phase = "down"
    /\ running = FALSE
    /\ baseline = 0
    /\ bar = Idle
    /\ post = Idle
    /\ posted = FALSE
    /\ active = FALSE
    /\ rows = <<>>
    /\ equity \in Values
    /\ day = 1
    /\ heard = "none"
    /\ late = 0
    /\ used = [e \in Events |-> 0]

-----------------------------------------------------------------------------
(***************************************************************************)
(* The process and the connect loop.                                       *)
(***************************************************************************)

\* run_live_trading goes on only while the flag is clear.
Launch ==
    /\ phase = "down"
    /\ ~active
    /\ phase' = "starting"
    /\ UNCHANGED <<running, baseline, bar, post, posted, db, market, heard, used>>

\* The engine is built and start() runs up to its first await.
EngineStarts ==
    /\ phase = "starting"
    /\ phase' = "opening"
    /\ running' = TRUE
    /\ baseline' = 0
    /\ UNCHANGED <<bar, post, posted, db, market, heard, used>>

Connect_ == phase' = "streaming" /\ UNCHANGED <<running, heard>>

\* The head of the loop: connect, or return to main, which ends the process.
Connect ==
    IF running THEN phase' = "streaming" /\ UNCHANGED <<running, heard>>
               ELSE phase' = "down" /\ heard' = "none" /\ UNCHANGED running

\* get_account returned or raised, which is only logged.
BaselineRead ==
    /\ phase = "opening"
    /\ \/ baseline' = equity /\ UNCHANGED used
       \/ Occurs("fault") /\ UNCHANGED baseline
    /\ Connect
    /\ UNCHANGED <<bar, post, posted, db, market>>

StreamEnds_ ==
    /\ phase = "streaming"
    /\ bar.pc = "idle"
    /\ phase' = "down"
    /\ UNCHANGED <<running, baseline, bar, post, posted, db, market, heard, used>>

\* stream_bars returns: it swallows every exception of the connection, so an
\* error and an end of the stream look alike.
StreamEnds ==
    /\ phase = "streaming"
    /\ bar.pc = "idle"
    /\ IF running THEN phase' = "waiting" /\ UNCHANGED heard
                  ELSE phase' = "down" /\ heard' = "none"
    /\ UNCHANGED <<running, baseline, bar, post, posted, db, market, used>>

\* The sleep is over.  It always lasted the base delay: the doubled delay is
\* reset before it is used.
WakesUp ==
    /\ phase = "waiting"
    /\ Connect
    /\ UNCHANGED <<baseline, bar, post, posted, db, market, used>>

\* The signal handler schedules stop() on the engine.  Before there is one
\* the signal leaves no trace.
StopSignal ==
    /\ phase \notin {"down", "starting"}
    /\ Occurs("stop")
    /\ running' = FALSE
    /\ heard' = IF heard = "none" THEN phase ELSE heard
    /\ UNCHANGED <<phase, baseline, bar, post, posted, db, market>>

Crash ==
    /\ phase # "down"
    /\ Occurs("crash")
    /\ phase' = "down"
    /\ running' = FALSE
    /\ heard' = "none"
    /\ bar' = Idle
    /\ post' = Idle
    /\ UNCHANGED <<baseline, posted, db, market>>

-----------------------------------------------------------------------------
(***************************************************************************)
(* The bar handler.  stop() does not end the stream: bars are handled      *)
(* until the connection ends by itself.                                    *)
(***************************************************************************)

Dispatching == phase = "streaming" /\ bar.pc = "idle" /\ ~active

\* A bar passes the breaker's flag and is dispatched to the layers; while the
\* flag is set a bar goes no further than the stop-loss pass.
BarDispatched ==
    /\ Dispatching
    /\ bar' = [Idle EXCEPT !.pc = "handling"]
    /\ UNCHANGED <<engine, post, posted, db, market, heard, used>>

\* The signals are dealt with: the check awaits the account.
CheckReads ==
    /\ bar.pc = "handling"
    /\ \/ bar' = [pc |-> "checking", equity |-> equity] /\ UNCHANGED used
       \/ Occurs("fault") /\ bar' = Idle
    /\ UNCHANGED <<engine, post, posted, db, market, heard>>

\* The conditions are evaluated on what was read.  If the flag cannot be set the
\* handler logs that the check failed.
CheckEnds ==
    /\ bar.pc = "checking"
    /\ bar' = Idle
    /\ IF Breached(bar.equity)
       THEN \/ active' = TRUE /\ UNCHANGED used
            \/ Occurs("fault") /\ UNCHANGED active
       ELSE UNCHANGED <<active, used>>
    /\ UNCHANGED <<engine, post, posted, rows, market, heard>>

-----------------------------------------------------------------------------
(***************************************************************************)
(* The post-market task, 16:30 on every day of the week.                   *)
(***************************************************************************)

Scheduled == phase \in {"opening", "streaming", "waiting"}

PostMarketReads ==
    /\ Scheduled
    /\ post.pc = "idle"
    /\ ~posted
    /\ posted' = TRUE
    /\ \/ post' = [pc |-> "saving", equity |-> equity] /\ UNCHANGED used
       \/ Occurs("fault") /\ UNCHANGED post
    /\ UNCHANGED <<engine, bar, db, market, heard>>

NewPeak_(value) == value

NewPeak(value) == Max({Peak, value})

\* The peak is read and the row written without an await in between.  Its date
\* is the time of day, so it never replaces a row, and its daily_pnl is 0.
PostMarketSaves ==
    /\ post.pc = "saving"
    /\ post' = Idle
    /\ \/ /\ rows' = Append(rows, [value |-> post.equity, peak |-> NewPeak(post.equity),
                                   pnl |-> 0])
          /\ UNCHANGED used
       \/ Occurs("fault") /\ UNCHANGED rows
    /\ UNCHANGED <<engine, bar, posted, active, market, heard>>

-----------------------------------------------------------------------------
\* The market, the calendar and the operator.

MarketMoves ==
    /\ equity' \in Values \ {equity}
    /\ UNCHANGED <<engine, bar, post, posted, db, day, heard, used>>

NextDay ==
    /\ day < MaxDay
    /\ post.pc = "idle"
    /\ day' = day + 1
    /\ posted' = FALSE
    /\ UNCHANGED <<engine, bar, post, db, equity, heard, used>>

ResetBreaker ==
    /\ active
    /\ Occurs("reset")
    /\ active' = FALSE
    /\ UNCHANGED <<engine, bar, post, posted, rows, market, heard>>

-----------------------------------------------------------------------------
\* late counts the bars that are dispatched during one uninterrupted breach of
\* which no check failed.
CountLate ==
    late' = IF ~InBreach' \/ active' \/ phase' = "down" \/ used'["fault"] # used["fault"]
            THEN 0
            ELSE IF bar.pc = "idle" /\ bar'.pc = "handling" THEN late + 1 ELSE late

EngineStep == (EngineStarts \/ BaselineRead \/ WakesUp) /\ CountLate

BarStep == (CheckReads \/ CheckEnds) /\ CountLate

Environment ==
    /\ \/ Launch
       \/ StreamEnds
       \/ StopSignal
       \/ Crash
       \/ BarDispatched
       \/ PostMarketReads
       \/ PostMarketSaves
       \/ MarketMoves
       \/ NextDay
       \/ ResetBreaker
    /\ CountLate

Next == EngineStep \/ BarStep \/ Environment

Spec == Init /\ [][Next]_vars

\* The loop wakes the connect loop when its sleep is over and the bar handler
\* when the account has been read.
FairSpec == Spec /\ WF_vars(EngineStep) /\ WF_vars(BarStep)

-----------------------------------------------------------------------------
(***************************************************************************)
(* Properties                                                              *)
(***************************************************************************)

TypeOK ==
    /\ phase \in Phases
    /\ running \in BOOLEAN
    /\ baseline \in {0} \union Values
    /\ bar \in [pc : {"idle", "handling", "checking"}, equity : {0} \union Values]
    /\ post \in [pc : {"idle", "saving"}, equity : {0} \union Values]
    /\ posted \in BOOLEAN
    /\ active \in BOOLEAN
    /\ rows \in Seq(Row)
    /\ equity \in Values
    /\ day \in Nat
    /\ heard \in Phases \union {"none"}
    /\ late \in Nat
    /\ used \in [Events -> Nat]

\* The drawdown is measured from the highest value ever recorded, although the
\* account is awaited before the peak is read and processes come and go.
PeakExact ==
    \A i \in DOMAIN rows :
        rows[i].peak = Max({DefaultPeak} \union {rows[j].value : j \in 1 .. i})

\* Once the engine has been told to stop it opens no further connection: on the
\* one it had, it goes on to the end of the stream.
StopHeard ==
    heard # "none" => ~running /\ (phase = "streaming" => heard = "streaming")

\* Bars are only handled on a connection, and only started with the flag clear
\* or while this very bar's check sets it.
SupervisionInv ==
    /\ TypeOK
    /\ PeakExact
    /\ StopHeard
    /\ bar.pc # "idle" => phase = "streaming"

\* A breach lets the bar that is being handled and one more bar through, across
\* restarts and resets of the flag, unless a check itself fails.
LateBounded == late <= 1

\* As long as nobody stops it, the engine connects again.
Resumes == running /\ phase # "streaming" ~> phase = "streaming" \/ ~running

\* A bar handled during a breach sets the flag, unless a call fails, the breach
\* is over before the account is read, or the process dies.
Trips ==
    bar.pc = "handling" /\ InBreach /\ used["fault"] = Limit["fault"]
        ~> active \/ ~InBreach \/ phase = "down"

=============================================================================
