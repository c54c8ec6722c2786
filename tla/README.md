# QuantAreWeGMI in TLA+

A verification project for the intraday trading system in `src/`: TLA+ modules
translated from the Python source, TLC configurations that check them on small
instances, and TLAPS proofs of the results that matter most for every value of
the constants.

Paths below are relative to the repository (`src/` here is its root, so
`src/src/engine/stream_engine.py` is the engine's file). To reproduce a result:

    tlc -config LiveFaults.cfg MCLiveTrading.tla
    tlapm LiveTradingProofs.tla

## 1. The system

One Python process (`main.py`) runs an asyncio event loop. An Alpaca websocket
delivers one-minute bars; `StreamEngine._on_bar` handles each of them: it stores
the bar, exits positions whose stop or target was hit, asks four strategy layers
for signals, submits the resulting orders and finally checks the circuit
breaker. An APScheduler on the same loop runs the daily jobs, the most important
being the end-of-day close. Every broker or database call that a task awaits
runs on an executor thread, so two such calls can be in flight at once, and the
loop serves the other task meanwhile. A worker thread posts notifications to
Discord. The trades, the daily state and the breaker flag are in a SQL database.
The broker account is the only authority on what is really held.

### Inventory

| component | state | operations | who calls it |
|---|---|---|---|
| Stream engine `engine/stream_engine.py` | `_open_positions`, `_open_orders`, `_running` | `_on_bar`, `_process_buy_signal`, `_process_exit_signal`, `start`/`stop` with reconnection, `_on_reconnect` | the websocket stream, `main.py` |
| Bar dispatcher `engine/bar_dispatcher.py` | `_last_stop_out` | `dispatch`, `get_open_position_count` | the bar handler |
| End-of-day manager `engine/eod_manager.py` | none of its own; reads the engine's live dict | `run_eod_close`, `cancel_open_orders`, `_build_eod_summary` | scheduler, 15:30 New York |
| Order manager `broker/order_manager.py` | `dry_run` | `submit_entry_order`, `submit_exit_order`, `emergency_liquidate` | engine, close, breaker, on executor threads |
| Broker client `broker/alpaca_client.py` | token bucket | one method per REST call, each throttled and retried | order manager, monitors |
| Account monitor `broker/account_monitor.py` | the account and the positions of the last poll | `start`, the polling task, `get_short_symbols`, `get_position` | `main.py` at start-up; the breaker is given it and does not use it |
| Repository, engine, models `database/` | tables of trades, PDT rows, daily state, breaker flag | one session per call | everybody |
| PDT guard `risk/pdt_guard.py` | deque of day-trade dates | `is_day_trade`, `can_exit`, `record_day_trade`, `get_rolling_count`, `get_reset_date` | engine, close, order manager |
| Circuit breaker `risk/circuit_breaker.py` | none; flag and snapshots in the database | `is_active`, `check_all_conditions`, `trigger`, `reset` | bar handler, `main.py` |
| Position sizer `risk/position_sizer.py` | none | `compute_shares` | engine, replay |
| Stop-loss manager `risk/stop_loss_manager.py` | none | stop arithmetic | its tests |
| Strategy layers `strategy/` (L1..L4), regime filter, prediction engine | private positions, L2's triggered set, L4's fade counts, the regime | `evaluate_bar`, `should_exit`, `reset_daily_state`, `clear_position` | bar dispatcher, engine, scheduler |
| Bar store, market data, indicators `data/` | bars, counts, opening ranges, caches | `update`, `preload_bars`, `finalize_opening_range`, resets | bar handler, scheduler |
| Notifications `notifications/` | bounded queue, throttle times, statistics, token bucket | `enqueue_*`, worker loop, `send_embed`, `shutdown` | engine, close, breaker, `main.py` |
| Intraday backtest `backtest/backtest_engine.py`, `backtest_broker.py` | the simulated account, the timeline, and a bar store, dispatcher, regime filter and sizer of its own | `run`, `_process_bar`, `submit_buy`, `submit_sell`, `force_close_all` | `main.py --test` |
| Daily backtest `backtest/engine.py`, daily strategies | simulated portfolio | replay of daily bars | nobody; the daily strategies' tests |
| Universe screener `universe/screener.py`, market data `data/market_data.py` | the bar cache, the universe table | `run`, `_run_pipeline`, `fetch_bars_bulk` | a job before the market opens, scripts |
| Reports, logging, retry `reports/`, `utils/` | none | leaf helpers | |

### How they interact, and what makes it hard

* The bar handler and the close are two tasks on one loop. Each reads state,
  awaits an executor call and uses what it read: `_process_buy_signal` counts
  positions, awaits the account and the order, then inserts; `run_eod_close`
  copies the live dict and works through the copy while bars are still handled.
* The two tasks can have an exit of the *same* position in flight on two
  threads. Each thread reads the broker's quantity and sells later.
* Calls fail, and worse: an order is executed and its reply is lost, after which
  the retry decorator submits it again; a sell is executed and the trade row
  cannot be updated; a row is committed and reading it back fails.
* Stop orders rest at the broker and fill without the process being told.
* The breaker liquidates the account from inside the bar handler, without
  touching the engine's dicts.
* The process can die between any two steps; it restarts with an empty book.
* At start-up inherited shorts are bought back one after the other, from a list
  and from sizes of different polls, while orders are filled, or wait for the
  market to open and outlive the process.
* `stop()` only clears a flag, which the connect loop looks at between streams;
  a stream can end at any time, and it ends without an exception.
* The breaker's check awaits the account after the bar's orders, while the market
  moves; what it compares with was written by earlier processes.
* The replay evaluates all layers of a bar before it acts on the first signal,
  and its account sells by symbol where its callers mean a position.
* The screener gathers many downloads of which any may fail, hang for its turn or
  be served from a cache, and falls back on what an earlier day saved.
* There are two PDT guards: the one `main.py` constructs for the engine and the
  close, and the module's singleton in which the order manager records.

### What makes each component correct

* Engine: its two dicts agree; one layer per symbol; never more than
  `max_positions` symbols; every OPEN row it wrote is in its book; no bar blocks
  it for ever.
* Order manager and broker: the account never goes short by itself.
* Circuit breaker: no entry while the flag is set; nothing is held afterwards.
* Close: every position that can be closed is closed or reported; it ends.
* PDT guard: the day trades of five business days stay within the limit.
* Notifications: signals are delivered in order or counted as lost; shutdown
  delivers what is queued; the rate limit is respected.
* Bar store: a session's bars, and an opening range made only of its minutes.
* Layers: one breakout entry a day, no position past its limit of bars, no entry
  in a cooldown.
* Start-up: an inherited short is bought back, and not more than it.
* Supervision: a stopped engine never connects again, an unstopped one always
  does; a breach is acted on at the next check; the peak is never forgotten.
* Replay: money is conserved by each fill, the limits hold whatever several layers
  buy on one bar, and nothing is held past the close but what was bought after it.
* Screener: it ends; a saved universe accounts for every symbol; a good universe
  is never displaced by a small one.

## 2. The modules

| module | what it is |
|---|---|
| `PositionBook` | abstract specification of the engine's book: open a free symbol while there is room, close one position, forget everything at a restart |
| `LiveTrading` | the live process: bar handler, close, order manager calls, breaker, guards, trades table, broker account, crash and restart |
| `MCLiveTrading` | the event budgets the configurations use |
| `LiveTradingProofs` | the theorems about `LiveTrading` |
| `TokenBucket` | the rate limiter of the broker client and that of the Discord client, which run the same algorithm |
| `Outbox` | abstract specification of the notification queue: calls are logged and settled one by one in the order of the log |
| `Notifications` | the notification queue, its throttle, the daemon thread, the Discord client's retries, shutdown |
| `NotificationsProofs` | its inductive invariant, the statistics, the throttle and the refinement of `Outbox` |
| `PDTGuard` | the guard's calendar, bounded deque, rolling count and reset date |
| `LimitProofs` | the theorems about the two limits on what may happen within a window, `TokenBucket` and `PDTGuard` |
| `TradingSession` | the bar store, the dispatcher's cooldown and the private state of the four layers over the parts of the day |
| `MCTradingSession` | its small instances |
| `TradingSessionProofs` | its types and its four safety properties |
| `Supervision` | the connect loop, the signal handler, the breaker's four conditions and the daily snapshots they read, across restarts |
| `MCSupervision` | its event budget |
| `SupervisionProofs` | its inductive invariant, the peak and the bound on late bars |
| `AccountMonitor` | the polling of the account, and the purchase of inherited shorts before the engine is built |
| `MCAccountMonitor` | its small instance |
| `AccountMonitorProofs` | its inductive invariant and its two safety properties |
| `PositionSizer` | `compute_shares` as an operator |
| `BacktestBroker` | the simulated account: operators from one state of it to the next |
| `Replay` | the bar loop of the intraday backtest, over those two |
| `MCReplay` | its small instance |
| `ReplayProofs` | its limits and its books, the close, and where shares can vanish |
| `Screener` | the screening pipeline, the bulk download with its cache, and the universe table |
| `MCScreener` | its small instance |
| `ScreenerProofs` | its inductive invariant and its three safety properties |

### LiveTrading

State and code:

| variable | code |
|---|---|
| `openPositions`, `openOrders` | `StreamEngine._open_positions`, `_open_orders` |
| `bar` | where `_on_bar` is, with the locals it uses after an await: the snapshot of the symbol's positions, the filtered signals, the layer |
| `eod` | the same for `run_eod_close`; `kept` are the trades reported as held overnight |
| `call` | the `OrderManager` call each task awaits and how far its thread has got |
| `halted` | the breaker flag in the database |
| `dbOpen`, `nextTrade` | ids of trades with status OPEN, and the next id |
| `dayTrades` | the deque of the `get_pdt_guard()` singleton |
| `held`, `stops` | the broker account: lots held (negative when short), lots in resting stop orders |
| `day`, `hours` | the session, and the part of it: before every `no_entry_after`, past them, or after 16:00, when they no longer apply |
| `up` | the process runs |
| `firstTrade`, `moved`, `orphans` | ghosts: they record and never guard |
| `used` | how often each bounded environment event has happened |

One action is what the code does between two awaits. `LoopFree` says that no
task occupies the loop, which is when an awaiting task may resume and a new bar
or the scheduler's job may start. The synchronous `CircuitBreaker.trigger`
occupies the loop through `CancelAll`, `Liquidate`, `CloseTrades` and `SetFlag`,
while the other task's thread proceeds: those four are separate steps for that
reason. `Thread(t)` is the executor thread of task `t`; each of its broker or
database calls is one step: `ReadPositions`, `CancelOrders`, `SellOrder`,
`RecordExit` for an exit, `BuyOrder`, `ProtectEntry`, `SaveTrade` for an entry.

Faults are outcomes of the step of the call: it raises; it takes effect and then
raises (a lost reply, a row committed whose re-read fails). `Retry` is
`retry_with_backoff`: try again, or let the exception reach the order manager,
which returns None or False.

Abstractions, and why they are sound for the properties:

* Shares are lots and one entry buys one. The sizes the code computes are
  positive or the entry is abandoned, which `AccountReturned` may choose.
* What a layer signals is a choice in `Dispatch`, one of HOLD, BUY and EXIT per
  layer; confidence thresholds, cooldowns and the VIXY halt only turn a BUY into
  HOLD. Whether a stop is hit is a choice as well.
* Signals of a bar, and positions of the close's copy, are taken in any order;
  the code's order is one of them.
* A market order counts as filled when accepted. The broker refuses a sell that
  resting stops have reserved lots for (`BrokerSells`).
* Attaching the stop is one step: a fault there stands for all its attempts.
* Day-trade dates are session numbers; `Window` sessions are looked back. The
  code's business-day calendar is in `PDTGuard`.
* How long a broker call waits for a token is in `TokenBucket`; here a call
  takes any time.
* The price `run_eod_close` reads before an exit changes no state; the gap it
  creates is the one before `ReadPositions`.
* `TurnsLate` needs an idle bar handler: half an hour lies between the last
  `no_entry_after` (15:00) and the close (15:30), longer than one bar. For the
  same reason `HoursEnd`, at 16:00, comes after the close.
* Branches for positions without a trade id are left out: every position comes
  from a successful `submit_entry_order`, which has one.

### PositionBook

`LiveTrading` instantiates it with the `<<symbol, layer>>` pairs of the book and
states its specification as the property `BookSpec`.

### TokenBucket

`TokenBucketRateLimiter` (`broker/alpaca_client.py`) is shared by the event loop
and its executor threads, `_TokenBucket` (`notifications/discord_client.py`) has
one thread; they differ in what the caller does when `acquire` gives up. The
variable `insistent` says whose limiter it is: `AlpacaClient._throttle` makes
the call all the same, `send_embed` does not.

| variable | code |
|---|---|
| `now` | `time.monotonic()`, in ticks |
| `units` | `_tokens`, in units of which one is refilled per tick: a token is `Cost` units, so the float arithmetic is exact |
| `lastRefill` | `last_refill` |
| `caller` | where each thread is in `acquire`, and its deadline |
| `granted`, `calls` | ghosts: when tokens were taken, and when the guarded calls were made |

`TakeOrNot` is the locked part of the loop; `GiveUpOrSleep` is the check of the
deadline and the sleep outside the lock; `Proceed` is the caller's reaction.

### Notifications and Outbox

| variable | code |
|---|---|
| `queue` | `NotificationQueue._queue` |
| `worker` | the daemon thread: where it is in `_consumer_loop`, `send_embed` and `_send_webhook`, with the item in hand and the attempt |
| `stop` | `_stop_event` |
| `main` | the loop's thread: running, inside `shutdown`'s join, past it, or the process is over |
| `lastSent` | `_signal_throttle` |
| `stats` | `stats` |
| `seen`, `accepted`, `settled`, `history` | ghosts: what Discord accepted, whose enqueue call returned True, what the worker has finished, what became of each signal |

`Enqueue` and `EnqueueSignal` are the enqueue methods, `Shutdown`, `JoinReturns`
and `ProcessEnds` are `main.py`'s signal handler and the end of the process,
which takes a daemon thread with it at any point. The other actions are the
worker's, one for each place where another thread can come in between. A post
can be accepted and its answer lost, so a retry can duplicate a message.
`Outbox` is what callers may rely on; `BoxSpec` says the queue implements it
with room for `MaxSize` waiting notifications and one in hand.

### PDTGuard

Dates are integers and date 0 is a Monday. `BusinessDaysAgo` is
`_get_5_business_days_ago`, `RollingCount`, `CanExit` and `ResetDate` are the
methods of these names, `Appended` is the deque with its `maxlen`. The guard is
used here by one task, which checks and records in one step; what two tasks and
two instances make of it is part of `LiveTrading`.

### TradingSession

| variable | code |
|---|---|
| `day`, `part`, `edt` | the date, the part of the day in New York, whether daylight saving time is in force |
| `history`, `counts` | `BarStore._store[symbol]["1Min"]` as a number of bars, `_bar_counts` |
| `rangeBars`, `range`, `flat` | `_opening_range_bars` and `_opening_range` as the half hours their bars are from; symbols whose range has no extent |
| `tracked` | `_open_positions` of each layer, as `bars_held` |
| `triggered`, `fade` | `_triggered_today` of L2, `_volume_fade_counter` of L4 |
| `cooling` | symbols whose time in `BarDispatcher._last_stop_out` is less than the cooldown ago |
| `book` | `StreamEngine._open_positions` |
| `bar` | where `_on_bar` is, with its locals |
| `orbBuys` | ghost: L2's BUY signals since the market opened |

The module looks at what `LiveTrading` leaves to chance: which signals the layers
give, and what they remember of them. In turn an order's fate, which is in
`LiveTrading`, is a choice here; and as a symbol in the book is exactly a symbol
with an open order (`BookInv`), one variable stands for both dictionaries.

`L1Outcomes` to `L4Outcomes` are `evaluate_bar` of the layers: given what the
layer remembers they say which outcomes some price and some indicators lead to.
`Dispatch` takes one outcome for each layer and applies it, filtered by the
dispatcher, and the layer remembers its BUY whatever becomes of it. A layer that
finds a position only in the engine's book adopts it (`HeldNow`). The scheduler's
jobs are `Preload`, `MarketOpens` and `RangeCloses`; they run when the loop is
free, also while the handler awaits an order.

The parts of the day are the ones at whose borders something happens, and the
two half hours that `_maybe_accumulate_opening_range` takes for the opening one
in the other season. A bar belongs to the present part or to the one before.
Assumed is that the three jobs run when they are due (APScheduler skips a job it
comes to more than a second late), and that bars have positive prices.

### Supervision

| variable | code |
|---|---|
| `phase` | where `run_live_trading` and `StreamEngine.start` are: no process, before the engine is built, awaiting the account, inside `stream_bars`, in the sleep before the next connection |
| `running`, `baseline` | `StreamEngine._running`, `_equity_at_open` |
| `bar` | the handler between its dispatch and the end of its check, with the equity it has read |
| `post`, `posted` | `_post_market_task` with the equity it has read; whether it ran today |
| `active`, `rows` | in the database: the breaker flag and the daily snapshots, oldest first |
| `equity`, `day` | the account's equity, the date |
| `heard`, `late` | ghosts: the phase in which this process's engine was first told to stop, and the bars dispatched during one uninterrupted breach |

`LiveTrading` leaves to chance whether the breaker trips; here that is computed,
and what a bar does to the account is left to chance instead (`MarketMoves`).
`Connect` is the head of the loop in `start`, reached from the first read of the
account and after every sleep. `Breached` is `check_all_conditions` with its four
conditions in percent arithmetic; `Peak`, `ValueAgo` and `LossStreak` are the
repository's queries over `rows`, defaults included. The snapshot's date is the
time of day, so `save_daily_state` never finds one to update.

The signal handler's other two calls are elsewhere: the queue's shutdown is in
`Notifications`, and the shutdown event is not waited for by anybody.

### AccountMonitor

| variable | code |
|---|---|
| `view` | `AccountMonitor.open_positions` |
| `main` | `run_live_trading` from `account_monitor.start()` to the engine, with the rest of `short_symbols` |
| `order` | `submit_market_order` on its executor thread, with the attempt |
| `held`, `pending` | the broker account: positions, and lots in accepted buy orders |
| `touched`, `doubled`, `missed` | ghosts: where others acted, where the account buys more than the process knows of, and what this process could not see or buy |

`Launch` is everything up to the first await: the monitor's first poll, the list
made from it, and the first purchase; `Cover` takes the size from the poll that
is the latest by then. `_poll` never awaits, so it is one step of the loop, while
the thread and the broker go on. `LiveTrading` has the same start-up as one step,
`Startup`, with the purchases as outcomes; the two share no other state.

### Replay, BacktestBroker and PositionSizer

`BacktestBroker` has the account as a record and its methods as operators;
`PositionSizer` is one operator; `Replay` instantiates both.

| variable | code |
|---|---|
| `now`, `served` | the timestamp in the merged timeline, and whose bars of it have been processed |
| `prices` | `current_prices` |
| `account` | `BacktestBroker`: `cash`, `open` in the dict's order, `realized` (the sum of the history's pnl), and the ghost `lost`, the cost of shares that left the dict unsold |
| `regime`, `regimeDay` | `RegimeFilter._current_regime` (the scalar is a function of it), `regime_updated_for` |
| `opening`, `range`, `cooling` | the bar store's opening ranges and the dispatcher's cooldown, per symbol |
| `bar` | `_process_bar`: the filtered signals and the number of positions it counted before them |
| `lastClose` | ghost: the timestamp of the last end-of-day close |

Money is counted in a fraction of a dollar so that slippage is exact, with a
coarser slippage than the code's 0.05 percent; sizes are floors, as `int()` makes
them. Bars of the same minute come in any order of the symbols. Which signals the
layers give is a choice, as in `LiveTrading`, one of them at most from each layer, as
every `evaluate_bar` has it; `Admitted` is the dispatcher's loop over the layers. Left out are the progress display,
the equity curve and the statistics of the result, and the guard, which `run`
builds and hands to `_process_bar` and which is never asked there.

### Screener

| variable | code |
|---|---|
| `now`, `cache` | `time.time()`, `market_data._cache`, with the time the broker read the bars beside the code's stamp |
| `fetch` | each `_fetch_one`: waiting for the semaphore, in its thread with its attempts, replied, done, failed |
| `pc`, `again` | where `run` is, and whether it has called the pipeline a second time |
| `results`, `passed`, `rejected` | `bars_data`, the list that the filters shorten, the dict of the rejected |
| `saved` | the latest universe in the table |
| `hadBig` | ghost: a universe of the required size was saved at some time |

A symbol's bars are the set of filters they fail. The three filters without an
await run in one step, `Filters`; the spread filter awaits the quotes, `Quotes`.
Each later step may raise, which leads to the handler at the end of the pipeline
(`Handles`). `run` catches a `RuntimeError` that was meant for a missing event
loop and calls the pipeline again, whatever raised it.

### Wrong variants

A definition whose name ends in an underscore (`EntryGuards_`, `Refilled_`, ...) is
what a plausible mistake would make of the definition that follows it. Putting
it in place of the original makes TLC refute the property named with it in
`PROJECT.json`: the properties depend on the code being right there.

## 3. The runs

| run | instance | shows |
|---|---|---|
| `LiveFaults` | 2 symbols, `MaxPositions` 1, 2 attempts, 2 sessions, one fault, one lost reply, one stop fill | the inductive invariant `IInv`; `ShortsExplained`; `LotsExplained`; `EodCoversGated` |
| `LiveBook` | 3 symbols for 2 places, 3 trades in 2 sessions, day-trade limit 1 with a shared guard, no faults | `BookInv`, `DayTradesBounded`, and the refinement `BookSpec` |
| `LiveCrash` | 1 symbol, 1 session, fair specification; a crash, a restart, a fault, a breach and a reset | `HaltedMeansNoEntry`, `OpenTradesTracked`, and `TasksFinish` under fairness |
| `Bucket` | 2 threads, 2 tokens, a token every 2 ticks, 5 ticks, both limiters | `BucketInv`, `CallsBounded`, and `AcquireReturns` under fairness |
| `Notify` | a queue of 2, 4 calls, one configured and one unconfigured channel, 2 attempts, 2 ticks | `NotifyInv`, `StatsExact`, `OncePerWindow`, the refinement `BoxSpec`, and `AcceptedSettled`, `ShutdownEnds` under fairness |
| `Session` | 1 symbol, two days, 4 bars per life of the process, positions given up after 2 bars (L3: 1, on every second bar), both seasons, restarts | `SessionInv`, `OneOrbEntry`, `GivesUp`, `CooldownHolds` |
| `Pdt` | limit 2, a deque of 2, 17 days, 6 day trades | `GuardInv`, `PdtRule`, `DecisionExact`, `WindowExact` |
| `Supervise` | 3 values of equity, 3 days, one fault, one stop signal, one reset, one crash | `SupervisionInv`, `LateBounded`, and `Resumes`, `Trips` under fairness |
| `Startup` | 2 symbols with a short of 2, none or a long position, 2 attempts, one fault, one lost reply, one intervention, one crash | `StartupInv`, `StartedCovered` |
| `Replay` | 2 symbols (symmetric), 2 layers, 1 place, 2 prices, 2 days of 4 minutes | `ReplayInv`, `ClosedDaily`, and the action property `LossNeedsSharing` |
| `Screen` | 2 symbols, 1 permit, 2 attempts, a cache time of 2, replies of up to 1, 4 ticks, any number of screenings and restarts | `ScreenerInv`, `ServedFresh`, `FallbackHolds`, and `ScreeningEnds` under fairness |

The `Live` instances have two layers, one of which honours `no_entry_after`.

Why the bounds are enough. For `LiveTrading` the hazards need two layers on one
symbol (both want to buy in one bar), one symbol more than places (the limit is
reached while an entry is awaited), one exit on each of the two tasks, two
sessions (a position kept overnight or left in the book is exited the next day),
and one event of each kind, since every guard in the code looks at the present
state and not at how often something failed. With a look-back of one session and
a limit of one, three trades reach the excess of one that `DayTradesBounded`
allows. `MaxTrades` bounds the entries; it guards only the BUY a layer may emit,
so no path is cut half way. In `Bucket` the bucket can be emptied and refilled,
both threads can wait for one token, and a caller that starts has time to reach
its deadline. In `Notify` the queue overflows, a signal is throttled and a
signal's window passes, a post is retried, and the worker is stopped with
notifications waiting. In `Session` a bar stands for many: the four of them are
enough for each layer to buy, hold and give up, for the opening range to be made
on one day and made anew or missed on the next, and for L4's limit to be passed;
restarts begin a new count, so the run may see many more. In `Pdt` the window
slides over two weekends and the deque forgets. In `Supervise` the three values
are a loss of more than the daily limit and a drawdown, a loss within them, and
none; two snapshots are enough for the look-back and the streak, and the market
may move any number of times. In `Startup` one symbol is bought while the other
is on the list, an order is filled in two parts, and the crash leaves an order
behind. In `Replay` the two prices are the least with a
gain, a loss and a stop; the four minutes are the open, the end of the opening
range, the close and the minute after it, on two days, so that a position can
survive a close that has passed; two layers can share a symbol or compete for
the only place. In `Screen` one download waits for the other, an entry of the
cache expires, a universe of two is big and one of one symbol small; the number
of screenings is not bounded.

Deadlock is checked except where the system really stops: `LiveCrash` (with the
flag set and nobody resetting it a dead process stays down, as `main.py`
intends) and `Supervise` for the same reason, `Bucket`, `Pdt` and `Replay` (the
bound on time ends the run), `Notify` (the process ends), and `Screen`, where
nothing but a new run may be left to do.

What the properties say, beyond their comments in the modules:

* `BookInv` is about the awaits in `_process_buy_signal`: the count and the
  insertion are separated by two awaits, yet the limit holds, because the stream
  awaits the handler and the close never inserts.
* `OpenTradesTracked` relates the table and the book. Its exception, `orphans`,
  is a real outcome: `save_trade` commits, then reads the row back in a second
  session, and if that raises the caller is told nothing was saved.
* `ShortsExplained` names everything that can make the account short: lots that
  left the account while the book still lists them, the close's sales among them. It
  does not forbid those, which the code allows; in their absence (`moved`
  without the symbol) no interleaving of the two tasks' exits sells twice.
* `LotsExplained` is the other direction: lots that the account holds and the book
  does not know have a cause, a lost reply, an inherited position, a row that was
  not saved or a process that died.
* `EodCoversGated` holds for layers that apply `no_entry_after`.
* `DayTradesBounded` is about a guard shared by everybody, which the constructor
  parameters allow but `main.py` does not build: the check precedes an await and
  the record follows it, so the close and the bar handler together exceed the
  limit, by one at most.
* `BucketInv` bounds the tokens granted between any two grants by a full bucket
  and what was refilled. `CallsBounded` carries this over to the calls, for the
  limiter whose callers respect a refusal: the other threads may hold a token
  they took earlier.
* `NotifyInv` contains `Pipeline`, the order and the completeness of what passes
  between the two threads, and `SeenInOrder`, what Discord makes of it;
  `StatsExact` relates the counters to what was seen; `OncePerWindow` relates the
  throttle's state to the history of calls.
* `SessionInv` contains `RangePure`, which depends on the reset at 9:30: in winter
  the bars from 8:30 to 9:00, in summer those from 10:30 to 11:00 are collected as
  opening bars too, and the reset and the time of the finalisation are what keeps
  them out.
* `OneOrbEntry` survives the adoption of a position on the day after, dropped
  signals and failed orders; a restart begins a new count.
* `GivesUp` is about L1, L3 and L4. L2 is not in it: with an opening range
  without extent, or an average true range of zero, it returns before it looks at
  its time stop (`opening_range_breakout.py:327`, `:347`).
* `CooldownHolds` has an exception that is real: see below.
* `DecisionExact` says that a deque with a maximum length loses nothing the
  decision needs, which depends on the limit not exceeding the length.
* `WindowExact` compares what the guard counts with a definition that walks over no
  calendar: the day trades made at most five business days before today, which is
  what the docstring of `_get_5_business_days_ago` (`pdt_guard.py:288`) says of the
  cutoff. It does not say that this is the window of the module's head, which is a
  day shorter: see below.
* `SupervisionInv` contains `PeakExact`, which survives the await between reading
  the equity and reading the peak, and `StopHeard`: a stop during a stream does
  not end it, during the account's read or a sleep it prevents the connection.
* `LateBounded` allows the bar whose check read the account just before the
  breach; `Trips` is its positive side.
* `StartupInv` contains `CoverOnce`, which needs that a symbol is on the list once and that a poll between two
  purchases does not put it back: an order that is accepted and not filled leaves
  the short in the account. `StartedCovered` needs that a short which was filled
  in part since the poll is not bought for less than what is left.
* Its other part, `MonitorInv`, says when start-up dies: the list names a symbol that the latest
  poll no longer has, `get_position` returns None, and the exception is raised
  outside the `try`. An order left behind by an earlier process is enough.
* `ReplayInv` holds because of the order of the layers' evaluation and in spite of
  it: all layers are asked before the first one buys, with the same limit. Its parts
  `BuysHaveRoom` and `OneSignalEach` say what makes the late BUYs harmless.
* `ReplayInv` contains `LedgerBalances`, which has a term for shares that vanish, and `LossNeedsSharing` says
  when they do: two layers hold the symbol and one of them exits.
* `ClosedDaily` is the strongest true form of "closed at the end of the day": the
  close happens at one minute only, so what is bought after it stays.
* `FallbackHolds` looks at every way to the table and out of it, among them the
  handler that returns the latest universe whatever its size.
* `ServedFresh` has the sum of two times because the stamp is made on arrival.

### Where the code and its documentation disagree

One more run checks a statement of the documentation and ends in a counterexample:

| run | statement | what happens |
|---|---|---|
| `PdtExceeded` | `pdt_guard.py`: blocks same-day exits at the limit | the engine's guard is not the one day trades are recorded in |

Two more statements are refuted by theorems of `LimitProofs`, in every state and not
only in one:

* `pdt_guard.py:246`: `get_reset_date` "computes ... the first day it no longer
  counts", the date "on which the rolling count will drop by 1". That claim is
  `GoneOnReset`, and `ResetEarly` proves its negation whenever a day trade is in
  the window: the oldest one still counts on the date returned, and first does not
  on the business day after it. No checked property takes the returned date as right.
* `pdt_guard.py:3` and `:13`: a window of five business days. `WindowLong` proves that
  on a business day the guard counts the day trades of the five business days up to
  today and besides those of the business day before them, so that a Monday's
  still block an exit on the next Monday. It errs on the strict side: `PdtRule` holds.

Other behaviour a maintainer should know of, seen while modelling:

* `circuit_breaker.py:266`: the breaker builds an order manager of its own with
  `dry_run=False`, so a breach liquidates the real account of a `--dry-run`, which
  `main.py:15` describes as placing no real orders.
* `account_monitor.py:74` swallows a failing first poll and leaves an empty list, so
  start-up logs "no short positions" (`main.py:394`) and the engine starts beside
  inherited shorts, where `main.py:377` says that they are closed. `StartedCovered`
  has it as an exception.
* `eod_manager.py:256`: the close sells but leaves the position in the engine's
  book, so the engine's next exit signal sells it again and the account goes
  short, where `config.yml:3` says `allow_shorts: false`. `ShortsExplained` has it
  as a cause.
* `bar_store.py:305`: the reset at 9:30 leaves the bar count alone, which
  `get_bar_count` calls the session's (`bar_store.py:346`). After 330 bars of a
  symbol L4 never enters it again, and the early-bar guards of L1 and L3 only work
  on the first day.
* `notification_queue.py:76`: the worker's loop ends with the stop event, so what
  waits in the queue at `shutdown` is discarded, where its docstring (`:242`) says
  it is drained. `AcceptedSettled` makes the exception explicit.
* `stream_engine.py:223`: `stream_bars` logs every exception of the connection and
  returns (`alpaca_client.py:650`), and the doubled delay is reset before it is
  used, so the exponential backoff of the module's head (`:11`) never happens:
  every pause is the base delay. The alert of `_on_reconnect` is sent before the
  connection is tried.
* `main.py:806`: a signal that comes before the engine is built is only logged;
  start-up goes on.
* `stream_engine.py:174`: the daily loss is measured from the equity at the start
  of the process, not of the day, and if that read fails the baseline stays 0,
  which switches the condition off (`circuit_breaker.py:148`).
* `main.py:757`: the snapshot's `daily_pnl` is always 0, so the condition on
  consecutive losing days can never be met. The job runs on every day of the week,
  so the five snapshots that the weekly check looks back are five calendar days.
* `main.py:587` imports `run_screener` from the screener, which has no such
  function, so the job before the market opens never screens.
* `screener.py:251`: the handler of a failed pipeline returns the latest universe
  even when it is smaller than required.
* `backtest_broker.py:153`: `submit_sell` takes the first position of the symbol.
  When two layers hold it, one layer's exit sells out of the other's position and
  deletes that entry; shares it held beyond the sold ones are gone without
  proceeds. The final equity is then too low.
* `backtest_engine.py:667`: `_is_eod_bar` says "at or after 15:30" and tests for
  the exact minute, in both seasons; bars from 15:31 on are traded, and a day
  without a bar at that minute is not closed.
* `bar_dispatcher.py:185`: in the replay the cooldown compares the wall clock with
  itself, so how many bars it lasts depends on the machine.
* `main.py:386` buys back inherited shorts in `--dry-run` too, and a restart before
  those orders are filled buys them again.
* `account_monitor.py:55`: `_poll` is a coroutine that never awaits. Its calls, with
  their throttle and the sleeps of their retries, stop the loop, bars included.
* `CircuitBreaker.check`, the only reader of the monitor's figures, is called by
  nobody; the engine reads the account itself.
* `order_manager.py:271`: when the protective stop has filled, the engine is not
  told; its exit finds no lots at the broker and falls back on the tracked
  quantity, which makes the account short. `ShortsExplained` has it as a cause.
* `stream_engine.py:331`: the stop-loss pass precedes the breaker check, so a
  halted system still exits positions that the breaker has liquidated.
* `eod_manager.py:149`: the close works through a copy, and layers L2 and L3
  never apply their `no_entry_after`: an entry made meanwhile is not closed.
  `EodCoversGated` is the statement that holds.
* `alpaca_client.py:169`: a caller that was refused a token proceeds, so the
  broker's "200 per minute" is a delay and not a limit. `CallsBounded` is about
  the other client.
* `notification_queue.py:133`: a signal that a full queue drops starts its
  throttle window all the same, so the next one is suppressed as well.
* `vwap_mean_reversion.py:95`: `_is_past_et_time` is false outside 9:15 to 16:00,
  so bars after the close may lead to entries again, and nothing closes them.
* `bar_dispatcher.py:188`: whether a symbol cools down is read before the layers
  are evaluated, and the stop pass of the engine (`stream_engine.py:309`) does not
  start a cooldown. A position stopped out in the stop pass frees the symbol, and
  on the same bar another layer may enter it. A time stop counts as a stop-out,
  its reason being called `time_stop`.
* `stream_engine.py:329`: nobody calls the layers' `clear_position`, so a layer
  goes on tracking a position that the stop pass has exited or that was never
  entered, signals its EXIT later, and cannot enter the symbol until then.
* `stream_engine.py:821`: the engine's `bars_held` stays 0, so a layer that adopts
  a position starts its time stop again.
* `bar_store.py:208`: at 10:00 the bar of 9:59 has usually not come yet and is
  not part of the range; and before 9:30 L2 trades on yesterday's range.

### Fairness

`LiveTrading`'s `FairSpec` assumes strong fairness of `BarStep` and `EodStep` and
weak fairness of each thread. asyncio serves ready callbacks in the order they
became ready, so a task that is ready again and again is served; it may be
unready in between, because the other one occupies the loop, hence strong. A
thread only needs the operating system, and its calls end: they have timeouts
and boundedly many attempts. Nothing is assumed of the broker's fills, faults,
the clock or the arrival of bars.

`TokenBucket`'s assumes that time passes and that each thread is scheduled. A
thread may lose every race for a token; it returns because of its deadline.

`Notifications`' assumes that the worker is scheduled (its posts have a timeout)
and that `join`, which has one too, returns. The process may end at any time,
and the liveness properties say so.

`Supervision`'s assumes weak fairness of the connect loop and of the handler's
check: the sleep ends, and the read of the account returns or raises. Nothing is
assumed of the stream, the market, the signals or the scheduler.

`Screener`'s assumes weak fairness of the pipeline and of each download: the event
loop and the executor's threads are scheduled and every call ends. The permits
are handed on by the downloads themselves.

## 4. What is proved

### LiveTrading

`LiveTradingProofs` proves, for any universe, layers, limits, budgets and number
of attempts, from `LiveAssumption` alone (the universe is finite and not empty,
the numbers are naturals, there is at least one attempt):

| theorem | statement |
|---|---|
| `TypeCorrect` | `Spec => []TypeOK` |
| `Inductive` | `Spec => []IInv` |
| `BookCorrect` | `Spec => []BookInv` |
| `HaltCorrect` | `Spec => []HaltedMeansNoEntry` |
| `TradesTracked` | `Spec => []OpenTradesTracked` |
| `ShortsNeedCause` | `Spec => []ShortsExplained` |
| `LotsCorrect` | `Spec => []LotsExplained` |
| `DayTradesCorrect` | `Spec => []DayTradesBounded` |
| `EodCorrect` | `Spec => []EodCoversGated` |
| `Refinement` | `Spec => BookSpec` |

None of these but `TypeOK` is inductive alone. The argument:

* `CallsMatchTasks`: a task awaits the kind of call its program counter says;
  an entry is in flight only while the bar handler waits for one.
* `EntryReserved`: from `BuyAccepted` to `EntryReturned` there stays room and the
  symbol stays free, because only the bar handler changes the book. This is why
  the guards checked before two awaits still hold after them, and it gives
  `BookInv`, and the `Open` steps of the refinement.
* `SnapshotCurrent`, `ExitsTracked`: what the handler remembers across an exit is
  still in the book; with one layer per symbol the exit removes everything the
  book has of the symbol, which keeps the two dicts equal.
* `HaltedInStops`: the flag is raised when a bar ends, and the next bar gets no
  further than `Dispatch`; together with `CallsMatchTasks` this is
  `HaltedMeansNoEntry`.
* `IdsOld`: trade ids are fresh, for `OpenTradesTracked`.
* `LotsHeld`: as long as a symbol's lots have not moved behind the book, a symbol
  in the book is in the account until its own exit sells it, and that exit sells
  no more than it read; this gives `ShortsExplained`.
* `LotsKnown`: every purchase is under way, in the book, or paid for by a lost reply
  or a fault. `LotsExplained` alone is not inductive: an exit sells before the
  book forgets the position, so in between the lot that is gone must be counted
  (`Exited`), and it is gone only because an exit has at least one lot to sell.
* `DayTradesAdmitted`: a day trade on its way through an exit was admitted with
  fewer than the limit recorded, and each of the two tasks has at most one on its
  way. Recording one moves it from the one side of the bound to the other; a
  window that moves on only forgets (`RollingCounts`).
* `NoGatedEntry`: the hour strikes while the bar handler is idle, so after it no
  entry of a layer with `no_entry_after` is left in the handler. With that, what
  the close copies at its start is all there is to close: each such open trade is
  still to do, in hand, reported or CLOSED (`GatedCovered`), and the close is told
  "sold" only after the row says so (`EodExitTracked`). This is `EodCoversGated`.

TLC checks `IInv` in `LiveFaults`. The proof has a frame lemma
for each group of actions and then one lemma per conjunct of `IInv`.

### TokenBucket

In `LimitProofs`, from `BucketAssumption` (naturals, and a token costs something):

| theorem | statement |
|---|---|
| `BucketTyped` | `Spec => []TypeOK` |
| `GrantsCorrect` | `Spec => []BucketInv` |
| `CallsCorrect` | `Spec => []CallsBounded` |

The bound on the grants says nothing of the bucket and is not inductive.
`BucketInv` adds that what is left in the bucket is part of the same allowance:
what was spent since any grant and what is left now do not exceed a full bucket
and what was refilled since. A refill raises both sides by the same amount, or
caps the left one at a full bucket; a grant moves tokens from one part of the
left side to the other.

For the calls, `CallsPaired` matches them with the grants, in order: the k-th call
comes no earlier than the k-th grant, and, since no more grants than there are
callers can be ahead of the calls, no later than the grant that many places
further on. The bound on the grants between those two is the bound on the calls.

### Notifications

From `QueueAssumption`:

| theorem | statement |
|---|---|
| `QueueCorrect` | `Spec => []QueueInv` |
| `PipelineCorrect` | `Spec => []Pipeline` |
| `OrderCorrect` | `Spec => []SeenInOrder` |
| `NotifyCorrect` | `Spec => []NotifyInv` |
| `WindowCorrect` | `Spec => []OncePerWindow` |
| `StatsCorrect` | `Spec => []StatsExact` |
| `BoxCorrect` | `Spec => BoxSpec` |

`Pipeline` is the core: the log of accepted calls is the settled ones, the one in
hand and those waiting. Order at Discord follows because the numbers in the log
grow and what Discord has seen is a prefix of what the worker has taken, so that
a repeated post repeats the last number and not an earlier one. The same facts
give the refinement: a settled item is the next of the log.

`NotifyInv` adds two parts to `QueueInv`. `WindowsKept` says that the window of a
queued signal's key has started no earlier than the signal, so that a later one
which finds the window over is far enough behind; the windows that dropped signals
start in between only help. `TriesCounted` says that the notification in hand was
seen at most once for each attempt that is over, and one that is still waiting was
not seen at all (`QueuedUnseen`); attempts are bounded, hence `StatsExact`.

### PDTGuard

In `LimitProofs`, from `GuardAssumption`, above all `MaxDayTrades <= MaxLen`:

| theorem | statement |
|---|---|
| `GuardCorrect` | `GuardSpec => []GuardInv` |
| `RuleCorrect` | `GuardSpec => []PdtRule` |
| `DecisionCorrect` | `GuardSpec => []DecisionExact` |
| `WindowCorrect` | `GuardSpec => []WindowExact` |
| `ResetEarly` | `GuardSpec => []ResetOneDayEarly` |
| `WindowLong` | `GuardSpec => []WindowOneDayLong` |

The deque is the end of the history, which is in order; so if fewer than
`MaxDayTrades` of the deque are in the window, everything forgotten is older
than the window (lemma `DequeDecides`). The window starts before the five
business days of the rule (lemma `CutoffFacts`), hence the rule.

From the cutoff to yesterday there are five business days (`FiveDays`), so an earlier
day trade, made on a business day, has six; this is `WindowExact`. `WindowLong`
compares it with the five business days that end today: no business day lies between
the cutoff and the first of them, so the guard counts one day more.

`ResetEarly` says how far the date of `get_reset_date` is from its docstring, in every
state with a day trade in the window: one business day. The walk back undoes the walk forward on business days
(`PrevOfNext`), and a later date has no earlier cutoff (`CutoffMonotone`). So the
cutoff of the fifth business day after a day trade is that trade's date, and the
next business day has a later one (`CutoffOfFifth`). `GuardInv` says for both that
day trades are made on business days. That there is an oldest one is the
well-foundedness of the naturals (`Earliest`).

### TradingSession

From `SessionAssumption` (a finite universe, naturals, limits of at least one):

| theorem | statement |
|---|---|
| `SessionTyped` | `Spec => []TypeOK` |
| `SessionCorrect` | `Spec => []SessionInv` |
| `RangeCorrect` | `Spec => []RangePure` |
| `OrbCorrect` | `Spec => []OneOrbEntry` |
| `GivesUpCorrect` | `Spec => []GivesUp` |
| `CooldownCorrect` | `Spec => []CooldownHolds` |

`RangePure` becomes inductive with what has been collected so far: during the
opening half hour these bars are all from it, and there is no range
(`RangeInv`). `OneOrbEntry` needs that what was bought is remembered (`OrbInv`).
`GivesUp` needs that L1 has enough bars of history whenever it has a position to
look at (`WarmInv`): it had them when it bought, the deque never gets shorter,
and a process that starts again has no positions. `CooldownHolds` is inductive,
given the types.

### Supervision

From `SupervisionAssumption` (values above zero, limits in percent):

| theorem | statement |
|---|---|
| `SupervisionCorrect` | `Spec => []SupervisionInv` |
| `LateCorrect` | `Spec => []LateBounded` |

`PeakExact` is a statement about maxima of sets; it becomes inductive as
`PeaksGrow`, which says of each row that its peak is the default or a recorded
value and that nothing up to it is greater. From that the latest row's peak is
what `get_peak_portfolio_value` returns (`PeakLast`), so a new row continues the
chain. `StopHeard` needs that a process begins unstopped (`FreshStart`).
`LateBounded` needs to know where the late bar is: still to be checked, or checked
with an equity that trips (`LateChecked`); it stays so because the baseline does
not change while a bar is handled and the peak only grows (`BreachStays`).

### AccountMonitor

From `MonitorAssumption` (integers, and at least one attempt):

| theorem | statement |
|---|---|
| `StartupCorrect` | `Spec => []StartupInv` |
| `StartedCorrect` | `Spec => []StartedCovered` |

The invariant says of every symbol where it is: on the list, then unordered and as
the monitor has it (`Due`); in the order to be sent, then for exactly the short
(`Ordered`); or bought back. Between two polls a position only grows, by fills, so
an old size is never too small (`Known`).

### Screener

From `ScreenerAssumption` (a finite base list, at least one permit):

| theorem | statement |
|---|---|
| `ScreenerCorrect` | `Spec => []ScreenerInv` |
| `FreshCorrect` | `Spec => []ServedFresh` |
| `FallbackCorrect` | `Spec => []FallbackHolds` |

`ServedFresh` follows from the distance between an entry's stamp and the time its
bars were read (`StampsClose`), the accounting from `Partitioned`, which holds
from the filters to the table, and the fallback from `SavesBig`: a universe gets
as far as being saved although a big one exists only if it is big itself.

### Replay

From `ReplayAssumption` (finitely many symbols, layers without repetition, prices
above zero, naturals, a scalar in percent):

| theorem | statement |
|---|---|
| `ReplayCorrect` | `Spec => []ReplayInv` |
| `ClosedCorrect` | `Spec => []ClosedDaily` |
| `SharingCorrect` | `Spec => LossNeedsSharing` |

Three operators are folds over a sequence: what the positions cost (`Invested`),
the close (`ForceCloseAll`) and the dispatcher's loop (`Admitted`). The library
defines a fold by a recursion on the set of indices that are left. What it
computes for every sequence is an induction, and the induction theorems that take
a predicate cannot be used; but a predicate on indices is a *set* of indices, and
a set of naturals has a least element. So `UpTo` is induction with a set in
the place of the predicate, and `RecursionSolved` shows with it that there is a
function with the fold's recursion, which is what the library's `CHOOSE` needs.
From there on a fold is a row of values, each of which follows from the one before.

For the sums: `InvestedAppend` and `InvestedRemove` say that a position that comes
or leaves brings or takes its cost, wherever in the dict it was. With them each
fill keeps the books (`Bought`, `Sold`); the identity of a sale is that proceeds
less pnl, and the cost of what vanishes, are the cost of the position
(`SaleArithmetic`). What a sale or a whole close leaves are positions that were
there before, at most once each (`Thinned`), which keeps the keys, sizes and times.

For the close: `ForceCloseAll` walks over the keys it copied and sells by symbol.
After each sale the rest of the dict is the rest of the copy, so the first
position of the symbol is the very one meant; each is sold in full, none is left,
and no shares are lost (`ClosedAll`).

For the sizes: `Sized` has the caps on risk and value for every equity, also a
negative one, since the sizer takes the least of its caps.

The inductive invariant is `ReplayInv /\ ClosedDaily`. The parts of `ReplayInv` that
are there for the induction are `OneSignalEach` (two BUYs of a bar are for different
layers, so the first fill leaves the second one's key free), `BuysHaveRoom` (the
dispatch found a place for the *symbol*, and several layers' positions in one symbol
take one place; this is why a limit read once per bar is enough) and
`CloseIsPast` (a fill is later than the last close, because bars of an end-of-day
minute are not dispatched). `SharingCorrect` follows step by step: a sale
loses shares only if the first position of the symbol is not the one its caller
means, and then there are two.

### Only model-checked

* The seven liveness properties: temporal reasoning under fairness and ENABLED are
  outside what the prover supports here.
* `PdtExceeded` ends in a counterexample, which TLC gives and a proof cannot.

## 5. Plan and what is not modelled

Done: `LiveTrading` with `PositionBook`, `Notifications` with `Outbox`,
`TokenBucket`, `PDTGuard`, `TradingSession`, `Supervision`, `AccountMonitor`,
`Screener`, `Replay` with `BacktestBroker` and `PositionSizer`, and their proofs.

Every safety property that the passing runs check is proved, invariants, action
property and refinements alike.

Not modelled, and why: indicators and the prediction engine are floating-point
numerics; embed building, reports and logging are formatting; the SQL engine and
the ORM models are declarations. The daily strategies, the daily backtest and the
stop-loss manager belong to an earlier system: no part of the running program
imports them.
