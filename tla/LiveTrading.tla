---------------------------- MODULE LiveTrading -----------------------------
(***************************************************************************)
(* The live trading process: the bar handler of StreamEngine, the          *)
(* end-of-day task of EODManager, the OrderManager calls both of them run  *)
(* on executor threads, the circuit breaker, the two PDT guards, the       *)
(* trades table and the broker account all of them act on.                 *)
(*                                                                         *)
(* Two tasks share one asyncio event loop.  A task keeps the loop until it *)
(* awaits an executor call; the thread running that call then proceeds     *)
(* concurrently with the other task and with the other thread.  A broker   *)
(* or database call is one step of its thread.                             *)
(*                                                                         *)
(* Shares are counted in lots: one entry buys one lot.  Prices, sizes and  *)
(* indicators decide which branch is taken and appear as choices.          *)
(***************************************************************************)
EXTENDS Integers, Sequences, FiniteSets

CONSTANTS Symbols,         \* the universe of ticker symbols
          Layers,          \* the strategy layers
          TimeGated,       \* the layers that implement no_entry_after
          MaxPositions,    \* risk.max_positions
          MaxDayTrades,    \* PDTGuard(max_day_trades)
          Window,          \* trading days the rolling count looks back
          SharedGuard,     \* FALSE: main.py gives the engine its own PDTGuard
          DryRun,          \* OrderManager(dry_run)
          MaxAttempts,     \* max_retries + 1 of retry_with_backoff
          Inherited,       \* lots the account holds when the process starts
          MaxTrades,       \* bound: rows ever written to the trades table
          MaxDay,          \* bound: sessions
          Limit            \* bound: how often each environment event occurs

\* The environment events that happen a bounded number of times.
Events == {"fault",      \* a broker or database call that raises
           "lost",       \* an order the broker executed whose reply is lost
           "stopFill",   \* a resting stop order that triggers
           "breach",     \* a circuit-breaker condition that is met
           "reset",      \* --reset-circuit-breaker
           "crash"}      \* the process dies

ASSUME LiveAssumption ==
    /\ Symbols # {} /\ IsFiniteSet(Symbols)
    /\ Layers # {}
    /\ TimeGated \subseteq Layers
    /\ MaxPositions \in Nat
    /\ MaxDayTrades \in Nat
    /\ Window \in Nat
    /\ SharedGuard \in BOOLEAN
    /\ DryRun \in BOOLEAN
    /\ MaxAttempts \in Nat \ {0}
    /\ Inherited \in [Symbols -> Nat]
    /\ MaxTrades \in Nat
    /\ MaxDay \in Nat \ {0}
    /\ Limit \in [Events -> Nat]

VARIABLES
    openPositions,   \* StreamEngine._open_positions, one record per dict entry
    openOrders,      \* StreamEngine._open_orders
    bar,             \* the bar handler: where it is and its locals
    eod,             \* the end-of-day task: where it is and its locals
    call,            \* the OrderManager call each task awaits
    halted,          \* the circuit-breaker flag in the database
    dbOpen,          \* ids of the trades with status OPEN
    nextTrade,       \* the id the trades table assigns next
    dayTrades,       \* dates in the deque of the get_pdt_guard() singleton
    held,            \* lots the broker account holds, negative when short
    stops,           \* lots resting in protective stop orders
    day,             \* the current session
    hours,           \* "trading", "late" from no_entry_after on, "after" from 16:00 on
    up,              \* the process is running
    firstTrade,      \* ghost: nextTrade when the process last started
    moved,           \* ghost: symbols whose lots moved behind the book's back
    orphans,         \* ghost: trades saved although save_trade raised
    used             \* how often each bounded environment event has occurred

book   == <<openPositions, openOrders>>
db     == <<halted, dbOpen, nextTrade>>
broker == <<held, stops>>
clock  == <<day, hours>>
ghost  == <<firstTrade, moved, orphans>>
vars   == <<book, bar, eod, call, db, dayTrades, broker, clock, up, ghost, used>>

Tasks == {"bar", "eod"}

-----------------------------------------------------------------------------
\* Types and empty values

Position == [symbol : Symbols, layer : Layers, trade : Nat, day : Nat]
Signal   == [layer : Layers, side : {"BUY", "EXIT"}]

ExitSteps  == {"positions", "cancel", "sell", "recordExit"}
EntrySteps == {"buy", "protect", "save"}
CallSteps  == {"none", "true", "false"} \union ExitSteps \union EntrySteps

Call == [step : CallSteps, symbol : Symbols, trade : Nat, qty : Nat,
         dayTrade : BOOLEAN, attempt : 1 .. MaxAttempts]

BarOnLoopPcs == {"stops", "signals", "cancelAll", "liquidate", "closeTrades", "setFlag"}
BarPcs == {"idle", "stopExit", "signalExit", "account", "entry", "equity"} \union BarOnLoopPcs
EodPcs == {"idle", "sweep", "exit", "cancel", "done"}

BarState == [pc : BarPcs, symbol : Symbols, todo : SUBSET Position,
             signals : SUBSET Signal, layer : Layers]
EodState == [pc : EodPcs, todo : SUBSET Position, trade : Nat, kept : SUBSET Nat]

AnySymbol == CHOOSE s \in Symbols : TRUE
AnyLayer  == CHOOSE l \in Layers : TRUE

NoCall == [step |-> "none", symbol |-> AnySymbol, trade |-> 0, qty |-> 0,
           dayTrade |-> FALSE, attempt |-> 1]
IdleBar == [pc |-> "idle", symbol |-> AnySymbol, todo |-> {}, signals |-> {},
            layer |-> AnyLayer]
IdleEod == [pc |-> "idle", todo |-> {}, trade |-> 0, kept |-> {}]

-----------------------------------------------------------------------------
\* Helpers

SymbolsOf(P) == {p.symbol : p \in P}

\* Definitions whose name ends in an underscore are deliberately wrong variants
\* of the definition that follows them, used to test the properties.

AtMax_ == Cardinality(SymbolsOf(openPositions)) > MaxPositions

\* BarDispatcher.get_open_position_count against max_positions.
AtMax == Cardinality(SymbolsOf(openPositions)) >= MaxPositions

HasKey(s, l) == \E p \in openPositions : p.symbol = s /\ p.layer = l

\* Exactly one task runs on the event loop.
BarOnLoop == bar.pc \in BarOnLoopPcs
EodOnLoop == eod.pc = "sweep"
LoopFree  == ~BarOnLoop /\ ~EodOnLoop

RollingCount == Cardinality({i \in DOMAIN dayTrades : dayTrades[i] >= day - Window})

\* The guard the engine and the end-of-day task consult.  Its own deque is only
\* appended to for positions without a trade id, which the engine never has.
GuardCount == IF SharedGuard THEN RollingCount ELSE 0

IsDayTrade(p) == p.day = day
CanExit_(p)   == IsDayTrade(p) => GuardCount <= MaxDayTrades
CanExit(p)    == IsDayTrade(p) => GuardCount < MaxDayTrades

\* CircuitBreaker.is_active reads the flag in the database on every call.
BreakerActive_ == FALSE
BreakerActive  == halted

Occurs(e) ==
    /\ used[e] < Limit[e]
    /\ used' = [used EXCEPT ![e] = @ + 1]

Step(t, s) == call' = [call EXCEPT ![t].step = s]

RetryForEver_(t) == UNCHANGED call

\* retry_with_backoff: try again, or let the exception reach OrderManager,
\* which turns it into None / False.
Retry(t) ==
    IF call[t].attempt < MaxAttempts
    THEN call' = [call EXCEPT ![t].attempt = @ + 1]
    ELSE Step(t, "false")

Returned(t, result) == call[t].step = result

StartExit(t, p) ==
    call' = [call EXCEPT ![t] =
        [step |-> IF DryRun THEN "recordExit" ELSE "positions",
         symbol |-> p.symbol, trade |-> p.trade, qty |-> 1,
         dayTrade |-> IsDayTrade(p), attempt |-> 1]]

StartEntry(s) ==
    call' = [call EXCEPT !["bar"] =
        [NoCall EXCEPT !.step = IF DryRun THEN "save" ELSE "buy",
                       !.symbol = s, !.qty = 1]]

-----------------------------------------------------------------------------
Init ==
    /\ openPositions = {}
    /\ openOrders = {}
    /\ bar = IdleBar
    /\ eod = IdleEod
    /\ call = [t \in Tasks |-> NoCall]
    /\ halted = FALSE
    /\ dbOpen = {}
    /\ nextTrade = 1
    /\ dayTrades = <<>>
    /\ held = Inherited
    /\ stops = [s \in Symbols |-> 0]
    /\ day = 1
    /\ hours = "trading"
    /\ up = TRUE
    /\ firstTrade = 1
    /\ moved = {}
    /\ orphans = {}
    /\ used = [e \in Events |-> 0]

-----------------------------------------------------------------------------
(***************************************************************************)
(* The bar handler (StreamEngine._on_bar).  The stream awaits it, so bars  *)
(* are handled one at a time.                                              *)
(***************************************************************************)

\* A bar arrives: snapshot the symbol's positions for the stop-loss pass.
BarArrives(s) ==
    /\ up
    /\ LoopFree
    /\ bar.pc = "idle"
    /\ bar' = [IdleBar EXCEPT !.pc = "stops", !.symbol = s,
                              !.todo = {p \in openPositions : p.symbol = s}]
    /\ UNCHANGED <<book, eod, call, db, dayTrades, broker, clock, up, ghost, used>>

\* should_exit is false, or the PDT guard refuses the exit.
StopSkipped(p) ==
    /\ bar.pc = "stops"
    /\ p \in bar.todo
    /\ bar' = [bar EXCEPT !.todo = @ \ {p}]
    /\ UNCHANGED <<book, eod, call, db, dayTrades, broker, clock, up, ghost, used>>

\* should_exit is true and the guard agrees: await submit_exit_order.
StopHit(p) ==
    /\ bar.pc = "stops"
    /\ p \in bar.todo
    /\ CanExit(p)
    /\ bar' = [bar EXCEPT !.pc = "stopExit", !.todo = @ \ {p}, !.layer = p.layer]
    /\ StartExit("bar", p)
    /\ UNCHANGED <<book, eod, db, dayTrades, broker, clock, up, ghost, used>>

Dispatchable_(s, l) ==
    /\ ~AtMax
    /\ s \notin openOrders
    /\ ~HasKey(s, l)
    /\ nextTrade <= MaxTrades

\* A BUY that BarDispatcher lets through.  The layers that look at the time let
\* entries pass again after 16:00.
Dispatchable(s, l) ==
    /\ ~AtMax
    /\ s \notin openOrders
    /\ ~HasKey(s, l)
    /\ hours = "late" => l \notin TimeGated
    /\ nextTrade <= MaxTrades

\* The stop-loss pass is over: give up if the circuit breaker is active,
\* otherwise dispatch the bar to the layers and filter their signals.
Dispatch ==
    /\ bar.pc = "stops"
    /\ bar.todo = {}
    /\ \/ /\ BreakerActive
          /\ bar' = IdleBar
       \/ /\ ~BreakerActive
          /\ \E emitted \in [Layers -> {"HOLD", "BUY", "EXIT"}] :
                bar' = [bar EXCEPT !.pc = "signals", !.signals =
                    {g \in Signal :
                        /\ emitted[g.layer] = g.side
                        /\ g.side = "BUY" => Dispatchable(bar.symbol, g.layer)}]
    /\ UNCHANGED <<book, eod, call, db, dayTrades, broker, clock, up, ghost, used>>

EntryGuards_(l) == ~AtMax /\ ~HasKey(bar.symbol, l)

\* The engine's own guards, on the book as it is when the signal's turn comes.
EntryGuards(l) ==
    /\ ~AtMax
    /\ bar.symbol \notin openOrders
    /\ ~HasKey(bar.symbol, l)

\* A BUY the guards drop, an EXIT that matches no position, or
\* an EXIT the PDT guard refuses.
SignalDropped(g) ==
    /\ bar.pc = "signals"
    /\ g \in bar.signals
    /\ \/ /\ g.side = "BUY"
          /\ ~EntryGuards(g.layer)
       \/ /\ g.side = "EXIT"
          /\ \A p \in openPositions :
                p.symbol = bar.symbol /\ p.layer = g.layer => ~CanExit(p)
    /\ bar' = [bar EXCEPT !.signals = @ \ {g}]
    /\ UNCHANGED <<book, eod, call, db, dayTrades, broker, clock, up, ghost, used>>

\* A BUY that passes the guards: await get_account.
BuyAccepted(g) ==
    /\ bar.pc = "signals"
    /\ g \in bar.signals
    /\ g.side = "BUY"
    /\ EntryGuards(g.layer)
    /\ bar' = [bar EXCEPT !.pc = "account", !.signals = @ \ {g}, !.layer = g.layer]
    /\ UNCHANGED <<book, eod, call, db, dayTrades, broker, clock, up, ghost, used>>

\* An EXIT for a tracked position: await submit_exit_order.
ExitAccepted(g) ==
    /\ bar.pc = "signals"
    /\ g \in bar.signals
    /\ g.side = "EXIT"
    /\ \E p \in openPositions :
          /\ p.symbol = bar.symbol
          /\ p.layer = g.layer
          /\ CanExit(p)
          /\ StartExit("bar", p)
    /\ bar' = [bar EXCEPT !.pc = "signalExit", !.signals = @ \ {g}, !.layer = g.layer]
    /\ UNCHANGED <<book, eod, db, dayTrades, broker, clock, up, ghost, used>>

\* get_account returned: it failed, the account is empty, the size is zero or
\* the reward:risk gate refuses; or await submit_entry_order.
AccountReturned ==
    /\ bar.pc = "account"
    /\ LoopFree
    /\ \/ /\ bar' = [bar EXCEPT !.pc = "signals"]
          /\ UNCHANGED call
       \/ /\ bar' = [bar EXCEPT !.pc = "entry"]
          /\ StartEntry(bar.symbol)
    /\ UNCHANGED <<book, eod, db, dayTrades, broker, clock, up, ghost, used>>

AddPosition_ == UNCHANGED book

AddPosition ==
    /\ openPositions' = openPositions \union
          {[symbol |-> bar.symbol, layer |-> bar.layer,
            trade |-> call["bar"].trade, day |-> day]}
    /\ openOrders' = openOrders \union {bar.symbol}

\* submit_entry_order returned: a trade id makes a position, None does not.
EntryReturned ==
    /\ bar.pc = "entry"
    /\ LoopFree
    /\ \/ /\ Returned("bar", "true")
          /\ AddPosition
       \/ /\ Returned("bar", "false")
          /\ UNCHANGED book
    /\ bar' = [bar EXCEPT !.pc = "signals"]
    /\ call' = [call EXCEPT !["bar"] = NoCall]
    /\ UNCHANGED <<eod, db, dayTrades, broker, clock, up, ghost, used>>

RemovePosition_ ==
    /\ openOrders' = openOrders \ {bar.symbol}
    /\ UNCHANGED openPositions

ForgetOrder_ ==
    /\ openPositions' = {p \in openPositions :
                           ~(p.symbol = bar.symbol /\ p.layer = bar.layer)}
    /\ UNCHANGED openOrders

RemovePosition ==
    /\ openPositions' = {p \in openPositions :
                           ~(p.symbol = bar.symbol /\ p.layer = bar.layer)}
    /\ openOrders' = openOrders \ {bar.symbol}

\* submit_exit_order returned: on success the position leaves the book.
ExitReturned ==
    /\ bar.pc \in {"stopExit", "signalExit"}
    /\ LoopFree
    /\ \/ /\ Returned("bar", "true")
          /\ RemovePosition
       \/ /\ Returned("bar", "false")
          /\ UNCHANGED book
    /\ bar' = [bar EXCEPT !.pc = IF @ = "stopExit" THEN "stops" ELSE "signals"]
    /\ call' = [call EXCEPT !["bar"] = NoCall]
    /\ UNCHANGED <<eod, db, dayTrades, broker, clock, up, ghost, used>>

\* All signals processed: await get_account for the circuit breaker.
SignalsDone ==
    /\ bar.pc = "signals"
    /\ bar.signals = {}
    /\ bar' = [bar EXCEPT !.pc = "equity"]
    /\ UNCHANGED <<book, eod, call, db, dayTrades, broker, clock, up, ghost, used>>

\* get_account returned: no condition is met, or trigger() starts.
EquityReturned ==
    /\ bar.pc = "equity"
    /\ LoopFree
    /\ \/ /\ bar' = IdleBar
          /\ UNCHANGED used
       \/ /\ Occurs("breach")
          /\ bar' = [bar EXCEPT !.pc = "cancelAll"]
    /\ UNCHANGED <<book, eod, call, db, dayTrades, broker, clock, up, ghost>>

-----------------------------------------------------------------------------
(***************************************************************************)
(* CircuitBreaker.trigger, called synchronously from the bar handler: it   *)
(* blocks the event loop but not the end-of-day task's thread.  A failure  *)
(* inside emergency_liquidate is swallowed and the flag is set anyway.     *)
(***************************************************************************)

CancelAll ==
    /\ bar.pc = "cancelAll"
    /\ \/ /\ stops' = [s \in Symbols |-> 0]
          /\ bar' = [bar EXCEPT !.pc = "liquidate"]
          /\ UNCHANGED used
       \/ /\ Occurs("fault")
          /\ bar' = [bar EXCEPT !.pc = "setFlag"]
          /\ UNCHANGED stops
    /\ UNCHANGED <<book, eod, call, db, dayTrades, held, clock, up, ghost>>

\* close_all_positions(cancel_orders=True): longs and shorts alike.
Liquidate ==
    /\ bar.pc = "liquidate"
    /\ \/ /\ held' = [s \in Symbols |-> 0]
          /\ stops' = [s \in Symbols |-> 0]
          /\ moved' = moved \union {s \in Symbols : held[s] # 0}
          /\ bar' = [bar EXCEPT !.pc = "closeTrades"]
          /\ UNCHANGED used
       \/ /\ Occurs("fault")
          /\ bar' = [bar EXCEPT !.pc = "setFlag"]
          /\ UNCHANGED <<broker, moved>>
    /\ UNCHANGED <<book, eod, call, db, dayTrades, clock, up, firstTrade, orphans>>

\* Close the OPEN trades one by one; a database failure leaves the rest OPEN.
CloseTrades ==
    /\ bar.pc = "closeTrades"
    /\ \/ /\ dbOpen' = {}
          /\ UNCHANGED used
       \/ /\ Occurs("fault")
          /\ dbOpen' \in SUBSET dbOpen
    /\ bar' = [bar EXCEPT !.pc = "setFlag"]
    /\ UNCHANGED <<book, eod, call, halted, nextTrade, dayTrades, broker, clock, up, ghost>>

SetFlag ==
    /\ bar.pc = "setFlag"
    /\ \/ /\ halted' = TRUE
          /\ UNCHANGED used
       \/ /\ Occurs("fault")
          /\ UNCHANGED halted
    /\ bar' = IdleBar
    /\ UNCHANGED <<book, eod, call, dbOpen, nextTrade, dayTrades, broker, clock, up, ghost>>

-----------------------------------------------------------------------------
(***************************************************************************)
(* OrderManager.submit_exit_order and submit_entry_order on the executor   *)
(* thread of task t.                                                       *)
(***************************************************************************)

\* Read the broker quantity; it replaces the tracked one when positive.
ReadPositions(t) ==
    /\ call[t].step = "positions"
    /\ \/ /\ call' = [call EXCEPT ![t].step = "cancel",
                        ![t].qty = IF held[call[t].symbol] > 0
                                   THEN held[call[t].symbol] ELSE 1]
          /\ UNCHANGED used
       \/ /\ Occurs("fault")
          /\ Step(t, "false")
    /\ UNCHANGED <<book, bar, eod, db, dayTrades, broker, clock, up, ghost>>

\* Cancel the symbol's resting orders; a failure is only logged.
CancelOrders(t) ==
    /\ call[t].step = "cancel"
    /\ \/ /\ stops' = [stops EXCEPT ![call[t].symbol] = 0]
          /\ UNCHANGED used
       \/ /\ Occurs("fault")
          /\ UNCHANGED stops
    /\ Step(t, "sell")
    /\ UNCHANGED <<book, bar, eod, db, dayTrades, held, clock, up, ghost>>

\* The broker refuses to sell lots that resting orders reserve, and sells
\* short an account that holds none.
BrokerSells(s, q) == held[s] <= 0 \/ held[s] - stops[s] >= q

SellOrder(t) ==
    LET s == call[t].symbol
        q == call[t].qty
    IN
    /\ call[t].step = "sell"
    /\ \/ /\ BrokerSells(s, q)
          /\ held' = [held EXCEPT ![s] = @ - q]
          /\ moved' = IF t = "eod" THEN moved \union {s} ELSE moved
          /\ Step(t, "recordExit")
          /\ UNCHANGED used
       \/ /\ BrokerSells(s, q)
          /\ Occurs("lost")
          /\ held' = [held EXCEPT ![s] = @ - q]
          /\ moved' = moved \union {s}
          /\ Retry(t)
       \/ /\ ~BrokerSells(s, q)
          /\ Retry(t)
          /\ UNCHANGED <<held, moved, used>>
       \/ /\ Occurs("fault")
          /\ Retry(t)
          /\ UNCHANGED <<held, moved>>
    /\ UNCHANGED <<book, bar, eod, db, dayTrades, stops, clock, up, firstTrade, orphans>>

RowNotClosed_(t) ==
    /\ Step(t, "true")
    /\ dbOpen' \in {dbOpen, dbOpen \ {call[t].trade}}
    /\ moved' = moved \union {call[t].symbol}
    /\ UNCHANGED dayTrades

\* The database raises, before the commit or in the read that follows it: the
\* shares are sold but the caller is told False.
RowNotClosed(t) ==
    /\ Step(t, "false")
    /\ dbOpen' \in {dbOpen, dbOpen \ {call[t].trade}}
    /\ moved' = moved \union {call[t].symbol}
    /\ UNCHANGED dayTrades

\* Mark the trade CLOSED and record the day trade in the singleton guard.
RecordExit(t) ==
    /\ call[t].step = "recordExit"
    /\ \/ /\ dbOpen' = dbOpen \ {call[t].trade}
          /\ dayTrades' = IF call[t].dayTrade /\ ~DryRun THEN Append(dayTrades, day)
                                                          ELSE dayTrades
          /\ Step(t, "true")
          /\ UNCHANGED <<moved, used>>
       \/ /\ Occurs("fault")
          /\ RowNotClosed(t)
    /\ UNCHANGED <<book, bar, eod, halted, nextTrade, broker, clock, up, firstTrade, orphans>>

BuyOrder(t) ==
    LET s == call[t].symbol IN
    /\ call[t].step = "buy"
    /\ \/ /\ held' = [held EXCEPT ![s] = @ + 1]
          /\ Step(t, "protect")
          /\ UNCHANGED used
       \/ /\ Occurs("lost")
          /\ held' = [held EXCEPT ![s] = @ + 1]
          /\ Retry(t)
       \/ /\ Occurs("fault")
          /\ Retry(t)
          /\ UNCHANGED held
    /\ UNCHANGED <<book, bar, eod, db, dayTrades, stops, clock, up, ghost>>

\* Attach the protective stop; a failure is only logged.
ProtectEntry(t) ==
    /\ call[t].step = "protect"
    /\ \/ /\ stops' = [stops EXCEPT ![call[t].symbol] = @ + 1]
          /\ UNCHANGED used
       \/ /\ Occurs("fault")
          /\ UNCHANGED stops
    /\ Step(t, "save")
    /\ UNCHANGED <<book, bar, eod, db, dayTrades, held, clock, up, ghost>>

\* Save the trade and return its id.  If the database raises, before the commit
\* or in the read that follows it, None is returned although the broker holds
\* the lot.
SaveTrade(t) ==
    /\ call[t].step = "save"
    /\ \/ /\ dbOpen' = dbOpen \union {nextTrade}
          /\ nextTrade' = nextTrade + 1
          /\ call' = [call EXCEPT ![t].step = "true", ![t].trade = nextTrade]
          /\ UNCHANGED <<orphans, used>>
       \/ /\ Occurs("fault")
          /\ Step(t, "false")
          /\ UNCHANGED <<dbOpen, nextTrade, orphans>>
       \/ /\ Occurs("fault")
          /\ dbOpen' = dbOpen \union {nextTrade}
          /\ nextTrade' = nextTrade + 1
          /\ orphans' = orphans \union {nextTrade}
          /\ Step(t, "false")
    /\ UNCHANGED <<book, bar, eod, halted, dayTrades, broker, clock, up, firstTrade, moved>>

-----------------------------------------------------------------------------
(***************************************************************************)
(* The end-of-day task (EODManager.run_eod_close).  It reads the engine's  *)
(* live dict and never removes an entry from it.                           *)
(***************************************************************************)

\* The scheduler fires at 15:30, after every no_entry_after.
EodDue == hours = "late"

EodStarts ==
    /\ up
    /\ EodDue
    /\ LoopFree
    /\ eod.pc = "idle"
    /\ eod' = [IdleEod EXCEPT !.pc = "sweep", !.todo = openPositions]
    /\ UNCHANGED <<book, bar, call, db, dayTrades, broker, clock, up, ghost, used>>

EodSells(p) ==
    /\ eod.pc = "sweep"
    /\ p \in eod.todo
    /\ CanExit(p)
    /\ eod' = [eod EXCEPT !.pc = "exit", !.todo = @ \ {p}, !.trade = p.trade]
    /\ StartExit("eod", p)
    /\ UNCHANGED <<book, bar, db, dayTrades, broker, clock, up, ghost, used>>

\* PDT block: the position is kept overnight.
EodKeeps(p) ==
    /\ eod.pc = "sweep"
    /\ p \in eod.todo
    /\ ~CanExit(p)
    /\ eod' = [eod EXCEPT !.todo = @ \ {p}, !.kept = @ \union {p.trade}]
    /\ UNCHANGED <<book, bar, call, db, dayTrades, broker, clock, up, ghost, used>>

EodExitReturned ==
    /\ eod.pc = "exit"
    /\ LoopFree
    /\ \/ /\ Returned("eod", "true")
          /\ eod' = [eod EXCEPT !.pc = "sweep"]
       \/ /\ Returned("eod", "false")
          /\ eod' = [eod EXCEPT !.pc = "sweep", !.kept = @ \union {eod.trade}]
    /\ call' = [call EXCEPT !["eod"] = NoCall]
    /\ UNCHANGED <<book, bar, db, dayTrades, broker, clock, up, ghost, used>>

EodSweepDone ==
    /\ eod.pc = "sweep"
    /\ eod.todo = {}
    /\ eod' = [eod EXCEPT !.pc = "cancel"]
    /\ UNCHANGED <<book, bar, call, db, dayTrades, broker, clock, up, ghost, used>>

\* cancel_open_orders: every resting order, or none if the call fails.
EodCancels ==
    /\ eod.pc = "cancel"
    /\ \/ /\ stops' = [s \in Symbols |-> 0]
          /\ UNCHANGED used
       \/ /\ Occurs("fault")
          /\ UNCHANGED stops
    /\ eod' = [eod EXCEPT !.pc = "done"]
    /\ UNCHANGED <<book, bar, call, db, dayTrades, held, clock, up, ghost>>

-----------------------------------------------------------------------------
(***************************************************************************)
(* The broker, the clock, the operator and the process.                    *)
(***************************************************************************)

\* A resting stop order triggers; nobody tells the process.
StopFills(s) ==
    /\ stops[s] > 0
    /\ Occurs("stopFill")
    /\ held' = [held EXCEPT ![s] = @ - 1]
    /\ stops' = [stops EXCEPT ![s] = @ - 1]
    /\ moved' = moved \union {s}
    /\ UNCHANGED <<book, bar, eod, call, db, dayTrades, clock, up, firstTrade, orphans>>

\* The half hour between the last no_entry_after (15:00) and the end-of-day
\* close (15:30) outlasts any one bar's handling.
TurnsLate ==
    /\ hours = "trading"
    /\ bar.pc = "idle"
    /\ hours' = "late"
    /\ UNCHANGED <<book, bar, eod, call, db, dayTrades, broker, day, up, ghost, used>>

\* 16:00; half an hour was enough for the end-of-day close.
HoursEnd ==
    /\ hours = "late"
    /\ eod.pc = "done" \/ ~up
    /\ hours' = "after"
    /\ UNCHANGED <<book, bar, eod, call, db, dayTrades, broker, day, up, ghost, used>>

\* The next session; unfilled DAY orders have expired.
NextSession ==
    /\ hours = "after"
    /\ day < MaxDay
    /\ bar.pc = "idle"
    /\ eod.pc \in {"idle", "done"}
    /\ day' = day + 1
    /\ hours' = "trading"
    /\ eod' = IdleEod
    /\ stops' = [s \in Symbols |-> 0]
    /\ UNCHANGED <<book, bar, call, db, dayTrades, held, up, ghost, used>>

\* python main.py --reset-circuit-breaker, from another process.
ResetBreaker ==
    /\ halted
    /\ Occurs("reset")
    /\ halted' = FALSE
    /\ UNCHANGED <<book, bar, eod, call, dbOpen, nextTrade, dayTrades, broker, clock, up, ghost>>

\* The process dies wherever it is; only the database and the broker survive.
Crash ==
    /\ up
    /\ Occurs("crash")
    /\ up' = FALSE
    /\ openPositions' = {}
    /\ openOrders' = {}
    /\ bar' = IdleBar
    /\ eod' = IdleEod
    /\ call' = [t \in Tasks |-> NoCall]
    /\ dayTrades' = <<>>
    /\ UNCHANGED <<db, broker, clock, ghost>>

\* run_live_trading: refuses to start while halted, then buys back inherited
\* shorts, which AccountMonitor has in detail; a failed purchase is only logged.
\* Open trades are not reloaded.
Startup ==
    LET shorts == {s \in Symbols : held[s] < 0} IN
    /\ ~up
    /\ ~BreakerActive
    /\ up' = TRUE
    /\ firstTrade' = nextTrade
    /\ \/ /\ held' = [s \in Symbols |-> IF s \in shorts THEN 0 ELSE held[s]]
          /\ UNCHANGED used
       \/ /\ Occurs("fault")
          /\ \E covered \in SUBSET shorts :
                held' = [s \in Symbols |-> IF s \in covered THEN 0 ELSE held[s]]
    /\ UNCHANGED <<book, bar, eod, call, db, dayTrades, stops, clock, moved, orphans>>

-----------------------------------------------------------------------------
BarStep ==
    \/ \E p \in bar.todo : StopSkipped(p) \/ StopHit(p)
    \/ \E g \in bar.signals : SignalDropped(g) \/ BuyAccepted(g) \/ ExitAccepted(g)
    \/ Dispatch
    \/ AccountReturned
    \/ EntryReturned
    \/ ExitReturned
    \/ SignalsDone
    \/ EquityReturned
    \/ CancelAll
    \/ Liquidate
    \/ CloseTrades
    \/ SetFlag

Thread(t) ==
    \/ ReadPositions(t)
    \/ CancelOrders(t)
    \/ SellOrder(t)
    \/ RecordExit(t)
    \/ BuyOrder(t)
    \/ ProtectEntry(t)
    \/ SaveTrade(t)

EodStep ==
    \/ \E p \in eod.todo : EodSells(p) \/ EodKeeps(p)
    \/ EodExitReturned
    \/ EodSweepDone
    \/ EodCancels

Environment ==
    \/ \E s \in Symbols : BarArrives(s) \/ StopFills(s)
    \/ EodStarts
    \/ TurnsLate
    \/ HoursEnd
    \/ NextSession
    \/ ResetBreaker
    \/ Crash
    \/ Startup

Next ==
    \/ BarStep
    \/ \E t \in Tasks : Thread(t)
    \/ EodStep
    \/ Environment

Spec == Init /\ [][Next]_vars

\* The loop serves ready tasks in turn, so a task that keeps becoming ready
\* runs; a thread runs until its call returns.
FairSpec ==
    /\ Spec
    /\ SF_vars(BarStep)
    /\ SF_vars(EodStep)
    /\ \A t \in Tasks : WF_vars(Thread(t))

-----------------------------------------------------------------------------
(***************************************************************************)
(* Properties                                                              *)
(***************************************************************************)

\* Every variable has its type.
TypeOK ==
    /\ openPositions \subseteq Position
    /\ openOrders \subseteq Symbols
    /\ bar \in BarState
    /\ eod \in EodState
    /\ call \in [Tasks -> Call]
    /\ halted \in BOOLEAN
    /\ dbOpen \subseteq Nat
    /\ nextTrade \in Nat
    /\ dayTrades \in Seq(Nat)
    /\ held \in [Symbols -> Int]
    /\ stops \in [Symbols -> Nat]
    /\ day \in Nat
    /\ hours \in {"trading", "late", "after"}
    /\ up \in BOOLEAN
    /\ firstTrade \in Nat
    /\ moved \subseteq Symbols
    /\ orphans \subseteq Nat
    /\ used \in [Events -> Nat]

\* The two dictionaries of StreamEngine, updated at the same awaits, agree: a
\* symbol is in _open_orders exactly when some layer has a position in it.
OrdersMatchPositions == openOrders = SymbolsOf(openPositions)

\* Two layers never hold the same symbol, although BarDispatcher evaluates all
\* of them before the first of their orders is submitted.
OneLayerPerSymbol ==
    \A p, q \in openPositions : p.symbol = q.symbol => p = q

\* risk.max_positions holds of the book, although the account and the order are
\* awaited between the count and the insertion.
WithinMaxPositions == Cardinality(SymbolsOf(openPositions)) <= MaxPositions

BookInv == OrdersMatchPositions /\ OneLayerPerSymbol /\ WithinMaxPositions

\* No trade this process opened is OPEN in the database and unknown to the
\* engine: its position is in the book, or its entry call is about to return
\* it.  The exception is a trade whose save_trade committed and then raised.
OpenTradesTracked ==
    up => \A t \in dbOpen \ orphans : t >= firstTrade =>
              \/ \E p \in openPositions : p.trade = t
              \/ /\ bar.pc = "entry"
                 /\ Returned("bar", "true")
                 /\ call["bar"].trade = t

\* While the circuit breaker is active no entry order is in flight, on the
\* bar task's thread or half way through submit_entry_order.
HaltedMeansNoEntry == halted => call["bar"].step \notin EntrySteps

\* The account never goes short in a symbol unless lots of it left the account
\* without leaving the book: sold by the end-of-day task, filled by a resting
\* stop, liquidated, sold by an order whose reply was lost or whose trade row
\* could not be updated.
ShortsExplained == \A s \in Symbols : held[s] < 0 => s \in moved

\* As long as the process lives the account holds no lot nobody knows of, but
\* one for each reply that was lost and each call that failed, even though a
\* lost purchase is made again: what it inherited, the book and the entry under
\* way explain the rest.
Entered(s) ==
    IF bar.symbol = s /\ bar.pc = "entry" /\ call["bar"].step \in {"protect", "save", "true"}
    THEN 1 ELSE 0

LotsExplained ==
    used["crash"] = 0 =>
        \A s \in Symbols :
            held[s] <= Inherited[s] + Cardinality({p \in openPositions : p.symbol = s})
                       + Entered(s) + used["lost"] + used["fault"]

\* When the end-of-day task is done and until 16:00, every open trade of a layer
\* that stops entering in time was either closed or reported as kept overnight,
\* although bars were handled while the task awaited its orders.
EodCoversGated ==
    eod.pc = "done" /\ hours = "late" =>
        \A p \in openPositions :
            p.layer \in TimeGated /\ p.trade \in dbOpen => p.trade \in eod.kept

\* With one guard for everybody, the check before and the record after an exit
\* let at most one day trade too many through: the two tasks' exits overlap.
DayTradesBounded == SharedGuard => RollingCount <= MaxDayTrades + 1

\* The book of the engine implements the abstract position book.
Pairs == {<<p.symbol, p.layer>> : p \in openPositions}
Book == INSTANCE PositionBook WITH book <- Pairs
BookSpec == Book!Spec

\* Every bar is handled to the end, so the stream keeps being read: no call,
\* retry or turn of the other task holds the handler for ever.
BarHandled == bar.pc # "idle" ~> bar.pc = "idle"

\* A started end-of-day close runs to its end (or the process dies).
EodFinishes == eod.pc = "sweep" ~> eod.pc \in {"done", "idle"}

\* Neither of the two tasks holds up the other, or itself, for ever.
TasksFinish == BarHandled /\ EodFinishes

-----------------------------------------------------------------------------
\* A statement of the documentation, checked to be false of the code.

\* PDTGuard: "blocks same-day exits when at the 3-trade limit".
PdtLimitHolds == RollingCount <= MaxDayTrades

-----------------------------------------------------------------------------
(***************************************************************************)
(* The inductive invariant behind the safety properties.                   *)
(***************************************************************************)

BarExiting == bar.pc \in {"stopExit", "signalExit"}
Answered   == {"true", "false"}

\* A task awaits exactly the kind of call its program counter says, and a dead
\* process runs none.
CallsMatchTasks ==
    /\ call["bar"].step \in IF BarExiting THEN ExitSteps \union Answered
                            ELSE IF bar.pc = "entry" THEN EntrySteps \union Answered
                            ELSE {"none"}
    /\ call["eod"].step \in IF eod.pc = "exit" THEN ExitSteps \union Answered
                            ELSE {"none"}
    /\ BarExiting \/ bar.pc = "entry" => call["bar"].symbol = bar.symbol
    /\ ~up => bar.pc = "idle" /\ eod.pc = "idle"
    /\ DryRun => \A t \in Tasks :
            call[t].step \notin {"positions", "cancel", "sell", "buy", "protect"}

\* The guards of BuyAccepted still hold when the entry call returns.
EntryReserved ==
    bar.pc \in {"account", "entry"} =>
        /\ ~AtMax
        /\ bar.symbol \notin openOrders

\* The stop-loss pass works on positions that are still in the book.
SnapshotCurrent ==
    IF bar.pc = "stops"
    THEN bar.todo \subseteq {p \in openPositions : p.symbol = bar.symbol}
    ELSE bar.todo = {}

\* The bar handler exits the tracked position of its symbol and layer, and is
\* told so only after the trade is CLOSED.
ExitsTracked ==
    BarExiting =>
        /\ \E p \in openPositions :
              /\ p.symbol = bar.symbol
              /\ p.layer = bar.layer
              /\ p.trade = call["bar"].trade
        /\ Returned("bar", "true") => call["bar"].trade \notin dbOpen

\* Trade ids in use are older than the next one.
IdsOld ==
    /\ \A t \in dbOpen : t < nextTrade
    /\ \A p \in openPositions : p.trade < nextTrade
    /\ Returned("bar", "true") => call["bar"].trade < nextTrade
    /\ firstTrade <= nextTrade

HaltedInStops == halted => bar.pc \in {"idle", "stops", "stopExit"}

\* Unless its lots moved behind the book, a symbol in the book is in the
\* account until its own exit sells it, and that exit sells no more than there is.
LotsOf(s) ==
    /\ held[s] >= 0
    /\ ~DryRun /\ s \in SymbolsOf(openPositions) =>
          \/ held[s] > 0
          \/ /\ BarExiting
             /\ bar.symbol = s
             /\ call["bar"].step \in {"recordExit", "true"}
    /\ bar.symbol = s /\ call["bar"].step \in {"cancel", "sell"} =>
          call["bar"].qty <= held[s]
    /\ /\ ~DryRun
       /\ bar.symbol = s
       /\ bar.pc = "entry"
       /\ call["bar"].step \in {"protect", "save", "true"}
       => held[s] > 0

LotsHeld == \A s \in Symbols \ moved : LotsOf(s)

\* The lots of LotsExplained, less one that the exit under way has sold and the
\* book still has.  An exit sells at least one; a dry run moves none.
Exited(s) ==
    IF bar.symbol = s /\ BarExiting /\ call["bar"].step \in {"recordExit", "true"}
    THEN 1 ELSE 0

InBook(s) == IF s \in SymbolsOf(openPositions) THEN 1 ELSE 0

LotsKnown ==
    /\ used["crash"] = 0 => up
    /\ call["bar"].step \in {"cancel", "sell"} => call["bar"].qty > 0
    /\ used["crash"] = 0 => \A s \in Symbols :
          IF DryRun THEN held[s] <= Inherited[s]
          ELSE held[s] + Exited(s) <= Inherited[s] + InBook(s) + Entered(s)
                                       + used["lost"] + used["fault"]

\* A day trade on its way through an exit was admitted when fewer than the limit
\* were recorded; the other task may have one on its way as well.
InFlight(t) ==
    IF call[t].step \in ExitSteps /\ call[t].dayTrade /\ ~DryRun THEN 1 ELSE 0

DayTradesAdmitted ==
    SharedGuard => RollingCount + InFlight("bar") + InFlight("eod") <= MaxDayTrades + 1

\* Late in the session the bar handler has no entry of a time-gated layer left:
\* the hour strikes between two bars, and an idle handler has no signals.
NoGatedEntry ==
    /\ bar.pc = "idle" => bar.signals = {}
    /\ hours = "late" =>
          /\ \A g \in bar.signals : g.side = "BUY" => g.layer \notin TimeGated
          /\ bar.pc \in {"account", "entry"} => bar.layer \notin TimeGated

\* The close is told that it has sold only after the trade is CLOSED.
EodExitTracked ==
    /\ \A p \in eod.todo : p.trade < nextTrade
    /\ eod.pc = "exit" =>
          /\ call["eod"].trade = eod.trade
          /\ eod.trade < nextTrade
          /\ Returned("eod", "true") => eod.trade \notin dbOpen

\* From its start on, the close has what it must deal with before it, in hand or
\* reported.
GatedCovered ==
    /\ hours = "trading" => eod.pc = "idle"
    /\ eod.pc \in {"cancel", "done"} => eod.todo = {}
    /\ eod.pc # "idle" /\ hours = "late" =>
          \A p \in openPositions :
              p.layer \in TimeGated /\ p.trade \in dbOpen =>
                  \/ p \in eod.todo
                  \/ eod.pc = "exit" /\ eod.trade = p.trade
                  \/ p.trade \in eod.kept

IInv ==
    /\ TypeOK
    /\ BookInv
    /\ CallsMatchTasks
    /\ EntryReserved
    /\ SnapshotCurrent
    /\ ExitsTracked
    /\ IdsOld
    /\ HaltedInStops
    /\ OpenTradesTracked
    /\ LotsHeld
    /\ LotsKnown
    /\ DayTradesAdmitted
    /\ NoGatedEntry
    /\ EodExitTracked
    /\ GatedCovered

=============================================================================
