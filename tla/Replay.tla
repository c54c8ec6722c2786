------------------------------- MODULE Replay -------------------------------
(***************************************************************************)
(* The bar-by-bar replay of --test (BacktestEngine.run): the merged        *)
(* timeline of one-minute bars drives a simulated account through the bar  *)
(* store, the regime filter, the dispatcher, the sizer and the broker.     *)
(*                                                                         *)
(* Which signals the layers emit is a choice: indicators and the layers'   *)
(* own memory are in TradingSession.                                       *)
(***************************************************************************)
EXTENDS Integers, Sequences, SequencesExt, FiniteSets

CONSTANTS Symbols,         \* the symbols that have bars
          Layers,          \* the layers in the dispatcher's order, a sequence
          OrbLayer,        \* L2_ORB
          MaxPositions,    \* BacktestEngine(max_positions)
          Equity0,         \* initial_equity
          Unit, DollarRisk, MaxPct, MaxValue, SizerMax,
          BearScalar,      \* vix_size_reduction_scalar, in percent
          Prices,          \* the prices bars have
          Minutes,         \* the minutes (UTC) at which there are bars
          MaxDay           \* bound: days

ASSUME ReplayAssumption ==
    /\ Symbols # {} /\ IsFiniteSet(Symbols)
    /\ Layers \in Seq(Range(Layers)) /\ IsInjective(Layers)
    /\ {MaxPositions, Equity0, DollarRisk, MaxPct, MaxValue, SizerMax, MaxDay} \subseteq Nat
    /\ Unit \in Nat \ {0}
    /\ BearScalar \in 0 .. 100
    /\ Prices \subseteq Nat \ {0}
    /\ Minutes \subseteq 0 .. 1439

INSTANCE PositionSizer
INSTANCE BacktestBroker

VARIABLES
    now,           \* the timestamp of the current bars: day and minute
    served,        \* symbols whose bar of this minute has been processed
    prices,        \* current_prices, 0 before a symbol's first bar
    account,       \* the BacktestBroker
    regime,        \* RegimeFilter._current_regime
    regimeDay,     \* the last date in regime_updated_for
    opening,       \* symbols with bars in BarStore._opening_range_bars
    range,         \* symbols with a BarStore opening range
    cooling,       \* symbols in the dispatcher's stop-out cooldown
    bar,           \* the bar being processed: where _process_bar is, its locals
    lastClose      \* ghost: the timestamp of the last end-of-day close

vars == <<now, served, prices, account, regime, regimeDay, opening, range,
          cooling, bar, lastClose>>

LayerSet == {Layers[i] : i \in DOMAIN Layers}
Regimes  == {"NEUTRAL", "BULL", "BEAR", "EXTREME"}

Time == [day : Nat, minute : 0 .. 1439]

Earlier(s, t) == s.day < t.day \/ (s.day = t.day /\ s.minute < t.minute)

Position == [symbol : Symbols, layer : LayerSet, price : Prices, stop : {0} \union Prices,
             qty : Nat, current : Prices, at : Time]

Accounts == [cash : Int, open : Seq(Position), realized : Int, lost : Int]

Signal == [layer : LayerSet, side : {"BUY", "EXIT"}]

Bars == [pc : {"dispatch", "signals"}, symbol : Symbols, close : Prices,
         count : Nat, signals : Seq(Signal)]

IdleBar == [pc |-> "idle", symbol |-> "none", close |-> 0,
            count |-> 0, signals |-> <<>>]

SymbolsOf(open) == {open[i].symbol : i \in DOMAIN open}

-----------------------------------------------------------------------------
(***************************************************************************)
(* The minutes that the replay singles out.  Each test knows both offsets  *)
(* of New York from UTC and not which of them holds on the day.            *)
(***************************************************************************)

\* "At or after 15:30 ET".
EndOfDay(m) == m \in {19 * 60 + 30, 20 * 60 + 30}

SessionOpens(m) == m \in {13 * 60 + 30, 14 * 60 + 30}

RangeCloses(m) == m \in {14 * 60, 15 * 60}

InWindow(m) == m \in 810 .. 840 \union 870 .. 900

\* RegimeFilter.get_regime.
Regime(vixy, aboveSma) ==
    IF vixy = "panic" THEN "EXTREME"
    ELSE IF ~aboveSma /\ vixy = "elevated" THEN "BEAR"
    ELSE IF aboveSma THEN "BULL" ELSE "NEUTRAL"

Scalar(r) == CASE r = "EXTREME" -> 0 [] r = "BEAR" -> BearScalar [] OTHER -> 100

OrbEnabled == regime \notin {"BEAR", "EXTREME"}

\* Definitions whose name ends in an underscore are deliberately wrong variants
\* of the definition that follows them, used to test the properties.

AtMax_ == Len(account.open) > MaxPositions

\* Distinct symbols against max_positions, as in the live dispatcher.
AtMax == Cardinality(SymbolsOf(account.open)) >= MaxPositions

-----------------------------------------------------------------------------
Init ==
    /\ now = [day |-> 1, minute |-> 0]
    /\ served = Symbols
    /\ prices = [s \in Symbols |-> 0]
    /\ account = Account(Equity0)
    /\ regime = "NEUTRAL"
    /\ regimeDay = 0
    /\ opening = {}
    /\ range = {}
    /\ cooling = {}
    /\ bar = IdleBar
    /\ lastClose = [day |-> 0, minute |-> 0]

\* The merged timeline moves on to a later minute that has bars.
NextMinute ==
    /\ bar.pc = "idle"
    /\ \E d \in {now.day, now.day + 1}, m \in Minutes :
          /\ d <= MaxDay
          /\ now' = [day |-> d, minute |-> m]
          /\ Earlier(now, now')
    /\ served' = {}
    /\ UNCHANGED <<prices, account, regime, regimeDay, opening, range, cooling, bar, lastClose>>

\* A bar at an end-of-day minute closes everything and is not processed further.
EndOfDayBar(s, close) ==
    /\ bar.pc = "idle"
    /\ s \notin served
    /\ EndOfDay(now.minute)
    /\ served' = served \union {s}
    /\ prices' = [prices EXCEPT ![s] = close]
    /\ account' = ForceCloseAll(account, prices')
    /\ lastClose' = now
    /\ UNCHANGED <<now, regime, regimeDay, opening, range, cooling, bar>>

\* bar_store.reset_session, finalize_opening_range and update, in the order of
\* the loop; a range without bars stays as it was.
Stored(s) ==
    LET bars    == IF SessionOpens(now.minute) THEN opening \ {s} ELSE opening
        ranges  == IF SessionOpens(now.minute) THEN range \ {s} ELSE range
    IN /\ opening' = IF InWindow(now.minute) THEN bars \union {s} ELSE bars
       /\ range' = IF RangeCloses(now.minute) /\ s \in bars THEN ranges \union {s} ELSE ranges

\* Once a day, at the first bar of an opening minute; without data, or when the
\* filter fails, the regime stays.
RegimeUpdated ==
    IF SessionOpens(now.minute) /\ regimeDay # now.day
    THEN /\ regimeDay' = now.day
         /\ \/ UNCHANGED regime
            \/ \E vixy \in {"calm", "elevated", "panic"}, above \in BOOLEAN :
                  regime' = Regime(vixy, above)
    ELSE UNCHANGED <<regime, regimeDay>>

StopHit(p, s, low) == p.symbol = s /\ p.stop > 0 /\ low <= p.stop

\* Sells one share.
StoppedOut_(acc, s, low, close) ==
    IF \E i \in DOMAIN acc.open : StopHit(acc.open[i], s, low)
    THEN SubmitSell(acc, s, 1, close) ELSE acc

\* The stop-loss pass ends with the first position whose stop is hit; what is
\* sold is the first position of the symbol.
StoppedOut(acc, s, low, close) ==
    LET hits == {i \in DOMAIN acc.open : StopHit(acc.open[i], s, low)} IN
    IF hits = {} THEN acc
    ELSE LET p == acc.open[First(hits)]
         IN SubmitSell(acc, s, p.qty, Least(close, p.stop))

\* Any other bar, up to the dispatch.
BarArrives(s, low, close) ==
    /\ bar.pc = "idle"
    /\ s \notin served
    /\ ~EndOfDay(now.minute)
    /\ low <= close
    /\ served' = served \union {s}
    /\ prices' = [prices EXCEPT ![s] = close]
    /\ Stored(s)
    /\ RegimeUpdated
    /\ account' = StoppedOut(UpdatePrices(account, s, close), s, low, close)
    /\ bar' = [IdleBar EXCEPT !.pc = "dispatch", !.symbol = s, !.close = close]
    /\ UNCHANGED <<now, cooling, lastClose>>

\* The dispatcher's filter of a layer's signal; open_orders is always empty here.
Admits(g) ==
    /\ g.layer = OrbLayer => OrbEnabled /\ bar.symbol \in range
    /\ g.side = "BUY" => /\ ~AtMax
                         /\ bar.symbol \notin cooling
                         /\ At(account, bar.symbol, g.layer) = {}

\* The layers' signals that pass, in the order of the layers.
Admitted(emitted) ==
    LET keep(signals, l) ==
            LET g == [layer |-> l, side |-> emitted[l]]
            IN IF g.side # "HOLD" /\ Admits(g) THEN Append(signals, g) ELSE signals
    IN FoldLeft(keep, <<>>, Layers)

\* All layers are evaluated before the first signal is acted on.  An exit that
\* names a stop starts the cooldown of the symbol.
Dispatch ==
    /\ bar.pc = "dispatch"
    /\ \E emitted \in [LayerSet -> {"HOLD", "BUY", "EXIT"}], stopOut \in BOOLEAN :
          LET signals == Admitted(emitted)
          IN /\ stopOut => \E i \in DOMAIN signals : signals[i].side = "EXIT"
             /\ cooling' = IF stopOut THEN cooling \union {bar.symbol} ELSE cooling
             /\ bar' = [bar EXCEPT !.pc = "signals", !.signals = signals,
                                   !.count = Len(account.open)]
    /\ UNCHANGED <<now, served, prices, account, regime, regimeDay, opening, range, lastClose>>

NextSignal == bar' = [bar EXCEPT !.signals = Tail(@)]

\* A BUY is sized by what the account holds now, but by the number of positions
\* it held at the dispatch.
Buy(stop) ==
    LET g   == Head(bar.signals)
        qty == ComputeShares(bar.close, stop, Equity(account), account.cash,
                             bar.count, Scalar(regime))
    IN /\ bar.pc = "signals"
       /\ bar.signals # <<>>
       /\ g.side = "BUY"
       /\ stop <= bar.close
       /\ account' = SubmitBuy(account,
            [symbol |-> bar.symbol, layer |-> g.layer, price |-> bar.close, stop |-> stop,
             qty |-> qty, current |-> bar.close, at |-> now])
       /\ NextSignal
       /\ UNCHANGED <<now, served, prices, regime, regimeDay, opening, range, cooling, lastClose>>

\* An EXIT of a layer that holds the symbol.
Exit ==
    LET g    == Head(bar.signals)
        mine == At(account, bar.symbol, g.layer)
    IN /\ bar.pc = "signals"
       /\ bar.signals # <<>>
       /\ g.side = "EXIT"
       /\ account' = IF mine = {} THEN account
                     ELSE SubmitSell(account, bar.symbol, account.open[First(mine)].qty,
                                     bar.close)
       /\ NextSignal
       /\ UNCHANGED <<now, served, prices, regime, regimeDay, opening, range, cooling, lastClose>>

BarDone ==
    /\ bar.pc = "signals"
    /\ bar.signals = <<>>
    /\ bar' = IdleBar
    /\ UNCHANGED <<now, served, prices, account, regime, regimeDay, opening, range,
                   cooling, lastClose>>

\* The cooldown runs on the wall clock, which has no relation to the bars' time.
CooldownEnds(s) ==
    /\ s \in cooling
    /\ cooling' = cooling \ {s}
    /\ UNCHANGED <<now, served, prices, account, regime, regimeDay, opening, range,
                   bar, lastClose>>

Next ==
    \/ NextMinute
    \/ \E s \in Symbols, close \in Prices :
          \/ EndOfDayBar(s, close)
          \/ \E low \in Prices : BarArrives(s, low, close)
    \/ Dispatch
    \/ \E stop \in {0} \union Prices : Buy(stop)
    \/ Exit
    \/ BarDone
    \/ \E s \in Symbols : CooldownEnds(s)

Spec == Init /\ [][Next]_vars

-----------------------------------------------------------------------------
(***************************************************************************)
(* Properties                                                              *)
(***************************************************************************)

TypeOK ==
    /\ now \in Time
    /\ served \subseteq Symbols
    /\ prices \in [Symbols -> {0} \union Prices]
    /\ account \in Accounts
    /\ regime \in Regimes
    /\ regimeDay \in Nat
    /\ opening \subseteq Symbols
    /\ range \subseteq Symbols
    /\ cooling \subseteq Symbols
    /\ bar \in Bars \union {IdleBar}
    /\ lastClose \in Time

\* A layer has at most one position in a symbol, a BUY that survived the
\* dispatch finds none when its turn comes, and the account never spends money
\* it has not got.
OnePerKey ==
    \A i, j \in DOMAIN account.open :
        /\ account.open[i].symbol = account.open[j].symbol
        /\ account.open[i].layer = account.open[j].layer
        => i = j

FreshBuys ==
    \A i \in DOMAIN bar.signals :
        bar.signals[i].side = "BUY" => At(account, bar.symbol, bar.signals[i].layer) = {}

Solvent == account.cash >= 0

\* Although all layers are evaluated before the first of them buys, no more than
\* max_positions symbols are held; and no position is larger than its risk and
\* value caps, whatever the regime was when it was opened.
WithinLimits ==
    /\ Cardinality(SymbolsOf(account.open)) <= MaxPositions
    /\ \A i \in DOMAIN account.open : LET p == account.open[i] IN
          /\ p.qty * Distance(p.price, p.stop) <= DollarRisk
          /\ p.qty * p.price <= MaxValue

\* Money is conserved: what the account has, what its positions cost and what
\* was lost add up to the capital and the profit the trade history reports.
LedgerBalances ==
    account.cash + Invested(account) + account.lost = Equity0 * Unit + account.realized

\* What the dispatch leaves to be done: at most one signal of a layer, and a place
\* for the symbol as long as there is a BUY among them.
OneSignalEach ==
    \A i, j \in DOMAIN bar.signals : bar.signals[i].layer = bar.signals[j].layer => i = j

BuysHaveRoom ==
    \A i \in DOMAIN bar.signals :
        bar.signals[i].side = "BUY" =>
            Cardinality(SymbolsOf(account.open) \union {bar.symbol}) <= MaxPositions

\* The last close was at an end-of-day minute up to now, and no bar of such a
\* minute is dispatched.
CloseIsPast ==
    /\ now.day > 0
    /\ lastClose.day = 0 \/ EndOfDay(lastClose.minute)
    /\ lastClose = now \/ Earlier(lastClose, now)
    /\ bar.pc # "idle" => ~EndOfDay(now.minute)

\* The invariants of the replay: one position for a layer and a symbol, no fill
\* beyond the limits of money, places and size, and books that balance.
ReplayInv ==
    /\ TypeOK /\ OnePerKey /\ FreshBuys /\ Solvent /\ WithinLimits /\ LedgerBalances
    /\ OneSignalEach /\ BuysHaveRoom /\ CloseIsPast

\* A position is only held past an end-of-day close if it was opened after it.
ClosedDaily == \A i \in DOMAIN account.open : Earlier(lastClose, account.open[i].at)

\* submit_sell looks for a symbol where its caller means a position: shares
\* vanish only when two layers hold the symbol, and never at the end-of-day
\* close, which meets the positions in the order of the dict.
LossNeedsSharing ==
    [][account'.lost # account.lost =>
          /\ ~EndOfDay(now.minute)
          /\ \E s \in Symbols : Cardinality(Of(account, s)) > 1]_vars

=============================================================================
