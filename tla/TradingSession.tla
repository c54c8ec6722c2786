--------------------------- MODULE TradingSession ---------------------------
(***************************************************************************)
(* What the process remembers of a trading day besides the book of the     *)
(* engine: the bars and opening ranges of BarStore, the private positions  *)
(* of the four strategy layers, and the stop-out times of BarDispatcher.   *)
(* The bar handler drives them, and the scheduler's jobs change them while *)
(* it awaits an order.                                                     *)
(*                                                                         *)
(* The day is cut into parts of half an hour or more.  Prices and          *)
(* indicators appear as choices between the outcomes they lead to; how an  *)
(* order fares is in LiveTrading and is a choice here.                     *)
(***************************************************************************)
EXTENDS Integers, FiniteSets

CONSTANTS Symbols,         \* the universe of ticker symbols
          MaxPositions,    \* risk.max_positions
          Cadence,         \* l3_cadence
          MaxHold,         \* bars after which L1, L2 and L3 give a position up
          FadeBars,        \* consecutive_fade_bars of L4
          EarlyBars,       \* bars to wait before L1 and L3 enter
          SessionBars,     \* _MAX_SESSION_BARS of L4
          MinBars,         \* bars of history a layer's indicators need
          MaxBars,         \* BarStore(max_bars)
          MaxDay,          \* bound: days
          MaxCount         \* bound: bars of a symbol that a process receives

Layers == {"L1", "L2", "L3", "L4"}

ASSUME SessionAssumption ==
    /\ IsFiniteSet(Symbols) /\ Symbols # {}
    /\ MaxPositions \in Nat
    /\ Cadence \in Nat \ {0}
    /\ MaxHold \in [{"L1", "L2", "L3"} -> Nat \ {0}]
    /\ FadeBars \in Nat \ {0}
    /\ EarlyBars \in [{"L1", "L3"} -> Nat]
    /\ SessionBars \in Nat
    /\ MinBars \in [Layers -> Nat]
    /\ MaxBars \in Nat
    /\ MaxDay \in Nat \ {0}
    /\ MaxCount \in Nat

VARIABLES
    day,           \* the date
    part,          \* the part of the day
    edt,           \* New York has daylight saving time
    history,       \* bars in the 1Min deque, by symbol
    counts,        \* BarStore._bar_counts
    rangeBars,     \* BarStore._opening_range_bars: when the bars are from
    range,         \* BarStore._opening_range: the bars it is made of, {} for None
    flat,          \* symbols whose opening range has no extent
    tracked,       \* _open_positions of each layer: bars_held, or Untracked
    triggered,     \* L2's _triggered_today
    fade,          \* L4's _volume_fade_counter
    cooling,       \* symbols stopped out less than the cooldown ago
    book,          \* StreamEngine._open_positions: layers, by symbol
    bar,           \* the bar handler: where it is and its locals
    orbBuys        \* ghost: BUY signals of L2 since the market opened

clock  == <<day, part, edt>>
store  == <<history, counts, rangeBars, range, flat>>
layers == <<tracked, triggered, fade>>
vars   == <<clock, store, layers, cooling, book, bar, orbBuys>>

-----------------------------------------------------------------------------
(***************************************************************************)
(* The parts of the day, New York time: from 8:00, 9:00, 9:30, 10:00,      *)
(* 10:30, 11:00, 15:00 and 16:00 on.                                       *)
(***************************************************************************)
Early   == 1
Pre     == 2
Opening == 3
Mid     == 4
Morning == 5
Main    == 6
Late    == 7
After   == 8
Parts   == Early .. After

Stamp == [day : Nat, part : Parts]

\* The two windows of _maybe_accumulate_opening_range are the opening half hour
\* in summer and in winter; one of them is another half hour of the day.
InWindow(p) == p = Opening \/ (edt /\ p = Morning) \/ (~edt /\ p = Early)

Untracked == -1

AtMost(x, y) == IF x <= y THEN x ELSE y

Signal == [layer : Layers, side : {"BUY", "EXIT"}]

OnLoopPcs == {"stops", "signals"}
BarPcs    == {"idle", "stopExit", "exit", "entry"} \union OnLoopPcs
BarState  == [pc : BarPcs, symbol : Symbols, part : Parts,
              todo : SUBSET Layers, layer : Layers, signals : SUBSET Signal,
              stopped : BOOLEAN]      \* ghost: this bar brought a stop-out

AnySymbol == CHOOSE s \in Symbols : TRUE
IdleBar   == [pc |-> "idle", symbol |-> AnySymbol, part |-> Early, todo |-> {},
              layer |-> "L1", signals |-> {}, stopped |-> FALSE]

\* A job of the scheduler runs when the handler is idle or awaits an order.
LoopFree == bar.pc \notin OnLoopPcs

None     == [s \in Symbols |-> {}]
Zero     == [s \in Symbols |-> 0]
NoneHeld == [s \in Symbols |-> Untracked]

Init ==
    /\ day = 1
    /\ part = Early
    /\ edt \in BOOLEAN
    /\ history = Zero
    /\ counts = Zero
    /\ rangeBars = None
    /\ range = None
    /\ flat = {}
    /\ tracked = [l \in Layers |-> NoneHeld]
    /\ triggered = {}
    /\ fade = Zero
    /\ cooling = {}
    /\ book = None
    /\ bar = IdleBar
    /\ orbBuys = Zero

\* The process dies and starts again with nothing in memory.
Restart ==
    /\ history' = Zero
    /\ counts' = Zero
    /\ rangeBars' = None
    /\ range' = None
    /\ flat' = {}
    /\ tracked' = [l \in Layers |-> NoneHeld]
    /\ triggered' = {}
    /\ fade' = Zero
    /\ cooling' = {}
    /\ book' = None
    /\ bar' = IdleBar
    /\ orbBuys' = Zero
    /\ UNCHANGED clock

-----------------------------------------------------------------------------
(***************************************************************************)
(* evaluate_bar of the four layers.  An outcome is the signal, whether an  *)
(* exit's reason counts as a stop-out, and the layer's bars_held after it. *)
(***************************************************************************)
Keep(h)    == [side |-> "HOLD", stop |-> FALSE, held |-> h]
Buy        == [side |-> "BUY", stop |-> FALSE, held |-> 0]
Exit(stop) == [side |-> "EXIT", stop |-> stop, held |-> Untracked]

Outcome == [side : {"HOLD", "BUY", "EXIT"}, stop : BOOLEAN, held : Nat \union {Untracked}]

\* bars_held after a layer has adopted what only the engine knows of, with the
\* engine's count, which stays zero, and has counted the bar.  Past MaxHold it
\* makes no difference.
HeldNow(l, s) ==
    IF tracked[l][s] # Untracked THEN AtMost(tracked[l][s] + 1, MaxHold[l])
    ELSE IF l \in book[s] THEN 1
    ELSE Untracked

Holds(l, s) == tracked[l][s] # Untracked \/ l \in book[s]

Warm(l, s) == history[s] >= MinBars[l]

\* _is_past_et_time is false again from 16:00 on.
PastEntryTime == bar.part = Late

L1Enters(s) == ~PastEntryTime /\ counts[s] > EarlyBars["L1"]

\* A stop-loss or a time stop is a stop-out; a return to the mean, a failed
\* breakout or a target reached is not, and matters only before the time stop.
PriceExits(l, h) == {Exit(TRUE)} \union {o \in {Exit(FALSE)} : h < MaxHold[l]}

\* Definitions whose name ends in an underscore are deliberately wrong variants
\* of the definition that follows them, used to test the properties.

\* Gives up one bar too late.
L1Outcomes_(s) ==
    LET h == HeldNow("L1", s) IN
    IF ~Warm("L1", s) THEN {Keep(h)}
    ELSE IF h = Untracked
    THEN {Keep(h)} \union {o \in {Buy} : L1Enters(s)}
    ELSE PriceExits("L1", h) \union {o \in {Keep(h)} : h <= MaxHold["L1"]}

\* L1 looks at neither a position nor an entry without enough bars of history.
L1Outcomes(s) ==
    LET h == HeldNow("L1", s) IN
    IF ~Warm("L1", s) THEN {Keep(h)}
    ELSE IF h = Untracked
    THEN {Keep(h)} \union {o \in {Buy} : L1Enters(s)}
    ELSE PriceExits("L1", h) \union {o \in {Keep(h)} : h < MaxHold["L1"]}

\* Forgets that it has been in the market today.
L2Enters_(s) == HeldNow("L2", s) = Untracked

\* Once a day.
L2Enters(s) == HeldNow("L2", s) = Untracked /\ s \notin triggered

\* L2, which may be disabled by the regime and needs an opening range.  With no
\* extent, or an average true range of zero, it only counts the bar.
L2Outcomes(s) ==
    LET h == HeldNow("L2", s) IN
    {Keep(tracked["L2"][s])} \union
    {o \in {Keep(h), Buy} \union PriceExits("L2", h) :
        /\ range[s] # {}
        /\ o # Keep(h) => Warm("L2", s) /\ s \notin flat
        /\ o = Buy => L2Enters(s)
        /\ o.side = "EXIT" => h # Untracked}

L3Fires(s)  == counts[s] % Cadence = 0
L3Enters(s) == counts[s] > EarlyBars["L3"] /\ Warm("L3", s)

\* L3, on every Cadence-th bar: a stop breach is a stop-out, its other exits are
\* not.
L3Outcomes(s) ==
    LET h == HeldNow("L3", s) IN
    IF ~L3Fires(s) THEN {Keep(tracked["L3"][s])}
    ELSE IF h = Untracked
    THEN {Keep(h)} \union {o \in {Buy} : L3Enters(s)}
    ELSE {Exit(TRUE), Exit(FALSE)} \union {o \in {Keep(h)} : h < MaxHold["L3"]}

L4Enters(s) == ~PastEntryTime /\ counts[s] <= SessionBars /\ Warm("L4", s)

\* What the bar makes of the count of bars on which the volume has faded.
Fades(s) ==
    IF Holds("L4", s) /\ Warm("L4", s) THEN {0, fade[s] + 1} ELSE {fade[s]}

\* L4, after its count became f: a stop breach is a stop-out, its other exits are
\* not.  It keeps no position through FadeBars faded bars in a row.
L4Outcomes(s, f) ==
    IF ~Holds("L4", s)
    THEN {Keep(Untracked)} \union {o \in {Buy} : L4Enters(s)}
    ELSE {Exit(TRUE), Exit(FALSE)} \union {o \in {Keep(0)} : f < FadeBars}

-----------------------------------------------------------------------------
(***************************************************************************)
(* The bar handler.                                                        *)
(***************************************************************************)
AtMax == Cardinality({s \in Symbols : book[s] # {}}) >= MaxPositions

\* Forgets the cooldown.
Admits_(s) == ~AtMax /\ book[s] = {}

\* What a BUY of any layer has to pass in dispatch.  The symbols with an open
\* order are those in the book.
Admits(s) == s \notin cooling /\ ~AtMax /\ book[s] = {}

\* An update: the bar is stored, counted, and put into the opening range when it
\* was made in one of the two windows.  It was made in this part of the day or in
\* the one before.
BarArrives(s) ==
    /\ bar.pc = "idle"
    /\ counts[s] < MaxCount
    /\ \E p \in {part, part - 1} \intersect Parts :
        /\ bar' = [IdleBar EXCEPT !.pc = "stops", !.symbol = s, !.part = p, !.todo = book[s]]
        /\ rangeBars' = [rangeBars EXCEPT ![s] =
                            IF InWindow(p) THEN @ \union {[day |-> day, part |-> p]} ELSE @]
    /\ history' = [history EXCEPT ![s] = AtMost(@ + 1, MaxBars)]
    /\ counts' = [counts EXCEPT ![s] = @ + 1]
    /\ UNCHANGED <<clock, range, flat, layers, cooling, book, orbBuys>>

\* A position's stop is not hit, or PDTGuard forbids the exit.
StopSkipped(l) ==
    /\ bar.pc = "stops"
    /\ l \in bar.todo
    /\ bar' = [bar EXCEPT !.todo = @ \ {l}]
    /\ UNCHANGED <<clock, store, layers, cooling, book, orbBuys>>

StopHit(l) ==
    /\ bar.pc = "stops"
    /\ l \in bar.todo
    /\ bar' = [bar EXCEPT !.pc = "stopExit", !.todo = @ \ {l}, !.layer = l]
    /\ UNCHANGED <<clock, store, layers, cooling, book, orbBuys>>

\* The exit order was submitted, or not.  The layer is not told.
StopExitReturned ==
    /\ bar.pc = "stopExit"
    /\ \/ book' = [book EXCEPT ![bar.symbol] = @ \ {bar.layer}]
       \/ UNCHANGED book
    /\ bar' = [bar EXCEPT !.pc = "stops"]
    /\ UNCHANGED <<clock, store, layers, cooling, orbBuys>>

\* The circuit breaker is active: no signals.
BreakerActive ==
    /\ bar.pc = "stops"
    /\ bar.todo = {}
    /\ bar' = IdleBar
    /\ UNCHANGED <<clock, store, layers, cooling, book, orbBuys>>

\* L2 remembers a symbol that it buys or adopts.
Triggers(s, o) == tracked["L2"][s] = Untracked /\ o # Keep(Untracked)

\* What the layers' outcomes o, and L4's count f, make of the session.
Evaluated(s, f, o) ==
    LET passed == {l \in Layers : o[l].side = "EXIT" \/ (o[l].side = "BUY" /\ Admits(s))}
        stops  == \E l \in Layers : o[l].stop
    IN
    /\ tracked' = [l \in Layers |-> [tracked[l] EXCEPT ![s] = o[l].held]]
    /\ triggered' = IF Triggers(s, o["L2"]) THEN triggered \union {s} ELSE triggered
    /\ fade' = [fade EXCEPT ![s] = IF o["L4"].side = "HOLD" THEN f ELSE 0]
    /\ cooling' = IF stops THEN cooling \union {s} ELSE cooling
    /\ bar' = [bar EXCEPT !.pc = "signals",
                          !.signals = {[layer |-> l, side |-> o[l].side] : l \in passed},
                          !.stopped = stops]
    /\ orbBuys' = [orbBuys EXCEPT ![s] = IF o["L2"].side = "BUY" THEN @ + 1 ELSE @]

\* Every layer evaluates the bar, whatever becomes of its signal; EXIT always
\* passes, BUY only if the symbol admits it, and a stop-out starts the cooldown.
Dispatch ==
    LET s == bar.symbol IN
    /\ bar.pc = "stops"
    /\ bar.todo = {}
    /\ \E f \in Fades(s), o1 \in L1Outcomes(s), o2 \in L2Outcomes(s), o3 \in L3Outcomes(s) :
       \E o4 \in L4Outcomes(s, f) :
        Evaluated(s, f, [L1 |-> o1, L2 |-> o2, L3 |-> o3, L4 |-> o4])
    /\ UNCHANGED <<clock, store, book>>

\* No position to exit, or no day trade left; or the final guard of an entry.
SignalDropped(sig) ==
    /\ bar.pc = "signals"
    /\ sig \in bar.signals
    /\ sig.side = "BUY" => AtMax \/ book[bar.symbol] # {}
    /\ bar' = [bar EXCEPT !.signals = @ \ {sig}]
    /\ UNCHANGED <<clock, store, layers, cooling, book, orbBuys>>

BuyAccepted(sig) ==
    /\ bar.pc = "signals"
    /\ sig \in bar.signals
    /\ sig.side = "BUY"
    /\ ~AtMax
    /\ book[bar.symbol] = {}
    /\ bar' = [bar EXCEPT !.pc = "entry", !.layer = sig.layer, !.signals = @ \ {sig}]
    /\ UNCHANGED <<clock, store, layers, cooling, book, orbBuys>>

\* The order was submitted, or anything on the way to it failed.
EntryReturned ==
    /\ bar.pc = "entry"
    /\ \/ book' = [book EXCEPT ![bar.symbol] = @ \union {bar.layer}]
       \/ UNCHANGED book
    /\ bar' = [bar EXCEPT !.pc = "signals"]
    /\ UNCHANGED <<clock, store, layers, cooling, orbBuys>>

ExitAccepted(sig) ==
    /\ bar.pc = "signals"
    /\ sig \in bar.signals
    /\ sig.side = "EXIT"
    /\ sig.layer \in book[bar.symbol]
    /\ bar' = [bar EXCEPT !.pc = "exit", !.layer = sig.layer, !.signals = @ \ {sig}]
    /\ UNCHANGED <<clock, store, layers, cooling, book, orbBuys>>

ExitReturned ==
    /\ bar.pc = "exit"
    /\ \/ book' = [book EXCEPT ![bar.symbol] = @ \ {bar.layer}]
       \/ UNCHANGED book
    /\ bar' = [bar EXCEPT !.pc = "signals"]
    /\ UNCHANGED <<clock, store, layers, cooling, orbBuys>>

SignalsDone ==
    /\ bar.pc = "signals"
    /\ bar.signals = {}
    /\ bar' = IdleBar
    /\ UNCHANGED <<clock, store, layers, cooling, book, orbBuys>>

-----------------------------------------------------------------------------
(***************************************************************************)
(* The clock and the scheduler's jobs.                                     *)
(***************************************************************************)
CooldownEnds(s) ==
    /\ s \in cooling
    /\ cooling' = cooling \ {s}
    /\ UNCHANGED <<clock, store, layers, book, bar, orbBuys>>

\* _premarket_task loads up to 200 old bars, behind those that came meanwhile.
Preload(s) ==
    /\ LoopFree
    /\ part \in {Early, Pre}
    /\ \E n \in history[s] .. MaxBars : history' = [history EXCEPT ![s] = n]
    /\ UNCHANGED <<clock, counts, rangeBars, range, flat, layers, cooling, book, bar, orbBuys>>

\* A part of the day ends at which no job is due.
PartPasses ==
    /\ part \notin {Pre, Opening, After}
    /\ part' = part + 1
    /\ UNCHANGED <<day, edt, store, layers, cooling, book, bar, orbBuys>>

\* What reset_all_sessions makes of the opening ranges and of their bars.
\* Forgets the bars of the day before.
FreshBars_ == rangeBars
FreshBars  == None

\* 9:30, _market_open_task: BarStore.reset_all_sessions and, of the layers, L2's
\* reset_daily_state.
MarketOpens ==
    /\ LoopFree
    /\ part = Pre
    /\ part' = Opening
    /\ rangeBars' = FreshBars
    /\ range' = None
    /\ flat' = {}
    /\ tracked' = [tracked EXCEPT !["L2"] = NoneHeld]
    /\ triggered' = {}
    /\ orbBuys' = Zero
    /\ UNCHANGED <<day, edt, history, counts, fade, cooling, book, bar>>

\* 10:00, _orb_finalize_task.  Without bars the value stays what it was.
RangeCloses ==
    /\ LoopFree
    /\ part = Opening
    /\ part' = Mid
    /\ range' = [s \in Symbols |-> IF rangeBars[s] # {} THEN rangeBars[s] ELSE range[s]]
    /\ flat' \in SUBSET {s \in Symbols : rangeBars[s] # {}}
    /\ UNCHANGED <<day, edt, history, counts, rangeBars, layers, cooling, book, bar, orbBuys>>

\* The clocks may be changed overnight.
NextDay ==
    /\ part = After
    /\ day < MaxDay
    /\ bar.pc = "idle"
    /\ part' = Early
    /\ day' = day + 1
    /\ edt' \in BOOLEAN
    /\ UNCHANGED <<store, layers, cooling, book, bar, orbBuys>>

Handler ==
    \/ \E s \in Symbols : BarArrives(s)
    \/ \E l \in Layers : StopSkipped(l) \/ StopHit(l)
    \/ StopExitReturned
    \/ BreakerActive
    \/ Dispatch
    \/ \E sig \in Signal : SignalDropped(sig) \/ BuyAccepted(sig) \/ ExitAccepted(sig)
    \/ EntryReturned
    \/ ExitReturned
    \/ SignalsDone

Clock ==
    \/ \E s \in Symbols : CooldownEnds(s) \/ Preload(s)
    \/ PartPasses
    \/ MarketOpens
    \/ RangeCloses
    \/ NextDay

Next == Handler \/ Clock \/ Restart

Spec == Init /\ [][Next]_vars

-----------------------------------------------------------------------------
TypeOK ==
    /\ day \in Nat
    /\ part \in Parts
    /\ edt \in BOOLEAN
    /\ history \in [Symbols -> 0 .. MaxBars]
    /\ counts \in [Symbols -> Nat]
    /\ rangeBars \in [Symbols -> SUBSET Stamp]
    /\ range \in [Symbols -> SUBSET Stamp]
    /\ flat \subseteq Symbols
    /\ tracked \in [Layers -> [Symbols -> Nat \union {Untracked}]]
    /\ triggered \subseteq Symbols
    /\ fade \in [Symbols -> Nat]
    /\ cooling \subseteq Symbols
    /\ book \in [Symbols -> SUBSET Layers]
    /\ bar \in BarState
    /\ orbBuys \in [Symbols -> Nat]

\* The last day on which a session has opened.
RangeDay == IF part >= Opening THEN day ELSE day - 1

\* The opening range the layers trade on is made of bars of the opening half hour
\* of the current session only: of no other half hour that the two windows admit,
\* of no earlier day, whatever bars come late and wherever the process restarts.
RangePure == \A s \in Symbols : range[s] \subseteq {[day |-> RangeDay, part |-> Opening]}

SessionInv == TypeOK /\ RangePure

\* L2 signals at most one entry per symbol and session, also when it adopts a
\* position of the day before or its signal comes to nothing.
OneOrbEntry == \A s \in Symbols : orbBuys[s] <= 1

\* L1 and L3 do not keep a position through MaxHold of their bars, and L4 not
\* through FadeBars faded ones; a position L4 has given up leaves no count behind
\* for the next one.
GivesUp ==
    \A s \in Symbols :
        /\ tracked["L1"][s] < MaxHold["L1"]
        /\ tracked["L3"][s] < MaxHold["L3"]
        /\ fade[s] < FadeBars
        /\ tracked["L4"][s] = Untracked => fade[s] = 0

\* The symbol's entries under way.
Entering ==
    \/ bar.pc = "entry"
    \/ bar.pc \in {"signals", "exit"} /\ \E sig \in bar.signals : sig.side = "BUY"

\* While a symbol is in its cooldown no entry of it is under way, unless it was
\* decided on the very bar that brought the stop-out.
CooldownHolds == Entering /\ bar.symbol \in cooling => bar.stopped

=============================================================================
