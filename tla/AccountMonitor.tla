--------------------------- MODULE AccountMonitor ---------------------------
(***************************************************************************)
(* The account monitor, which polls the broker every ten seconds, and what *)
(* run_live_trading does with its first poll: every short position that    *)
(* the process inherits is bought back before the engine is built.         *)
(*                                                                         *)
(* An order is accepted first and filled later, perhaps only when the      *)
(* market opens, and it outlives the process.  The monitor's figures       *)
(* (equity, buying power, profit), which are only logged, are left out.    *)
(***************************************************************************)
EXTENDS Integers

CONSTANTS Symbols,
          Lots,            \* the sizes of inherited positions, negative when short
          Attempts,        \* tries of a broker call under retry_with_backoff
          Limit            \* bound: how often each event occurs

Events == {"fault",      \* a broker call that raises without effect
           "lost",       \* an order that is accepted, and its reply lost
           "outside",    \* someone else trades or cancels, an order expires
           "crash"}      \* the process dies

ASSUME MonitorAssumption ==
    /\ Lots \subseteq Int
    /\ Attempts \in Nat \ {0}
    /\ Limit \in [Events -> Nat]

VARIABLES
    held,          \* the account's positions
    pending,       \* lots in buy orders that are accepted and not filled
    view,          \* AccountMonitor.open_positions, 0 for a symbol not in it
    main,          \* where run_live_trading is, and the shorts still to be dealt with
    order,         \* submit_market_order on its executor thread
    touched,       \* ghost: symbols in which someone else acted since the first poll
    doubled,       \* ghost: symbols bought once more than the process knows of
    missed,        \* ghost: symbols this process could not see or buy back
    used           \* how often each bounded event has occurred

account == <<held, pending>>
ghosts  == <<touched, doubled, missed>>
vars    == <<account, view, main, order, ghosts, used>>

\* "down" and "failed": no process, in the second case after an exception that
\* nobody caught.  "covering": awaiting a purchase.  "sleeping": the twelve
\* seconds after the last one.  "started": the engine is built and running.
Phases == {"down", "failed", "covering", "sleeping", "started"}

NoOrder == [step |-> "none", symbol |-> "none", qty |-> 0, attempt |-> 0]

At(pc) == [pc |-> pc, todo |-> {}]

Nothing == [s \in Symbols |-> 0]

Occurs(e) ==
    /\ used[e] < Limit[e]
    /\ used' = [used EXCEPT ![e] = @ + 1]

\* Definitions whose name ends in an underscore are deliberately wrong variants
\* of the definition that follows them, used to test the properties.

Abs_(n) == IF n < 0 THEN 1 ELSE n

Abs(n) == IF n < 0 THEN -n ELSE n

ShortSymbols_(v) == {s \in Symbols : v[s] # 0}

\* get_short_symbols.
ShortSymbols(v) == {s \in Symbols : v[s] < 0}

Init ==
    /\ held \in [Symbols -> Lots]
    /\ pending = Nothing
    /\ view = Nothing
    /\ main = At("down")
    /\ order = NoOrder
    /\ touched = {}
    /\ doubled = {}
    /\ missed = {}
    /\ used = [e \in Events |-> 0]

-----------------------------------------------------------------------------
\* A poll replaces what the monitor knows; one that fails keeps the last values.
PollFails_ == view' = Nothing

PollFails == UNCHANGED view

Polled ==
    \/ view' = held /\ UNCHANGED used
    \/ Occurs("fault") /\ PollFails

\* The next short of the list is bought back, as many lots as the monitor has by
\* now.  One that it no longer has raises a TypeError outside the try.
Cover(todo, v) ==
    \E s \in todo :
        IF v[s] = 0 THEN main' = At("failed") /\ order' = NoOrder
        ELSE /\ main' = [pc |-> "covering", todo |-> todo \ {s}]
             /\ order' = [step |-> "buy", symbol |-> s, qty |-> Abs(v[s]), attempt |-> 1]

\* The monitor starts with a poll, and the list of shorts is made from it.  A
\* poll that fails leaves the monitor empty, and start-up goes on as if there
\* was nothing to buy back.
Launch ==
    /\ main.pc \in {"down", "failed"}
    /\ touched' = {}
    /\ doubled' = {s \in Symbols : pending[s] > 0}
    /\ \/ /\ view' = held
          /\ missed' = {}
          /\ UNCHANGED used
       \/ /\ Occurs("fault")
          /\ view' = Nothing
          /\ missed' = Symbols
    /\ IF ShortSymbols(view') = {} THEN main' = At("started") /\ order' = NoOrder
       ELSE Cover(ShortSymbols(view'), view')
    /\ UNCHANGED account

\* A purchase returned or raised, which is only logged.
CoverReturned ==
    /\ main.pc = "covering"
    /\ order.step = "done"
    /\ IF main.todo = {} THEN main' = At("sleeping") /\ order' = NoOrder
       ELSE Cover(main.todo, view)
    /\ UNCHANGED <<account, view, ghosts, used>>

\* The sleep ends with another poll.
Slept ==
    /\ main.pc = "sleeping"
    /\ Polled
    /\ main' = At("started")
    /\ UNCHANGED <<account, order, ghosts>>

\* The monitor's own task.
Poll ==
    /\ main.pc \in {"covering", "sleeping", "started"}
    /\ Polled
    /\ UNCHANGED <<account, main, order, ghosts>>

-----------------------------------------------------------------------------
(***************************************************************************)
(* submit_market_order on its thread.                                      *)
(***************************************************************************)

Accepted == pending' = [pending EXCEPT ![order.symbol] = @ + order.qty]

\* The call raised: retry_with_backoff tries again or lets it through.
Retried ==
    order' = IF order.attempt < Attempts THEN [order EXCEPT !.attempt = @ + 1]
                                         ELSE [order EXCEPT !.step = "done"]

Buy ==
    /\ order.step = "buy"
    /\ Accepted
    /\ order' = [order EXCEPT !.step = "done"]
    /\ UNCHANGED <<held, view, main, ghosts, used>>

BuyFails ==
    /\ order.step = "buy"
    /\ Occurs("fault")
    /\ Retried
    /\ missed' = IF order'.step = "done" THEN missed \union {order.symbol} ELSE missed
    /\ UNCHANGED <<account, view, main, touched, doubled>>

BuyLost ==
    /\ order.step = "buy"
    /\ Occurs("lost")
    /\ Accepted
    /\ Retried
    /\ doubled' = doubled \union {order.symbol}
    /\ UNCHANGED <<held, view, main, touched, missed>>

-----------------------------------------------------------------------------
\* The broker fills an order, wholly or in part.
Fill(s) ==
    /\ \E n \in 1 .. pending[s] :
          /\ held' = [held EXCEPT ![s] = @ + n]
          /\ pending' = [pending EXCEPT ![s] = @ - n]
    /\ UNCHANGED <<view, main, order, ghosts, used>>

Outside(s) ==
    /\ Occurs("outside")
    /\ \E n \in Lots : held' = [held EXCEPT ![s] = n]
    /\ \E n \in 0 .. pending[s] : pending' = [pending EXCEPT ![s] = n]
    /\ touched' = touched \union {s}
    /\ UNCHANGED <<view, main, order, doubled, missed>>

Crash ==
    /\ main.pc \notin {"down", "failed"}
    /\ Occurs("crash")
    /\ main' = At("down")
    /\ order' = NoOrder
    /\ UNCHANGED <<account, view, ghosts>>

Main == CoverReturned \/ Slept

Thread == Buy \/ BuyFails \/ BuyLost

Next ==
    \/ Launch
    \/ Main
    \/ Poll
    \/ Thread
    \/ \E s \in Symbols : Fill(s) \/ Outside(s)
    \/ Crash

Spec == Init /\ [][Next]_vars

-----------------------------------------------------------------------------
(***************************************************************************)
(* Properties                                                              *)
(***************************************************************************)

TypeOK ==
    /\ held \in [Symbols -> Int]
    /\ pending \in [Symbols -> Nat]
    /\ view \in [Symbols -> Int]
    /\ main \in [pc : Phases, todo : SUBSET Symbols]
    /\ order \in [step : {"none", "buy", "done"}, symbol : Symbols \union {"none"},
                  qty : Nat, attempt : 0 .. Attempts]
    /\ touched \subseteq Symbols
    /\ doubled \subseteq Symbols
    /\ missed \subseteq Symbols
    /\ used \in [Events -> Nat]

Untouched == Symbols \ (touched \union doubled)

\* The loop over the list made from the first poll only fails to find one of its
\* symbols, and with it the start of the process, when someone else has closed
\* it, an order that an earlier process left behind included.
MonitorInv ==
    /\ TypeOK
    /\ main.pc = "failed" => touched \union doubled # {}
    /\ main.pc = "covering" <=> order.step # "none"
    /\ order.step # "none" => order.symbol \in Symbols \ main.todo

\* Buying back never makes the account long: an order is for no more than the
\* short, whatever is filled meanwhile, unless its reply was lost, an earlier
\* process ordered as well, or someone else acted.
CoverOnce ==
    \A s \in Untouched : pending[s] > 0 => held[s] + pending[s] <= 0

\* What start-up keeps from its first poll to the engine's start: it buys no more
\* than the shorts, and dies only of what others did.
StartupInv == MonitorInv /\ CoverOnce

\* When the engine starts every inherited short has been bought back or has an
\* order that will, unless a call failed or someone else acted.
StartedCovered ==
    main.pc = "started" =>
        \A s \in Symbols \ (touched \union missed) : held[s] + pending[s] >= 0

=============================================================================
