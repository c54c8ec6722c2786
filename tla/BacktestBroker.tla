--------------------------- MODULE BacktestBroker ---------------------------
(***************************************************************************)
(* BacktestBroker, the account of the replay: operators that map one state *)
(* of the account to the next.                                             *)
(*                                                                         *)
(* Prices are whole dollars and slippage is one Unit-th of the price, so a *)
(* share bought at p costs p * (Unit + 1) units and brings p * (Unit - 1)  *)
(* when sold; all other money is counted in units.                         *)
(***************************************************************************)
EXTENDS Integers, Sequences, SequencesExt

CONSTANT Unit              \* 1 / slippage_pct

(***************************************************************************)
(* An account is a record                                                  *)
(*   cash      _cash                                                       *)
(*   open      _open_positions in the dict's order, each a record          *)
(*   realized  the sum of pnl over _trade_history                          *)
(*   lost      ghost: the cost of shares that left the dict unsold         *)
(***************************************************************************)
Account(dollars) == [cash |-> dollars * Unit, open |-> <<>>, realized |-> 0, lost |-> 0]

BuyFill(price)  == price * (Unit + 1)
SellFill(price) == price * (Unit - 1)

Cost(p) == BuyFill(p.price) * p.qty

\* Indices of the open positions of a symbol, and of a symbol and layer.
Of(account, s) == {i \in DOMAIN account.open : account.open[i].symbol = s}

At(account, s, l) == {i \in Of(account, s) : account.open[i].layer = l}

First(I) == CHOOSE i \in I : \A j \in I : i <= j

Unaffordable(account, p) == Cost(p) > account.cash

\* submit_buy: the dict entry of the symbol and layer is written, whether or not
\* there is one.
SubmitBuy(account, p) ==
    IF p.qty <= 0 \/ Unaffordable(account, p) THEN account
    ELSE LET old == At(account, p.symbol, p.layer) IN
         [account EXCEPT
            !.cash = @ - Cost(p),
            !.open = IF old = {} THEN Append(@, p) ELSE [@ EXCEPT ![First(old)] = p]]

\* Definitions whose name ends in an underscore are deliberately wrong variants
\* of the definition that follows them, used to test the properties.

Pnl_(p, sold, price) == (SellFill(price) - p.price * Unit) * sold

Pnl(p, sold, price) == (SellFill(price) - BuyFill(p.price)) * sold

\* submit_sell: sells shares of the first position of the symbol, whichever
\* layer's exit it is, and deletes that position.
SubmitSell(account, s, qty, price) ==
    IF Of(account, s) = {} THEN account
    ELSE LET i    == First(Of(account, s))
             p    == account.open[i]
             sold == IF qty <= p.qty THEN qty ELSE p.qty
         IN [cash     |-> account.cash + SellFill(price) * sold,
             open     |-> RemoveAt(account.open, i),
             realized |-> account.realized + Pnl(p, sold, price),
             lost     |-> account.lost + BuyFill(p.price) * (p.qty - sold)]

\* update_prices.
UpdatePrices(account, s, price) ==
    [account EXCEPT !.open =
        [i \in DOMAIN @ |-> IF @[i].symbol = s THEN [@[i] EXCEPT !.current = price]
                                               ELSE @[i]]]

ForceCloseAll_(account, prices) ==
    IF account.open = <<>> THEN account
    ELSE LET p == Head(account.open) IN SubmitSell(account, p.symbol, p.qty, prices[p.symbol])

\* force_close_all at the latest price of each symbol.  The keys are read before
\* the first sale; a key is skipped when its position is gone by its turn.
ForceCloseAll(account, prices) ==
    LET close(acc, p) ==
            IF At(acc, p.symbol, p.layer) = {} THEN acc
            ELSE SubmitSell(acc, p.symbol, p.qty, prices[p.symbol])
    IN FoldLeft(close, account, account.open)

\* equity: cash and the market value of what is open.
Equity(account) ==
    account.cash + FoldLeft(LAMBDA sum, p : sum + p.current * p.qty * Unit, 0, account.open)

Invested(account) == FoldLeft(LAMBDA sum, p : sum + Cost(p), 0, account.open)

=============================================================================
