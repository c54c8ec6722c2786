--------------------------- MODULE PositionSizer ----------------------------
(***************************************************************************)
(* PositionSizer.compute_shares: how many shares an entry buys.  Prices    *)
(* are whole dollars; equity and buying power are counted in 1/Unit of a   *)
(* dollar.  The result is the floor the code takes with int().             *)
(***************************************************************************)
EXTENDS Integers

CONSTANTS Unit,            \* units of money in a dollar
          DollarRisk,      \* dollar_risk_per_trade
          MaxPct,          \* max_position_pct, in percent
          MaxValue,        \* max_position_value, in dollars
          SizerMax         \* PositionSizer(max_positions)

Least(x, y) == IF x <= y THEN x ELSE y

Distance(x, y) == IF x <= y THEN y - x ELSE x - y

\* The three caps on the size of an entry, in shares.
ByRisk(price, stop) == DollarRisk \div Distance(price, stop)

ByValue(price, equity) ==
    Least(equity * MaxPct, MaxValue * 100 * Unit) \div (price * 100 * Unit)

ByPower(price, power) == power \div (price * Unit)

\* stop = 0 stands for a signal without a stop; scalar is the regime's, in percent.
ComputeShares(price, stop, equity, power, count, scalar) ==
    IF count >= SizerMax \/ stop = 0 \/ Distance(price, stop) = 0 THEN 0
    ELSE LET scaled == (Least(ByRisk(price, stop), ByValue(price, equity)) * scalar)
                           \div 100
         IN IF scaled < 1 THEN 0 ELSE Least(scaled, ByPower(price, power))

=============================================================================
