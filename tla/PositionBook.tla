---------------------------- MODULE PositionBook ----------------------------
(***************************************************************************)
(* What the live engine promises about its book of open positions,         *)
(* independently of how orders, tasks and threads get there: a symbol is   *)
(* held by at most one strategy layer, at most MaxPositions symbols are    *)
(* held, positions appear and disappear one at a time, and a restart of    *)
(* the process forgets all of them at once.                                *)
(***************************************************************************)
EXTENDS Naturals, FiniteSets

CONSTANTS Symbols,       \* the universe of ticker symbols
          Layers,        \* the strategy layers
          MaxPositions   \* the most symbols held at once

VARIABLE book            \* set of <<symbol, layer>> pairs

HeldSymbols == {k[1] : k \in book}

Init == book = {}

\* A layer takes a symbol nobody holds, while there is room for one more.
Open(s, l) ==
    /\ s \notin HeldSymbols
    /\ Cardinality(HeldSymbols) < MaxPositions
    /\ book' = book \union {<<s, l>>}

Close(k) ==
    /\ k \in book
    /\ book' = book \ {k}

Forget == book' = {}

Next ==
    \/ \E s \in Symbols, l \in Layers : Open(s, l)
    \/ \E k \in book : Close(k)
    \/ Forget

Spec == Init /\ [][Next]_book

=============================================================================
