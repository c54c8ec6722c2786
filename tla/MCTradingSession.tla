-------------------------- MODULE MCTradingSession --------------------------
(***************************************************************************)
(* Small instances of TradingSession for TLC: a bar stands for many, so the*)
(* numbers of bars the layers wait for are one or two.  L3 looks at every  *)
(* second bar.                                                             *)
(***************************************************************************)
EXTENDS TradingSession

FewBars      == [l \in {"L1", "L2", "L3"} |-> IF l = "L3" THEN 1 ELSE 2]
EarlyForL3   == [l \in {"L1", "L3"} |-> IF l = "L3" THEN 1 ELSE 0]
TwoBarsForL1 == [l \in Layers |-> IF l = "L1" THEN 2 ELSE 1]

=============================================================================
