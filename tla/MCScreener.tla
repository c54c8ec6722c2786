----------------------------- MODULE MCScreener -----------------------------
(***************************************************************************)
(* Small instances of Screener for TLC.                                    *)
(***************************************************************************)
EXTENDS Screener

\* Good bars, and bars that two of the filters refuse.
GoodOrBad == {{}, {"price", "volatility"}}

=============================================================================
