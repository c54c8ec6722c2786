------------------------------ MODULE MCReplay ------------------------------
(***************************************************************************)
(* Small instances of Replay for TLC.                                      *)
(***************************************************************************)
EXTENDS Replay

TwoLayers == <<"L1", "L2">>

\* 13:30, 14:00, 19:30 and 19:31 UTC: in summer the open, the end of the opening
\* range, the close and the minute after it.
DayMinutes == {810, 840, 1170, 1171}

Symmetry == Permutations(Symbols)

=============================================================================
