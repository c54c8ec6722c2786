-------------------------- MODULE MCAccountMonitor --------------------------
(***************************************************************************)
(* A small instance of AccountMonitor for TLC.                             *)
(***************************************************************************)
EXTENDS AccountMonitor

\* A short that may be filled in parts, none, and a long position.
SmallLots == {-2, 0, 1}

OneOfEach == [e \in Events |-> 1]

=============================================================================
