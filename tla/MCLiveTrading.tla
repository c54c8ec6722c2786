--------------------------- MODULE MCLiveTrading ----------------------------
(***************************************************************************)
(* Small instances of LiveTrading for TLC.  The budgets give how often each*)
(* environment event may occur in a run.                                   *)
(***************************************************************************)
EXTENDS LiveTrading

NoShares == [s \in Symbols |-> 0]
OneShare == [s \in Symbols |-> 1]

\* No event but the ones given.
Budget(fault, lost, stopFill, breach, reset, crash) ==
    [e \in Events |-> CASE e = "fault" -> fault
                        [] e = "lost" -> lost
                        [] e = "stopFill" -> stopFill
                        [] e = "breach" -> breach
                        [] e = "reset" -> reset
                        [] e = "crash" -> crash]

Calm      == Budget(0, 0, 0, 0, 0, 0)
Faulty    == Budget(1, 1, 1, 0, 0, 0)
Crashing  == Budget(1, 0, 0, 1, 1, 1)
OneBreach == Budget(0, 0, 0, 1, 0, 0)

=============================================================================
