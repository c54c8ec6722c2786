--------------------------- MODULE MCSupervision ----------------------------
(***************************************************************************)
(* Small instances of Supervision for TLC.                                 *)
(***************************************************************************)
EXTENDS Supervision

Budget(fault, stop, reset, crash) ==
    [e \in Events |-> CASE e = "fault" -> fault
                        [] e = "stop"  -> stop
                        [] e = "reset" -> reset
                        [] e = "crash" -> crash]

OneOfEach == Budget(1, 1, 1, 1)

=============================================================================
