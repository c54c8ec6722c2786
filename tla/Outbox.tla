------------------------------- MODULE Outbox --------------------------------
(***************************************************************************)
(* What the notification queue promises: calls are logged, the logged ones *)
(* are settled one by one in the order of the log, as sent or as failed,   *)
(* and at most Bound of them are unsettled.  Settling may stop for ever.   *)
(***************************************************************************)
EXTENDS Naturals, Sequences

CONSTANTS Ids,          \* names of calls
          Bound         \* the most calls logged and not settled

VARIABLES log,          \* the accepted calls
          outcomes      \* what became of the first of them

Init == log = <<>> /\ outcomes = <<>>

Accept(id) ==
    /\ Len(log) < Len(outcomes) + Bound
    /\ log' = Append(log, id)
    /\ UNCHANGED outcomes

SettleNext(result) ==
    /\ Len(outcomes) < Len(log)
    /\ outcomes' = Append(outcomes, [id |-> log[Len(outcomes) + 1], result |-> result])
    /\ UNCHANGED log

Next ==
    \/ \E id \in Ids : Accept(id)
    \/ \E result \in {"sent", "failed"} : SettleNext(result)

Spec == Init /\ [][Next]_<<log, outcomes>>

=============================================================================
