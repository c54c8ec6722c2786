------------------------- MODULE LiveTradingProofs --------------------------
(***************************************************************************)
(* Proofs about LiveTrading, for every value of its constants.             *)
(***************************************************************************)
EXTENDS LiveTrading, FiniteSetTheorems, TLAPS

-----------------------------------------------------------------------------
\* Type correctness

\* The values a task starts from are of their types.
LEMMA EmptyValuesTyped ==
    /\ NoCall \in Call
    /\ IdleBar \in BarState
    /\ IdleEod \in EodState
    /\ AnySymbol \in Symbols
    /\ AnyLayer \in Layers
  <1>1. AnySymbol \in Symbols /\ AnyLayer \in Layers
    BY LiveAssumption DEF AnySymbol, AnyLayer, LiveAssumption
  <1>2. 1 \in 1 .. MaxAttempts
    BY LiveAssumption DEF LiveAssumption
  <1>3. NoCall \in Call
    BY <1>1, <1>2 DEF NoCall, Call, CallSteps
  <1>4. IdleBar \in BarState
    BY <1>1 DEF IdleBar, BarState, BarPcs
  <1>5. IdleEod \in EodState
    BY DEF IdleEod, EodState, EodPcs
  <1> QED BY <1>1, <1>3, <1>4, <1>5

\* An answer to a call, a retry of it and a new call are calls.
LEMMA CallsTyped ==
    ASSUME call \in [Tasks -> Call], NEW t \in Tasks
    PROVE  /\ \A s \in CallSteps : Step(t, s) => call' \in [Tasks -> Call]
           /\ Retry(t) => call' \in [Tasks -> Call]
           /\ \A p \in Position : StartExit(t, p) => call' \in [Tasks -> Call]
           /\ \A s \in Symbols : StartEntry(s) => call' \in [Tasks -> Call]
  <1>1. ASSUME NEW s \in CallSteps, Step(t, s) PROVE call' \in [Tasks -> Call]
    BY <1>1 DEF Step, Call
  <1>2. ASSUME Retry(t) PROVE call' \in [Tasks -> Call]
    <2>1. MaxAttempts \in Nat /\ call[t].attempt \in 1 .. MaxAttempts
      BY LiveAssumption DEF LiveAssumption, Call
    <2>2. CASE call[t].attempt < MaxAttempts
      <3>1. call[t].attempt + 1 \in 1 .. MaxAttempts
        BY <2>1, <2>2
      <3> QED BY <1>2, <2>2, <3>1 DEF Retry, Call
    <2>3. CASE ~(call[t].attempt < MaxAttempts)
      BY <1>2, <2>3 DEF Retry, Step, Call, CallSteps
    <2> QED BY <2>2, <2>3
  <1>3. ASSUME NEW p \in Position, StartExit(t, p) PROVE call' \in [Tasks -> Call]
    <2>1. 1 \in 1 .. MaxAttempts
      BY LiveAssumption DEF LiveAssumption
    <2> QED BY <1>3, <2>1
            DEF StartExit, Position, Call, CallSteps, ExitSteps, IsDayTrade
  <1>4. ASSUME NEW s \in Symbols, StartEntry(s) PROVE call' \in [Tasks -> Call]
    <2>1. [NoCall EXCEPT !.step = IF DryRun THEN "save" ELSE "buy",
                         !.symbol = s, !.qty = 1] \in Call
      BY <1>4, EmptyValuesTyped DEF Call, CallSteps, EntrySteps
    <2> QED BY <1>4, <2>1 DEF StartEntry, Tasks
  <1> QED BY <1>1, <1>2, <1>3, <1>4

\* Counting an environment event keeps the counters typed.
LEMMA UsedTyped ==
    ASSUME used \in [Events -> Nat], NEW e \in Events, Occurs(e)
    PROVE  used' \in [Events -> Nat]
  BY DEF Occurs

\* TypeOK is inductive: one step per action.
LEMMA TypeStep == TypeOK /\ [Next]_vars => TypeOK'
  <1> SUFFICES ASSUME TypeOK, [Next]_vars PROVE TypeOK'
    OBVIOUS
  <1> USE DEF TypeOK
  <1>u. \A e \in Events : Occurs(e) => used' \in [Events -> Nat]
    BY UsedTyped
  <1>b. /\ "bar" \in Tasks /\ "eod" \in Tasks
        /\ {"true", "false", "recordExit", "sell", "protect", "save"} \subseteq CallSteps
        /\ Events = {"fault", "lost", "stopFill", "breach", "reset", "crash"}
    BY DEF Tasks, CallSteps, ExitSteps, EntrySteps, Events
  <1>1. ASSUME NEW p \in bar.todo, StopSkipped(p) PROVE TypeOK'
    BY <1>1, <1>u, <1>b
       DEF StopSkipped, book, db, broker, clock, ghost, BarState, BarPcs, BarOnLoopPcs
  <1>2. ASSUME NEW p \in bar.todo, StopHit(p) PROVE TypeOK'
    BY <1>2, <1>u, <1>b, CallsTyped
       DEF StopHit, book, db, broker, clock, ghost, BarState, BarPcs, BarOnLoopPcs,
           Position
  <1>3. ASSUME NEW g \in bar.signals, SignalDropped(g) PROVE TypeOK'
    BY <1>3, <1>u, <1>b
       DEF SignalDropped, EntryGuards, book, db, broker, clock, ghost, BarState, BarPcs, BarOnLoopPcs
  <1>4. ASSUME NEW g \in bar.signals, BuyAccepted(g) PROVE TypeOK'
    BY <1>4, <1>u, <1>b
       DEF BuyAccepted, EntryGuards, book, db, broker, clock, ghost, BarState, BarPcs, BarOnLoopPcs,
           Signal
  <1>5. ASSUME NEW g \in bar.signals, ExitAccepted(g) PROVE TypeOK'
    BY <1>5, <1>u, <1>b, CallsTyped
       DEF ExitAccepted, book, db, broker, clock, ghost, BarState, BarPcs,
           BarOnLoopPcs, Signal
  <1>6. CASE Dispatch
    <2>1. bar' \in BarState
      <3>1. CASE bar' = IdleBar
        BY <3>1, EmptyValuesTyped
      <3>2. CASE \E S \in SUBSET Signal :
                    bar' = [bar EXCEPT !.pc = "signals", !.signals = S]
        BY <3>2 DEF BarState, BarPcs, BarOnLoopPcs
      <3> QED BY <1>6, <3>1, <3>2, ZenonT(30) DEF Dispatch, BreakerActive
    <2> QED BY <1>6, <2>1, ZenonT(30) DEF Dispatch, BreakerActive, book, db, broker, clock, ghost
  <1>7. CASE AccountReturned
    BY <1>7, <1>u, <1>b, CallsTyped
       DEF AccountReturned, book, db, broker, clock, ghost, BarState, BarPcs,
           BarOnLoopPcs
  <1>8. CASE EntryReturned
    <2>1. call' \in [Tasks -> Call]
      BY <1>8, <1>b, EmptyValuesTyped DEF EntryReturned, AddPosition
    <2>2. bar' \in BarState
      BY <1>8 DEF EntryReturned, AddPosition, BarState, BarPcs, BarOnLoopPcs
    <2>3. [symbol |-> bar.symbol, layer |-> bar.layer,
           trade |-> call["bar"].trade, day |-> day] \in Position
      BY <1>b DEF Position, Call, BarState
    <2>4. openPositions' \subseteq Position /\ openOrders' \subseteq Symbols
      BY <1>8, <2>3 DEF EntryReturned, AddPosition, BarState, book
    <2> QED BY <1>8, <2>1, <2>2, <2>4 DEF EntryReturned, AddPosition, book, db, broker, clock, ghost
  <1>9. CASE ExitReturned
    BY <1>9, <1>u, <1>b, EmptyValuesTyped
       DEF ExitReturned, RemovePosition, book, db, broker, clock, ghost, BarState, BarPcs, BarOnLoopPcs
  <1>10. CASE SignalsDone
    BY <1>10, <1>u, <1>b
       DEF SignalsDone, book, db, broker, clock, ghost, BarState, BarPcs, BarOnLoopPcs
  <1>11. CASE EquityReturned
    BY <1>11, <1>u, <1>b, EmptyValuesTyped
       DEF EquityReturned, book, db, broker, clock, ghost, BarState, BarPcs,
           BarOnLoopPcs
  <1>12. CASE CancelAll
    <2>1. bar' \in BarState
      BY <1>12 DEF CancelAll, BarState, BarPcs, BarOnLoopPcs
    <2>2. /\ stops' \in [Symbols -> Nat]
      BY <1>12 DEF CancelAll, broker
    <2>3. used' \in [Events -> Nat]
      BY <1>12, <1>u, <1>b DEF CancelAll
    <2> QED BY <1>12, <2>1, <2>2, <2>3 DEF CancelAll, book, db, broker, clock, ghost
  <1>13. CASE Liquidate
    <2>1. bar' \in BarState
      BY <1>13 DEF Liquidate, BarState, BarPcs, BarOnLoopPcs
    <2>2. /\ stops' \in [Symbols -> Nat]
          /\ held' \in [Symbols -> Int]
          /\ moved' \subseteq Symbols
      BY <1>13 DEF Liquidate, broker
    <2>3. used' \in [Events -> Nat]
      BY <1>13, <1>u, <1>b DEF Liquidate
    <2> QED BY <1>13, <2>1, <2>2, <2>3 DEF Liquidate, book, db, broker, clock, ghost
  <1>14. CASE CloseTrades
    BY <1>14, <1>u, <1>b
       DEF CloseTrades, book, db, broker, clock, ghost, BarState, BarPcs, BarOnLoopPcs
  <1>15. CASE SetFlag
    BY <1>15, <1>u, <1>b, EmptyValuesTyped DEF SetFlag, book, db, broker, clock, ghost
  <1>16. ASSUME NEW t \in Tasks, ReadPositions(t) PROVE TypeOK'
    <2>1. call' \in [Tasks -> Call]
      <3>1. CASE Step(t, "false")
        BY <3>1, <1>b, CallsTyped
      <3>2. CASE call' = [call EXCEPT ![t].step = "cancel",
                             ![t].qty = IF held[call[t].symbol] > 0
                                        THEN held[call[t].symbol] ELSE 1]
        <4>1. "cancel" \in CallSteps
          BY DEF CallSteps, ExitSteps
        <4>2. call[t].symbol \in Symbols
          BY DEF Call
        <4>3. (IF held[call[t].symbol] > 0 THEN held[call[t].symbol] ELSE 1) \in Nat
          BY <4>2
        <4> QED BY <3>2, <4>1, <4>3, ZenonT(30) DEF Call
      <3> QED BY <1>16, <3>1, <3>2 DEF ReadPositions
    <2>2. used' \in [Events -> Nat]
      BY <1>16, <1>u, <1>b DEF ReadPositions
    <2> QED BY <1>16, <2>1, <2>2 DEF ReadPositions, book, db, broker, clock, ghost
  <1>17. ASSUME NEW t \in Tasks, CancelOrders(t) PROVE TypeOK'
    <2>1. /\ call[t].symbol \in Symbols
          /\ call[t].trade \in Nat
          /\ call[t].qty \in Nat
      BY DEF Call
    <2>2. call' \in [Tasks -> Call]
      BY <1>17, <1>b, CallsTyped DEF CancelOrders
    <2>3. used' \in [Events -> Nat]
      BY <1>17, <1>u, <1>b DEF CancelOrders
    <2>4. stops' \in [Symbols -> Nat]
      <3>1. CASE stops' = [stops EXCEPT ![call[t].symbol] = 0]
        BY <2>1, <3>1
      <3> QED BY <1>17, <3>1 DEF CancelOrders
    <2> QED BY <1>17, <2>2, <2>3, <2>4 DEF CancelOrders, book, db, broker, clock, ghost
  <1>18. ASSUME NEW t \in Tasks, SellOrder(t) PROVE TypeOK'
    <2>1. /\ call[t].symbol \in Symbols
          /\ call[t].trade \in Nat
          /\ call[t].qty \in Nat
      BY DEF Call
    <2>2. call' \in [Tasks -> Call]
      BY <1>18, <1>b, CallsTyped DEF SellOrder
    <2>3. used' \in [Events -> Nat]
      BY <1>18, <1>u, <1>b DEF SellOrder
    <2>4. held' \in [Symbols -> Int] /\ moved' \subseteq Symbols
      BY <1>18, <2>1 DEF SellOrder
    <2> QED BY <1>18, <2>2, <2>3, <2>4 DEF SellOrder, book, db, broker, clock, ghost
  <1>19. ASSUME NEW t \in Tasks, RecordExit(t) PROVE TypeOK'
    <2>1. /\ call[t].symbol \in Symbols
          /\ call[t].trade \in Nat
          /\ call[t].qty \in Nat
      BY DEF Call
    <2>2. call' \in [Tasks -> Call]
      BY <1>19, <1>b, CallsTyped DEF RecordExit, RowNotClosed
    <2>3. used' \in [Events -> Nat]
      BY <1>19, <1>u, <1>b DEF RecordExit, RowNotClosed
    <2>4. /\ dbOpen' \subseteq Nat
          /\ dayTrades' \in Seq(Nat)
          /\ moved' \subseteq Symbols
      <3>1. dbOpen' \subseteq Nat /\ moved' \subseteq Symbols
        BY <1>19, <2>1 DEF RecordExit, RowNotClosed
      <3>2. Append(dayTrades, day) \in Seq(Nat)
        OBVIOUS
      <3>3. dayTrades' \in {dayTrades, Append(dayTrades, day)}
        BY <1>19 DEF RecordExit, RowNotClosed
      <3> QED BY <3>1, <3>2, <3>3
    <2> QED BY <1>19, <2>2, <2>3, <2>4 DEF RecordExit, RowNotClosed, book, db, broker, clock, ghost
  <1>20. ASSUME NEW t \in Tasks, BuyOrder(t) PROVE TypeOK'
    <2>1. /\ call[t].symbol \in Symbols
          /\ call[t].trade \in Nat
          /\ call[t].qty \in Nat
      BY DEF Call
    <2>2. call' \in [Tasks -> Call]
      BY <1>20, <1>b, CallsTyped DEF BuyOrder
    <2>3. used' \in [Events -> Nat]
      BY <1>20, <1>u, <1>b DEF BuyOrder
    <2>4. held' \in [Symbols -> Int]
      BY <1>20, <2>1 DEF BuyOrder
    <2> QED BY <1>20, <2>2, <2>3, <2>4 DEF BuyOrder, book, db, broker, clock, ghost
  <1>21. ASSUME NEW t \in Tasks, ProtectEntry(t) PROVE TypeOK'
    <2>1. /\ call[t].symbol \in Symbols
          /\ call[t].trade \in Nat
          /\ call[t].qty \in Nat
      BY DEF Call
    <2>2. call' \in [Tasks -> Call]
      BY <1>21, <1>b, CallsTyped DEF ProtectEntry
    <2>3. used' \in [Events -> Nat]
      BY <1>21, <1>u, <1>b DEF ProtectEntry
    <2>4. stops' \in [Symbols -> Nat]
      <3>1. CASE stops' = [stops EXCEPT ![call[t].symbol] = @ + 1]
        BY <2>1, <3>1
      <3> QED BY <1>21, <3>1 DEF ProtectEntry
    <2> QED BY <1>21, <2>2, <2>3, <2>4 DEF ProtectEntry, book, db, broker, clock, ghost
  <1>22. ASSUME NEW t \in Tasks, SaveTrade(t) PROVE TypeOK'
    <2>1. call' \in [Tasks -> Call]
      <3>1. CASE Step(t, "false")
        BY <3>1, <1>b, CallsTyped
      <3>2. CASE call' = [call EXCEPT ![t].step = "true", ![t].trade = nextTrade]
        BY <3>2, <1>b, ZenonT(30) DEF Call
      <3> QED BY <1>22, <3>1, <3>2 DEF SaveTrade
    <2>2. used' \in [Events -> Nat]
      BY <1>22, <1>u, <1>b DEF SaveTrade
    <2>3. dbOpen' \subseteq Nat /\ nextTrade' \in Nat
      BY <1>22 DEF SaveTrade
    <2> QED BY <1>22, <2>1, <2>2, <2>3 DEF SaveTrade, book, db, broker, clock, ghost
  <1>23. ASSUME NEW p \in eod.todo, EodSells(p) PROVE TypeOK'
    BY <1>23, <1>u, <1>b, CallsTyped
       DEF EodSells, book, db, broker, clock, ghost, EodState, EodPcs, Position
  <1>24. ASSUME NEW p \in eod.todo, EodKeeps(p) PROVE TypeOK'
    BY <1>24, <1>u, <1>b
       DEF EodKeeps, book, db, broker, clock, ghost, EodState, EodPcs, Position
  <1>25. CASE EodExitReturned
    <2>1. call' \in [Tasks -> Call]
      BY <1>25, <1>b, EmptyValuesTyped DEF EodExitReturned
    <2>2. eod' \in EodState
      <3>1. eod.kept \subseteq Nat /\ eod.trade \in Nat
        BY DEF EodState
      <3>2. CASE eod' = [eod EXCEPT !.pc = "sweep"]
        BY <3>2 DEF EodState, EodPcs
      <3>3. CASE eod' = [eod EXCEPT !.pc = "sweep", !.kept = @ \union {eod.trade}]
        <4>1. eod.kept \union {eod.trade} \in SUBSET Nat
          BY <3>1
        <4> QED BY <3>3, <4>1 DEF EodState, EodPcs
      <3> QED BY <1>25, <3>2, <3>3 DEF EodExitReturned
    <2> QED BY <1>25, <2>1, <2>2 DEF EodExitReturned, book, db, broker, clock, ghost
  <1>26. CASE EodSweepDone
    BY <1>26, <1>u, <1>b
       DEF EodSweepDone, book, db, broker, clock, ghost, EodState, EodPcs
  <1>27. CASE EodCancels
    <2>1. eod' \in EodState
      BY <1>27 DEF EodCancels, EodState, EodPcs
    <2>2. /\ stops' \in [Symbols -> Nat]
      BY <1>27 DEF EodCancels, broker
    <2>3. used' \in [Events -> Nat]
      BY <1>27, <1>u, <1>b DEF EodCancels
    <2> QED BY <1>27, <2>1, <2>2, <2>3 DEF EodCancels, book, db, broker, clock, ghost
  <1>28. ASSUME NEW s \in Symbols, BarArrives(s) PROVE TypeOK'
    BY <1>28, <1>u, <1>b, EmptyValuesTyped, ZenonT(30)
       DEF BarArrives, book, db, broker, clock, ghost, BarState, BarPcs, BarOnLoopPcs
  <1>29. ASSUME NEW s \in Symbols, StopFills(s) PROVE TypeOK'
    <2>1. held' \in [Symbols -> Int] /\ stops' \in [Symbols -> Nat]
      BY <1>29 DEF StopFills
    <2>2. used' \in [Events -> Nat]
      BY <1>29, <1>u, <1>b DEF StopFills
    <2> QED BY <1>29, <2>1, <2>2 DEF StopFills, book, db, clock
  <1>30. CASE EodStarts
    BY <1>30, <1>u, <1>b, EmptyValuesTyped
       DEF EodStarts, EodDue, book, db, broker, clock, ghost, EodState, EodPcs
  <1>31. CASE TurnsLate
    BY <1>31, <1>u, <1>b DEF TurnsLate, book, db, broker, clock, ghost
  <1>31a. CASE HoursEnd
    BY <1>31a, <1>u, <1>b DEF HoursEnd, book, db, broker, clock, ghost
  <1>32. CASE NextSession
    <2>1. stops' \in [Symbols -> Nat]
      BY <1>32 DEF NextSession
    <2>2. eod' \in EodState
      BY <1>32, EmptyValuesTyped DEF NextSession
    <2>3. day' = day + 1 /\ day' \in Nat
      BY <1>32 DEF NextSession
    <2>4. hours' \in {"trading", "late", "after"}
      BY <1>32 DEF NextSession
    <2> QED BY <1>32, <2>1, <2>2, <2>3, <2>4 DEF NextSession, book, db, ghost
  <1>33. CASE ResetBreaker
    BY <1>33, <1>u, <1>b DEF ResetBreaker, book, db, broker, clock, ghost
  <1>34. CASE Crash
    <2>1. call' \in [Tasks -> Call]
      BY <1>34, EmptyValuesTyped DEF Crash
    <2>2. used' \in [Events -> Nat]
      BY <1>34, <1>u, <1>b DEF Crash
    <2>3. dayTrades' \in Seq(Nat)
      BY <1>34 DEF Crash
    <2> QED BY <1>34, <2>1, <2>2, <2>3, EmptyValuesTyped DEF Crash, book, db, broker, clock, ghost
  <1>35. CASE Startup
    BY <1>35, <1>u, <1>b DEF Startup, BreakerActive, book, db, broker, clock, ghost
  <1>36. CASE UNCHANGED vars
    BY <1>36 DEF vars, book, db, broker, clock, ghost
  <1> QED
    BY <1>1, <1>2, <1>3, <1>4, <1>5, <1>6, <1>7, <1>8, <1>9, <1>10, <1>11,
       <1>12, <1>13, <1>14, <1>15, <1>16, <1>17, <1>18, <1>19, <1>20,
       <1>21, <1>22, <1>23, <1>24, <1>25, <1>26, <1>27, <1>28, <1>29,
       <1>30, <1>31, <1>32, <1>33, <1>34, <1>35, <1>36, <1>31a
       DEF Next, BarStep, Thread, EodStep, Environment

\* The initial state is well typed.
LEMMA InitTyped == ASSUME Init PROVE TypeOK
  <1>1. /\ call \in [Tasks -> Call]
        /\ held \in [Symbols -> Int]
        /\ stops \in [Symbols -> Nat]
        /\ used \in [Events -> Nat]
    BY EmptyValuesTyped, LiveAssumption DEF Init, LiveAssumption
  <1>2. dayTrades \in Seq(Nat)
    BY DEF Init
  <1> QED BY <1>1, <1>2, EmptyValuesTyped DEF Init, TypeOK

\* Every reachable state is well typed.
THEOREM TypeCorrect == Spec => []TypeOK
  <1>1. Init => TypeOK
    BY InitTyped
  <1> QED BY <1>1, TypeStep, PTL DEF Spec

-----------------------------------------------------------------------------
\* What the steps do to the calls

\* An operator on the call of task t leaves the other task's call alone.
LEMMA CallEffects ==
    ASSUME TypeOK, NEW t \in Tasks
    PROVE  /\ \A s \in CallSteps : Step(t, s) =>
                 /\ call'[t].step = s
                 /\ call'[t].symbol = call[t].symbol
                 /\ call'[t].trade = call[t].trade
                 /\ call'[t].qty = call[t].qty
                 /\ \A u \in Tasks \ {t} : call'[u] = call[u]
           /\ Retry(t) =>
                 /\ call'[t].step \in {call[t].step, "false"}
                 /\ call'[t].symbol = call[t].symbol
                 /\ call'[t].trade = call[t].trade
                 /\ call'[t].qty = call[t].qty
                 /\ \A u \in Tasks \ {t} : call'[u] = call[u]
           /\ \A p \in Position : StartExit(t, p) =>
                 /\ call'[t].step = IF DryRun THEN "recordExit" ELSE "positions"
                 /\ call'[t].symbol = p.symbol
                 /\ call'[t].trade = p.trade
                 /\ \A u \in Tasks \ {t} : call'[u] = call[u]
  <1>1. call \in [Tasks -> Call]
    BY DEF TypeOK
  <1>2. ASSUME NEW s \in CallSteps, Step(t, s)
        PROVE  /\ call'[t].step = s
               /\ call'[t].symbol = call[t].symbol
               /\ call'[t].trade = call[t].trade
               /\ call'[t].qty = call[t].qty
               /\ \A u \in Tasks \ {t} : call'[u] = call[u]
    BY <1>1, <1>2 DEF Step, Call
  <1>3. ASSUME Retry(t)
        PROVE  /\ call'[t].step \in {call[t].step, "false"}
               /\ call'[t].symbol = call[t].symbol
               /\ call'[t].trade = call[t].trade
               /\ call'[t].qty = call[t].qty
               /\ \A u \in Tasks \ {t} : call'[u] = call[u]
    <2>1. CASE Step(t, "false")
      BY <1>2, <2>1 DEF CallSteps
    <2>2. CASE call' = [call EXCEPT ![t].attempt = @ + 1]
      BY <1>1, <2>2 DEF Call
    <2> QED BY <1>3, <2>1, <2>2 DEF Retry
  <1>4. ASSUME NEW p \in Position, StartExit(t, p)
        PROVE  /\ call'[t].step = IF DryRun THEN "recordExit" ELSE "positions"
               /\ call'[t].symbol = p.symbol
               /\ call'[t].trade = p.trade
               /\ \A u \in Tasks \ {t} : call'[u] = call[u]
    BY <1>1, <1>4 DEF StartExit
  <1> QED BY <1>2, <1>3, <1>4

\* submit_entry_order starts with the purchase, or with the row in a dry run.
LEMMA EntryEffect ==
    ASSUME TypeOK, NEW s \in Symbols, StartEntry(s)
    PROVE  /\ call'["bar"].step = IF DryRun THEN "save" ELSE "buy"
           /\ call'["bar"].symbol = s
           /\ call'["eod"] = call["eod"]
  <1>1. call \in [Tasks -> Call] /\ "bar" \in Tasks /\ "eod" \in Tasks
    BY DEF TypeOK, Tasks
  <1> QED BY <1>1, EmptyValuesTyped DEF StartEntry, Call, NoCall

\* A thread moves its own call on within submit_exit_order or
\* submit_entry_order, and touches neither the engine nor the other call.
LEMMA ThreadCalls ==
    ASSUME TypeOK, NEW t \in Tasks, Thread(t)
    PROVE  /\ \/ /\ call[t].step \in ExitSteps
                 /\ call'[t].step \in ExitSteps \union Answered
              \/ /\ call[t].step \in EntrySteps
                 /\ call'[t].step \in EntrySteps \union Answered
           /\ call'[t].symbol = call[t].symbol
           /\ call[t].step # "save" => call'[t].trade = call[t].trade
           /\ call[t].step \notin {"positions", "cancel", "sell", "buy", "protect"} =>
                 call'[t].step \notin {"positions", "cancel", "sell", "buy", "protect"}
           /\ \A u \in Tasks \ {t} : call'[u] = call[u]
           /\ UNCHANGED <<book, bar, eod, halted, clock, up, firstTrade>>
  <1> USE CallEffects
  <1>1. /\ call \in [Tasks -> Call]
        /\ {"true", "false", "recordExit", "sell", "protect", "save"} \subseteq CallSteps
    BY DEF TypeOK, CallSteps, ExitSteps, EntrySteps
  <1>2. CASE ReadPositions(t)
    BY <1>1, <1>2 DEF ReadPositions, Call, ExitSteps, Answered, db, broker, ghost
  <1>3. CASE CancelOrders(t)
    BY <1>1, <1>3 DEF CancelOrders, ExitSteps, db, broker, ghost
  <1>4. CASE SellOrder(t)
    BY <1>1, <1>4 DEF SellOrder, ExitSteps, Answered, db, ghost
  <1>5. CASE RecordExit(t)
    BY <1>1, <1>5 DEF RecordExit, RowNotClosed, ExitSteps, Answered
  <1>6. CASE BuyOrder(t)
    BY <1>1, <1>6 DEF BuyOrder, EntrySteps, Answered, db, ghost
  <1>7. CASE ProtectEntry(t)
    BY <1>1, <1>7 DEF ProtectEntry, EntrySteps, db, ghost
  <1>8. CASE SaveTrade(t)
    BY <1>1, <1>8 DEF SaveTrade, Call, EntrySteps, Answered, ghost
  <1> QED BY <1>2, <1>3, <1>4, <1>5, <1>6, <1>7, <1>8 DEF Thread

\* The end-of-day task touches neither the engine, the database nor the bar
\* task's call.
LEMMA EodFrame ==
    ASSUME TypeOK, EodStep
    PROVE  /\ call'["bar"] = call["bar"]
           /\ UNCHANGED <<book, bar, db, dayTrades, held, clock, up, ghost>>
  <1>1. call \in [Tasks -> Call] /\ "bar" \in Tasks /\ "eod" \in Tasks
    BY DEF TypeOK, Tasks
  <1>2. eod.todo \subseteq Position
    BY DEF TypeOK, EodState
  <1>3. ASSUME NEW p \in eod.todo, EodSells(p)
        PROVE  /\ call'["bar"] = call["bar"]
               /\ UNCHANGED <<book, bar, db, dayTrades, held, clock, up, ghost>>
    BY <1>1, <1>2, <1>3, CallEffects DEF EodSells, broker
  <1>4. ASSUME NEW p \in eod.todo, EodKeeps(p)
        PROVE  /\ call'["bar"] = call["bar"]
               /\ UNCHANGED <<book, bar, db, dayTrades, held, clock, up, ghost>>
    BY <1>4 DEF EodKeeps, broker
  <1>5. CASE EodExitReturned
    BY <1>1, <1>5 DEF EodExitReturned, broker
  <1>6. CASE EodSweepDone
    BY <1>6 DEF EodSweepDone, broker
  <1>7. CASE EodCancels
    BY <1>7 DEF EodCancels
  <1> QED BY <1>3, <1>4, <1>5, <1>6, <1>7 DEF EodStep

\* The steps of the bar handler that neither start, await nor end a call.
BarQuiet ==
    \/ \E p \in bar.todo : StopSkipped(p)
    \/ \E g \in bar.signals : SignalDropped(g) \/ BuyAccepted(g)
    \/ Dispatch
    \/ SignalsDone
    \/ EquityReturned
    \/ CancelAll
    \/ Liquidate
    \/ CloseTrades
    \/ SetFlag

\* They leave the book, both calls and the other task as they are, leave the
\* stop-loss pass with nothing left to do, enter "account" past the engine's
\* guards, raise the breaker only at the end of a bar, and move lots of the
\* symbols they mark only.
QuietStep ==
    /\ bar.pc \in {"stops", "signals", "equity"} \union BarOnLoopPcs
    /\ bar'.pc \in {"idle", "stops", "signals", "account", "equity"} \union BarOnLoopPcs
    /\ bar'.symbol = bar.symbol \/ bar' = IdleBar
    /\ bar'.todo \subseteq bar.todo
    /\ bar'.pc = "stops" => bar.pc = "stops"
    /\ bar.pc = "stops" /\ bar'.pc # "stops" => bar.todo = {}
    /\ bar'.pc = "account" => ~AtMax /\ bar.symbol \notin openOrders
    /\ halted' => halted \/ bar'.pc = "idle"
    /\ halted /\ bar.pc = "stops" => bar'.pc \in {"idle", "stops"}
    /\ dbOpen' \subseteq dbOpen
    /\ moved \subseteq moved'
    /\ \A s \in Symbols \ moved' : held'[s] = held[s]
    /\ UNCHANGED <<book, eod, call, nextTrade, dayTrades, clock, up, firstTrade, orphans>>

LEMMA QuietFrame == ASSUME TypeOK, BarQuiet PROVE QuietStep
  <1> USE DEF TypeOK, BarState, BarOnLoopPcs, QuietStep, db, broker, ghost
  <1>1. ASSUME NEW p \in bar.todo, StopSkipped(p) PROVE QuietStep
    BY <1>1 DEF StopSkipped
  <1>2. ASSUME NEW g \in bar.signals, SignalDropped(g) PROVE QuietStep
    BY <1>2 DEF SignalDropped, EntryGuards
  <1>3. ASSUME NEW g \in bar.signals, BuyAccepted(g) PROVE QuietStep
    <2>1. bar' = [bar EXCEPT !.pc = "account", !.signals = @ \ {g}, !.layer = g.layer]
      BY <1>3 DEF BuyAccepted, EntryGuards
    <2>2. bar'.pc = "account" /\ bar'.symbol = bar.symbol /\ bar'.todo = bar.todo
      BY <2>1
    <2>3. ~AtMax /\ bar.symbol \notin openOrders /\ bar.pc = "signals"
      BY <1>3 DEF BuyAccepted, EntryGuards
    <2> QED BY <1>3, <2>2, <2>3 DEF BuyAccepted, EntryGuards
  <1>4. CASE Dispatch
    <2>1. CASE halted /\ bar' = IdleBar
      BY <1>4, <2>1 DEF Dispatch, BreakerActive, IdleBar
    <2>2. CASE /\ ~halted
               /\ \E S \in SUBSET Signal :
                     bar' = [bar EXCEPT !.pc = "signals", !.signals = S]
      BY <1>4, <2>2, ZenonT(30) DEF Dispatch, BreakerActive
    <2> QED BY <1>4, <2>1, <2>2, ZenonT(30) DEF Dispatch, BreakerActive
  <1>5. CASE SignalsDone
    BY <1>5 DEF SignalsDone
  <1>6. CASE EquityReturned
    <2>1. CASE bar' = IdleBar
      BY <1>6, <2>1 DEF EquityReturned, IdleBar
    <2>2. CASE bar' = [bar EXCEPT !.pc = "cancelAll"]
      BY <1>6, <2>2 DEF EquityReturned
    <2> QED BY <1>6, <2>1, <2>2 DEF EquityReturned
  <1>7. CASE CancelAll
    BY <1>7 DEF CancelAll
  <1>8. CASE Liquidate
    <2>1. \A s \in Symbols \ moved' : held'[s] = held[s]
      BY <1>8 DEF Liquidate
    <2> QED BY <1>8, <2>1 DEF Liquidate
  <1>9. CASE CloseTrades
    BY <1>9 DEF CloseTrades
  <1>10. CASE SetFlag
    BY <1>10 DEF SetFlag, IdleBar
  <1> QED BY <1>1, <1>2, <1>3, <1>4, <1>5, <1>6, <1>7, <1>8, <1>9, <1>10 DEF BarQuiet

\* The environment's steps on a running process.
Outside ==
    \/ \E s \in Symbols : StopFills(s)
    \/ TurnsLate
    \/ HoursEnd
    \/ NextSession
    \/ ResetBreaker

LEMMA OutsideFrame ==
    ASSUME TypeOK, Outside
    PROVE  /\ UNCHANGED <<book, bar, call, dbOpen, nextTrade, up, firstTrade, orphans>>
           /\ eod' = eod \/ (eod' = IdleEod /\ eod.pc \in {"idle", "done"})
           /\ halted' => halted
  BY DEF Outside, StopFills, TurnsLate, HoursEnd, NextSession, ResetBreaker, db, ghost

-----------------------------------------------------------------------------
\* The inductive invariant, conjunct by conjunct

\* Next, grouped by what the steps leave alone.
LEMMA NextCases ==
    ASSUME [Next]_vars
    PROVE  \/ BarQuiet
           \/ \E p \in bar.todo : StopHit(p)
           \/ \E g \in bar.signals : ExitAccepted(g)
           \/ AccountReturned
           \/ EntryReturned
           \/ ExitReturned
           \/ \E t \in Tasks : Thread(t)
           \/ EodStep
           \/ \E s \in Symbols : BarArrives(s)
           \/ EodStarts
           \/ Outside
           \/ Crash
           \/ Startup
           \/ UNCHANGED vars
  BY DEF Next, BarStep, BarQuiet, Environment, Outside

\* The calls in flight match the program counters.
LEMMA CallsStep ==
    TypeOK /\ CallsMatchTasks /\ SnapshotCurrent /\ [Next]_vars => CallsMatchTasks'
  <1> SUFFICES ASSUME TypeOK, CallsMatchTasks, SnapshotCurrent, [Next]_vars
               PROVE  CallsMatchTasks'
    OBVIOUS
  <1>t. /\ bar \in BarState
        /\ eod \in EodState
        /\ call \in [Tasks -> Call]
        /\ "bar" \in Tasks /\ "eod" \in Tasks /\ Tasks = {"bar", "eod"}
    BY DEF TypeOK, Tasks
  <1> USE DEF CallsMatchTasks, BarExiting
  <1>1. CASE BarQuiet
    BY <1>1, <1>t, QuietFrame DEF QuietStep, BarOnLoopPcs, IdleBar
  <1>2. ASSUME NEW p \in bar.todo, StopHit(p) PROVE CallsMatchTasks'
    <2>1. p \in Position /\ p.symbol = bar.symbol
      BY <1>2, <1>t DEF StopHit, BarState, SnapshotCurrent
    <2>2. /\ call'["bar"].step \in ExitSteps
          /\ call'["bar"].symbol = bar.symbol
          /\ DryRun => call'["bar"].step = "recordExit"
          /\ call'["eod"] = call["eod"]
      BY <1>2, <1>t, <2>1, CallEffects DEF StopHit, ExitSteps
    <2>3. bar'.pc = "stopExit" /\ bar'.symbol = bar.symbol /\ bar.pc # "idle"
      BY <1>2, <1>t DEF StopHit, BarState
    <2> QED BY <1>2, <1>t, <2>2, <2>3 DEF StopHit
  <1>3. ASSUME NEW g \in bar.signals, ExitAccepted(g) PROVE CallsMatchTasks'
    <2>1. PICK p \in openPositions : p.symbol = bar.symbol /\ StartExit("bar", p)
      BY <1>3 DEF ExitAccepted
    <2>2. /\ call'["bar"].step \in ExitSteps
          /\ call'["bar"].symbol = bar.symbol
          /\ DryRun => call'["bar"].step = "recordExit"
          /\ call'["eod"] = call["eod"]
      BY <1>t, <2>1, CallEffects DEF TypeOK, ExitSteps
    <2>3. bar'.pc = "signalExit" /\ bar'.symbol = bar.symbol /\ bar.pc # "idle"
      BY <1>3, <1>t DEF ExitAccepted, BarState
    <2> QED BY <1>3, <1>t, <2>2, <2>3 DEF ExitAccepted
  <1>4. CASE AccountReturned
    BY <1>4, <1>t, EntryEffect DEF AccountReturned, BarState, EntrySteps, Answered
  <1>5. CASE EntryReturned
    BY <1>5, <1>t DEF EntryReturned, AddPosition, BarState, NoCall
  <1>6. CASE ExitReturned
    BY <1>6, <1>t DEF ExitReturned, RemovePosition, BarState, NoCall
  <1>7. ASSUME NEW t \in Tasks, Thread(t) PROVE CallsMatchTasks'
    BY <1>7, <1>t, ThreadCalls DEF ExitSteps, EntrySteps, Answered
  <1>8. CASE EodStep
    <2> call'["bar"] = call["bar"] /\ bar' = bar /\ up' = up
      BY <1>8, EodFrame
    <2>1. ASSUME NEW p \in eod.todo, EodSells(p) PROVE CallsMatchTasks'
      <3>1. p \in Position
        BY <1>t DEF EodState
      <3>2. /\ call'["eod"].step \in ExitSteps
            /\ DryRun => call'["eod"].step = "recordExit"
        BY <1>t, <2>1, <3>1, CallEffects DEF EodSells, ExitSteps
      <3>3. eod'.pc = "exit" /\ eod.pc # "idle"
        BY <1>t, <2>1 DEF EodSells, EodState
      <3> QED BY <1>t, <3>2, <3>3
    <2>2. ASSUME NEW p \in eod.todo, EodKeeps(p) PROVE CallsMatchTasks'
      BY <1>t, <2>2 DEF EodKeeps, EodState
    <2>3. CASE EodExitReturned
      <3>1. call'["eod"].step = "none"
        BY <1>t, <2>3 DEF EodExitReturned, NoCall
      <3>2. eod'.pc = "sweep" /\ eod.pc = "exit"
        BY <1>t, <2>3 DEF EodExitReturned, EodState
      <3> QED BY <1>t, <3>1, <3>2
    <2>4. CASE EodSweepDone
      BY <1>t, <2>4 DEF EodSweepDone, EodState
    <2>5. CASE EodCancels
      BY <1>t, <2>5 DEF EodCancels, EodState
    <2> QED BY <1>8, <2>1, <2>2, <2>3, <2>4, <2>5 DEF EodStep
  <1>9. ASSUME NEW s \in Symbols, BarArrives(s) PROVE CallsMatchTasks'
    BY <1>9, <1>t DEF BarArrives, IdleBar
  <1>10. CASE EodStarts
    BY <1>10, <1>t DEF EodStarts, EodDue, IdleEod
  <1>11. CASE Outside
    BY <1>11, <1>t, OutsideFrame DEF IdleEod
  <1>12. CASE Crash
    BY <1>12, <1>t DEF Crash, IdleBar, IdleEod, NoCall
  <1>13. CASE Startup
    BY <1>13, <1>t DEF Startup, BreakerActive
  <1>14. CASE UNCHANGED vars
    BY <1>14 DEF vars
  <1> QED BY <1>1, <1>2, <1>3, <1>4, <1>5, <1>6, <1>7, <1>8, <1>9, <1>10,
             <1>11, <1>12, <1>13, <1>14, NextCases

\* The steps that change the book.
LEMMA BookChanges ==
    ASSUME TypeOK, [Next]_vars
    PROVE  EntryReturned \/ ExitReturned \/ Crash \/ UNCHANGED book
  <1>1. CASE BarQuiet
    BY <1>1, QuietFrame DEF QuietStep
  <1>2. ASSUME NEW t \in Tasks, Thread(t) PROVE UNCHANGED book
    BY <1>2, ThreadCalls
  <1>3. CASE EodStep
    BY <1>3, EodFrame
  <1>4. CASE Outside
    BY <1>4, OutsideFrame
  <1>5. CASE UNCHANGED vars
    BY <1>5 DEF vars
  <1> QED BY <1>1, <1>2, <1>3, <1>4, <1>5, NextCases, ZenonT(30)
          DEF StopHit, ExitAccepted, AccountReturned, BarArrives, EodStarts, EodDue, Startup, BreakerActive

\* Few symbols are in the book: it can be counted.
LEMMA BookCounted ==
    ASSUME TypeOK
    PROVE  /\ SymbolsOf(openPositions) \subseteq Symbols
           /\ IsFiniteSet(SymbolsOf(openPositions))
           /\ Cardinality(SymbolsOf(openPositions)) \in Nat
  <1>1. SymbolsOf(openPositions) \subseteq Symbols
    BY DEF TypeOK, SymbolsOf, Position
  <1>2. IsFiniteSet(SymbolsOf(openPositions))
    BY <1>1, LiveAssumption, FS_Subset DEF LiveAssumption
  <1> QED BY <1>1, <1>2, FS_CardinalityType

\* BookInv: an entry adds a symbol that is not there while there is room; an
\* exit removes all there is of its symbol.
LEMMA BookStep ==
    TypeOK /\ BookInv /\ EntryReserved /\ ExitsTracked /\ [Next]_vars => BookInv'
  <1> SUFFICES ASSUME TypeOK, BookInv, EntryReserved, ExitsTracked, [Next]_vars
               PROVE  BookInv'
    OBVIOUS
  <1> USE DEF BookInv, OrdersMatchPositions, OneLayerPerSymbol, WithinMaxPositions
  <1>1. CASE EntryReturned
    <2>1. CASE Returned("bar", "true")
      <3> DEFINE new == [symbol |-> bar.symbol, layer |-> bar.layer,
                         trade |-> call["bar"].trade, day |-> day]
      <3>1. openPositions' = openPositions \union {new}
        BY <1>1, <2>1 DEF EntryReturned, AddPosition, Returned
      <3>2. openOrders' = openOrders \union {bar.symbol}
        BY <1>1, <2>1 DEF EntryReturned, AddPosition, Returned
      <3>3. bar.symbol \notin openOrders /\ ~AtMax
        BY <1>1 DEF EntryReturned, AddPosition, EntryReserved
      <3>4. new.symbol = bar.symbol
        OBVIOUS
      <3> HIDE DEF new
      <3>5. SymbolsOf(openPositions)' = SymbolsOf(openPositions) \union {bar.symbol}
        BY <3>1, <3>4 DEF SymbolsOf
      <3>6. bar.symbol \notin SymbolsOf(openPositions)
        BY <3>3
      <3>7. OneLayerPerSymbol'
        BY <3>1, <3>4, <3>6 DEF SymbolsOf
      <3>8. Cardinality(SymbolsOf(openPositions))'
              = Cardinality(SymbolsOf(openPositions)) + 1
        BY <3>5, <3>6, BookCounted, FS_AddElement
      <3>9. WithinMaxPositions'
        BY <3>3, <3>8, BookCounted, LiveAssumption DEF AtMax, LiveAssumption
      <3> QED BY <3>2, <3>5, <3>7, <3>9
    <2>2. CASE ~Returned("bar", "true")
      BY <1>1, <2>2 DEF EntryReturned, AddPosition, book, SymbolsOf
    <2> QED BY <2>1, <2>2
  <1>2. CASE ExitReturned
    <2>1. CASE Returned("bar", "true")
      <3>1. openPositions' = {p \in openPositions :
                                ~(p.symbol = bar.symbol /\ p.layer = bar.layer)}
        BY <1>2, <2>1 DEF ExitReturned, RemovePosition, Returned
      <3>2. openOrders' = openOrders \ {bar.symbol}
        BY <1>2, <2>1 DEF ExitReturned, RemovePosition, Returned
      <3>3. \E p \in openPositions : p.symbol = bar.symbol /\ p.layer = bar.layer
        BY <1>2 DEF ExitReturned, RemovePosition, ExitsTracked, BarExiting
      <3>4. \A p \in openPositions :
               p \in openPositions' <=> p.symbol # bar.symbol
        BY <3>1, <3>3
      <3>5. SymbolsOf(openPositions)' = SymbolsOf(openPositions) \ {bar.symbol}
        BY <3>1, <3>4 DEF SymbolsOf
      <3>6. OneLayerPerSymbol'
        BY <3>1
      <3>7. Cardinality(SymbolsOf(openPositions)')
              <= Cardinality(SymbolsOf(openPositions))
        BY <3>5, BookCounted, FS_Subset
      <3>8. Cardinality(SymbolsOf(openPositions)') \in Nat
        BY <3>5, BookCounted, FS_Subset, FS_CardinalityType
      <3>9. WithinMaxPositions'
        BY <3>7, <3>8, BookCounted, LiveAssumption DEF LiveAssumption
      <3> QED BY <3>2, <3>5, <3>6, <3>9
    <2>2. CASE ~Returned("bar", "true")
      BY <1>2, <2>2 DEF ExitReturned, RemovePosition, book, SymbolsOf
    <2> QED BY <2>1, <2>2
  <1>3. CASE Crash
    <2>1. openPositions' = {} /\ openOrders' = {}
      BY <1>3 DEF Crash
    <2>2. SymbolsOf(openPositions)' = {}
      BY <2>1 DEF SymbolsOf
    <2> QED BY <2>1, <2>2, FS_EmptySet, LiveAssumption DEF LiveAssumption
  <1>4. CASE UNCHANGED book
    BY <1>4 DEF book, SymbolsOf
  <1> QED BY <1>1, <1>2, <1>3, <1>4, BookChanges

\* EntryReserved: between the guards and the answer only the bar handler could
\* change the book, and it is waiting.
LEMMA ReservedStep ==
    TypeOK /\ CallsMatchTasks /\ EntryReserved /\ [Next]_vars => EntryReserved'
  <1> SUFFICES ASSUME TypeOK, CallsMatchTasks, EntryReserved, [Next]_vars,
                      bar'.pc \in {"account", "entry"}
               PROVE  ~AtMax' /\ bar'.symbol \notin openOrders'
    BY DEF EntryReserved
  <1>t. bar \in BarState /\ bar.todo \subseteq Position
    BY DEF TypeOK, BarState
  <1> USE DEF EntryReserved, AtMax, SymbolsOf, book
  <1>1. CASE BarQuiet
    BY <1>1, <1>t, QuietFrame DEF QuietStep, BarOnLoopPcs, IdleBar
  <1>2. CASE AccountReturned
    BY <1>2, <1>t DEF AccountReturned, BarState
  <1>3. ASSUME NEW t \in Tasks, Thread(t)
        PROVE  ~AtMax' /\ bar'.symbol \notin openOrders'
    <2>1. UNCHANGED <<openPositions, openOrders, bar>>
      BY <1>3, ThreadCalls
    <2> QED BY <2>1
  <1>4. CASE EodStep
    BY <1>4, EodFrame
  <1>5. CASE Outside
    BY <1>5, OutsideFrame
  <1>6. CASE UNCHANGED vars
    BY <1>6 DEF vars
  <1>7. ASSUME NEW p \in bar.todo, StopHit(p) PROVE FALSE
    BY <1>7, <1>t DEF StopHit, BarState
  <1>8. ASSUME NEW g \in bar.signals, ExitAccepted(g) PROVE FALSE
    BY <1>8, <1>t DEF ExitAccepted, BarState
  <1>9. CASE EntryReturned
    BY <1>9, <1>t DEF EntryReturned, AddPosition, BarState
  <1>10. CASE ExitReturned
    BY <1>10, <1>t DEF ExitReturned, RemovePosition, BarState
  <1>11. ASSUME NEW s \in Symbols, BarArrives(s) PROVE FALSE
    BY <1>11 DEF BarArrives, IdleBar
  <1>12. CASE Crash
    BY <1>12 DEF Crash, IdleBar
  <1>13. CASE EodStarts \/ Startup
    BY <1>13 DEF EodStarts, EodDue, Startup, BreakerActive
  <1> QED BY <1>1, <1>2, <1>3, <1>4, <1>5, <1>6, <1>7, <1>8, <1>9, <1>10, <1>11,
             <1>12, <1>13, NextCases

\* SnapshotCurrent: the only position of the symbol is the one being exited, so
\* nothing is left to do when its call returns.
LEMMA SnapshotStep ==
    TypeOK /\ BookInv /\ SnapshotCurrent /\ [Next]_vars => SnapshotCurrent'
  <1> SUFFICES ASSUME TypeOK, BookInv, SnapshotCurrent, [Next]_vars
               PROVE  SnapshotCurrent'
    OBVIOUS
  <1>t. bar \in BarState
    BY DEF TypeOK
  <1> USE DEF SnapshotCurrent, book
  <1>1. CASE BarQuiet
    BY <1>1, <1>t, QuietFrame DEF QuietStep, IdleBar
  <1>2. CASE AccountReturned
    BY <1>2, <1>t DEF AccountReturned, BarState
  <1>3. ASSUME NEW t \in Tasks, Thread(t) PROVE SnapshotCurrent'
    BY <1>3, ThreadCalls
  <1>4. CASE EodStep
    BY <1>4, EodFrame
  <1>5. CASE Outside
    BY <1>5, OutsideFrame
  <1>6. CASE UNCHANGED vars
    BY <1>6 DEF vars
  <1>7. ASSUME NEW p \in bar.todo, StopHit(p) PROVE SnapshotCurrent'
    <2>1. bar'.pc = "stopExit" /\ bar'.todo = bar.todo \ {p} /\ bar.pc = "stops"
      BY <1>7, <1>t DEF StopHit, BarState
    <2>2. \A q \in bar.todo : q = p
      BY <1>7, <2>1 DEF BookInv, OneLayerPerSymbol
    <2> QED BY <2>1, <2>2
  <1>8. ASSUME NEW g \in bar.signals, ExitAccepted(g) PROVE SnapshotCurrent'
    BY <1>8, <1>t DEF ExitAccepted, BarState
  <1>9. CASE EntryReturned
    BY <1>9, <1>t DEF EntryReturned, AddPosition, BarState
  <1>10. CASE ExitReturned
    <2>1. bar.todo = {} /\ bar'.todo = {}
      BY <1>10, <1>t DEF ExitReturned, RemovePosition, BarState
    <2> QED BY <2>1
  <1>11. ASSUME NEW s \in Symbols, BarArrives(s) PROVE SnapshotCurrent'
    BY <1>11 DEF BarArrives, IdleBar
  <1>12. CASE Crash
    BY <1>12 DEF Crash, IdleBar
  <1>13. CASE EodStarts \/ Startup
    BY <1>13 DEF EodStarts, EodDue, Startup, BreakerActive
  <1> QED BY <1>1, <1>2, <1>3, <1>4, <1>5, <1>6, <1>7, <1>8, <1>9, <1>10, <1>11,
             <1>12, <1>13, NextCases

\* HaltedInStops: the breaker is raised at the end of a bar, and the next one
\* ends at Dispatch.
LEMMA HaltedStep ==
    TypeOK /\ CallsMatchTasks /\ HaltedInStops /\ [Next]_vars => HaltedInStops'
  <1> SUFFICES ASSUME TypeOK, CallsMatchTasks, HaltedInStops, [Next]_vars
               PROVE  HaltedInStops'
    OBVIOUS
  <1>t. bar \in BarState
    BY DEF TypeOK
  <1> USE DEF HaltedInStops, db
  <1>1. CASE BarQuiet
    BY <1>1, <1>t, QuietFrame DEF QuietStep, BarOnLoopPcs
  <1>2. CASE AccountReturned
    BY <1>2, <1>t DEF AccountReturned, BarState
  <1>3. ASSUME NEW t \in Tasks, Thread(t) PROVE HaltedInStops'
    BY <1>3, ThreadCalls
  <1>4. CASE EodStep
    BY <1>4, EodFrame
  <1>5. CASE Outside
    BY <1>5, OutsideFrame
  <1>6. CASE UNCHANGED vars
    BY <1>6 DEF vars
  <1>7. ASSUME NEW p \in bar.todo, StopHit(p) PROVE HaltedInStops'
    BY <1>7, <1>t DEF StopHit, BarState
  <1>8. ASSUME NEW g \in bar.signals, ExitAccepted(g) PROVE HaltedInStops'
    BY <1>8, <1>t DEF ExitAccepted, BarState
  <1>9. CASE EntryReturned
    BY <1>9, <1>t DEF EntryReturned, AddPosition, BarState
  <1>10. CASE ExitReturned
    BY <1>10, <1>t DEF ExitReturned, RemovePosition, BarState
  <1>11. ASSUME NEW s \in Symbols, BarArrives(s) PROVE HaltedInStops'
    BY <1>11 DEF BarArrives, IdleBar
  <1>12. CASE Crash
    BY <1>12 DEF Crash, IdleBar
  <1>13. CASE EodStarts \/ Startup
    BY <1>13 DEF EodStarts, EodDue, Startup, BreakerActive
  <1> QED BY <1>1, <1>2, <1>3, <1>4, <1>5, <1>6, <1>7, <1>8, <1>9, <1>10, <1>11,
             <1>12, <1>13, NextCases

\* What a thread does to the trades table: an exit only closes its own trade,
\* an entry adds the next id and either returns it or leaves it an orphan.
LEMMA ThreadTrades ==
    ASSUME TypeOK, NEW t \in Tasks, Thread(t)
    PROVE  /\ \/ /\ dbOpen' \subseteq dbOpen
                 /\ nextTrade' = nextTrade
                 /\ call'[t].trade = call[t].trade
                 /\ call'[t].step = "true" =>
                       /\ call[t].step = "recordExit"
                       /\ call[t].trade \notin dbOpen'
              \/ /\ call[t].step = "save"
                 /\ dbOpen' = dbOpen \union {nextTrade}
                 /\ nextTrade' = nextTrade + 1
                 /\ call'[t].step = "true" => call'[t].trade = nextTrade
                 /\ call'[t].step = "true" \/ nextTrade \in orphans'
           /\ orphans \subseteq orphans'
  <1> USE CallEffects
  <1>1. /\ call \in [Tasks -> Call]
        /\ {"true", "false", "recordExit", "sell", "protect", "save"} \subseteq CallSteps
    BY DEF TypeOK, CallSteps, ExitSteps, EntrySteps
  <1>2. CASE ReadPositions(t)
    BY <1>1, <1>2 DEF ReadPositions, Call, db, ghost
  <1>3. CASE CancelOrders(t)
    BY <1>1, <1>3 DEF CancelOrders, db, ghost
  <1>4. CASE SellOrder(t)
    BY <1>1, <1>4 DEF SellOrder, db, ghost
  <1>5. CASE RecordExit(t)
    BY <1>1, <1>5 DEF RecordExit, RowNotClosed
  <1>6. CASE BuyOrder(t)
    BY <1>1, <1>6 DEF BuyOrder, db, ghost
  <1>7. CASE ProtectEntry(t)
    BY <1>1, <1>7 DEF ProtectEntry, db, ghost
  <1>8. CASE SaveTrade(t)
    <2>1. CASE Step(t, "false") /\ UNCHANGED <<dbOpen, nextTrade, orphans>>
      BY <1>1, <2>1
    <2>2. CASE /\ dbOpen' = dbOpen \union {nextTrade}
               /\ nextTrade' = nextTrade + 1
               /\ call' = [call EXCEPT ![t].step = "true", ![t].trade = nextTrade]
               /\ UNCHANGED orphans
      BY <1>1, <1>8, <2>2 DEF SaveTrade, Call
    <2>3. CASE /\ dbOpen' = dbOpen \union {nextTrade}
               /\ nextTrade' = nextTrade + 1
               /\ orphans' = orphans \union {nextTrade}
               /\ Step(t, "false")
      BY <1>1, <1>8, <2>3 DEF SaveTrade
    <2> QED BY <1>8, <2>1, <2>2, <2>3 DEF SaveTrade
  <1> QED BY <1>2, <1>3, <1>4, <1>5, <1>6, <1>7, <1>8 DEF Thread

\* ExitsTracked: the position awaited stays in the book, its trade is closed
\* before the handler is told so, and is not opened again.
LEMMA ExitsStep ==
    /\ TypeOK
    /\ CallsMatchTasks
    /\ SnapshotCurrent
    /\ ExitsTracked
    /\ IdsOld
    /\ [Next]_vars
    => ExitsTracked'
  <1> SUFFICES ASSUME TypeOK, CallsMatchTasks, SnapshotCurrent, ExitsTracked,
                      IdsOld, [Next]_vars, BarExiting'
               PROVE  ExitsTracked'
    BY DEF ExitsTracked
  <1>t. /\ bar \in BarState
        /\ call \in [Tasks -> Call]
        /\ openPositions \subseteq Position
        /\ nextTrade \in Nat
        /\ "bar" \in Tasks /\ "eod" \in Tasks /\ Tasks = {"bar", "eod"}
    BY DEF TypeOK, Tasks
  <1> USE DEF ExitsTracked, BarExiting, Returned, book, db
  <1>1. CASE BarQuiet
    BY <1>1, QuietFrame DEF QuietStep, BarOnLoopPcs
  <1>2. CASE AccountReturned
    BY <1>2, <1>t DEF AccountReturned, BarState
  <1>3. ASSUME NEW t \in Tasks, Thread(t) PROVE ExitsTracked'
    <2>1. UNCHANGED <<openPositions, bar>> /\ BarExiting
      BY <1>3, ThreadCalls
    <2>2. PICK p \in openPositions : /\ p.symbol = bar.symbol
                                     /\ p.layer = bar.layer
                                     /\ p.trade = call["bar"].trade
      BY <2>1
    <2>3. p.trade < nextTrade /\ p.trade \in Nat
      BY <1>t DEF IdsOld, Position
    <2>4. call["bar"].step \notin EntrySteps /\ call["eod"].step \notin EntrySteps
      BY <2>1 DEF CallsMatchTasks, ExitSteps, EntrySteps, Answered
    <2>5. dbOpen' \subseteq dbOpen
      BY <1>3, <1>t, <2>4, ThreadTrades DEF EntrySteps
    <2>6. CASE t = "bar"
      BY <1>3, <2>1, <2>2, <2>4, <2>6, ThreadTrades DEF EntrySteps
    <2>7. CASE t = "eod"
      BY <1>3, <1>t, <2>1, <2>2, <2>5, <2>7, ThreadCalls
    <2> QED BY <1>t, <2>6, <2>7
  <1>4. CASE EodStep
    BY <1>4, EodFrame
  <1>5. CASE Outside
    BY <1>5, OutsideFrame
  <1>6. CASE UNCHANGED vars
    BY <1>6 DEF vars
  <1>7. ASSUME NEW p \in bar.todo, StopHit(p) PROVE ExitsTracked'
    <2>1. p \in openPositions /\ p \in Position /\ p.symbol = bar.symbol
      BY <1>7, <1>t DEF StopHit, SnapshotCurrent
    <2>2. call'["bar"].trade = p.trade /\ call'["bar"].step # "true"
      BY <1>7, <1>t, <2>1, CallEffects DEF StopHit
    <2>3. bar'.layer = p.layer /\ bar'.symbol = bar.symbol
      BY <1>7, <1>t DEF StopHit, BarState
    <2> QED BY <1>7, <2>1, <2>2, <2>3 DEF StopHit
  <1>8. ASSUME NEW g \in bar.signals, ExitAccepted(g) PROVE ExitsTracked'
    <2>1. PICK p \in openPositions : /\ p.symbol = bar.symbol
                                     /\ p.layer = g.layer
                                     /\ StartExit("bar", p)
      BY <1>8 DEF ExitAccepted
    <2>2. call'["bar"].trade = p.trade /\ call'["bar"].step # "true"
      BY <1>t, <2>1, CallEffects
    <2>3. bar'.layer = g.layer /\ bar'.symbol = bar.symbol
      BY <1>8, <1>t DEF ExitAccepted, BarState
    <2> QED BY <1>8, <2>1, <2>2, <2>3 DEF ExitAccepted
  <1>9. CASE EntryReturned
    BY <1>9, <1>t DEF EntryReturned, AddPosition, BarState
  <1>10. CASE ExitReturned
    BY <1>10, <1>t DEF ExitReturned, RemovePosition, BarState
  <1>11. ASSUME NEW s \in Symbols, BarArrives(s) PROVE ExitsTracked'
    BY <1>11 DEF BarArrives, IdleBar
  <1>12. CASE Crash
    BY <1>12 DEF Crash, IdleBar
  <1>13. CASE EodStarts \/ Startup
    BY <1>13 DEF EodStarts, EodDue, Startup, BreakerActive
  <1> QED BY <1>1, <1>2, <1>3, <1>4, <1>5, <1>6, <1>7, <1>8, <1>9, <1>10, <1>11,
             <1>12, <1>13, NextCases

\* IdsOld: only save_trade hands out ids.
LEMMA IdsStep ==
    /\ TypeOK
    /\ CallsMatchTasks
    /\ SnapshotCurrent
    /\ ExitsTracked
    /\ IdsOld
    /\ [Next]_vars
    => IdsOld'
  <1> SUFFICES ASSUME TypeOK, CallsMatchTasks, SnapshotCurrent, ExitsTracked,
                      IdsOld, [Next]_vars
               PROVE  IdsOld'
    OBVIOUS
  <1>t. /\ bar \in BarState
        /\ call \in [Tasks -> Call]
        /\ openPositions \subseteq Position
        /\ nextTrade \in Nat /\ firstTrade \in Nat /\ dbOpen \subseteq Nat
        /\ \A p \in openPositions : p.trade \in Nat
        /\ "bar" \in Tasks /\ "eod" \in Tasks /\ Tasks = {"bar", "eod"}
    BY DEF TypeOK, Tasks, Position
  <1> USE DEF IdsOld, Returned, book, db, ghost
  <1>1. CASE BarQuiet
    BY <1>1, QuietFrame DEF QuietStep
  <1>2. CASE AccountReturned
    <2>1. call'["bar"].step # "true"
      BY <1>2, <1>t, EntryEffect
         DEF AccountReturned, BarState, CallsMatchTasks, BarExiting
    <2> QED BY <1>2, <2>1 DEF AccountReturned
  <1>3. ASSUME NEW t \in Tasks, Thread(t) PROVE IdsOld'
    <2>1. UNCHANGED <<openPositions, bar, firstTrade>>
      BY <1>3, ThreadCalls
    <2>2. CASE /\ dbOpen' \subseteq dbOpen
               /\ nextTrade' = nextTrade
               /\ call'[t].trade = call[t].trade
               /\ call'[t].step = "true" => call[t].step = "recordExit"
      <3>1. t = "bar" /\ call'[t].step = "true" => BarExiting
        BY <2>2 DEF CallsMatchTasks, EntrySteps, Answered
      <3>2. t = "bar" /\ call'[t].step = "true" => call[t].trade < nextTrade
        BY <1>t, <3>1 DEF ExitsTracked
      <3>3. t = "eod" => call'["bar"] = call["bar"]
        BY <1>3, <1>t, ThreadCalls
      <3> QED BY <1>t, <2>1, <2>2, <3>2, <3>3
    <2>3. CASE /\ dbOpen' = dbOpen \union {nextTrade}
               /\ nextTrade' = nextTrade + 1
               /\ call'[t].step = "true" => call'[t].trade = nextTrade
      <3>1. t = "eod" => call'["bar"] = call["bar"]
        BY <1>3, <1>t, ThreadCalls
      <3>2. ASSUME NEW i \in dbOpen' PROVE i < nextTrade'
        <4>1. CASE i = nextTrade
          BY <1>t, <2>3, <4>1
        <4>2. CASE i \in dbOpen
          <5>1. i \in Nat /\ i < nextTrade
            BY <1>t, <4>2
          <5> QED BY <1>t, <2>3, <5>1
        <4> QED BY <2>3, <4>1, <4>2
      <3>3. \A p \in openPositions' : p.trade < nextTrade'
        BY <1>t, <2>1, <2>3
      <3>4. call'["bar"].step = "true" => call'["bar"].trade < nextTrade'
        <4>1. CASE t = "bar"
          BY <1>t, <2>3, <4>1
        <4>2. CASE t = "eod"
          <5>1. call["bar"].trade \in Nat
            BY <1>t DEF Call
          <5> QED BY <1>t, <2>3, <3>1, <4>2, <5>1
        <4> QED BY <1>t, <4>1, <4>2
      <3> QED BY <1>t, <2>1, <2>3, <3>2, <3>3, <3>4
    <2> QED BY <1>3, <2>2, <2>3, ThreadTrades
  <1>4. CASE EodStep
    BY <1>4, EodFrame
  <1>5. CASE Outside
    BY <1>5, OutsideFrame
  <1>6. CASE UNCHANGED vars
    BY <1>6 DEF vars
  <1>7. ASSUME NEW p \in bar.todo, StopHit(p) PROVE IdsOld'
    <2>1. call'["bar"].step # "true"
      BY <1>7, <1>t, CallEffects DEF StopHit, SnapshotCurrent
    <2> QED BY <1>7, <2>1 DEF StopHit
  <1>8. ASSUME NEW g \in bar.signals, ExitAccepted(g) PROVE IdsOld'
    <2>1. call'["bar"].step # "true"
      BY <1>8, <1>t, CallEffects DEF ExitAccepted
    <2> QED BY <1>8, <2>1 DEF ExitAccepted
  <1>9. CASE EntryReturned
    <2>1. call'["bar"].step # "true"
      BY <1>9, <1>t DEF EntryReturned, AddPosition, NoCall
    <2>2. \A p \in openPositions' : p.trade < nextTrade
      BY <1>9, <1>t DEF EntryReturned, AddPosition
    <2> QED BY <1>9, <2>1, <2>2 DEF EntryReturned, AddPosition
  <1>10. CASE ExitReturned
    <2>1. call'["bar"].step # "true"
      BY <1>10, <1>t DEF ExitReturned, RemovePosition, NoCall
    <2>2. openPositions' \subseteq openPositions
      BY <1>10 DEF ExitReturned, RemovePosition
    <2> QED BY <1>10, <2>1, <2>2 DEF ExitReturned, RemovePosition
  <1>11. ASSUME NEW s \in Symbols, BarArrives(s) PROVE IdsOld'
    BY <1>11 DEF BarArrives
  <1>12. CASE Crash
    BY <1>12, <1>t DEF Crash, NoCall
  <1>13. CASE EodStarts
    BY <1>13 DEF EodStarts, EodDue
  <1>14. CASE Startup
    BY <1>14, <1>t DEF Startup, BreakerActive
  <1> QED BY <1>1, <1>2, <1>3, <1>4, <1>5, <1>6, <1>7, <1>8, <1>9, <1>10, <1>11,
             <1>12, <1>13, <1>14, NextCases

\* OpenTradesTracked: a trade is in the book, or on its way there, until it is
\* closed.
LEMMA TrackedStep ==
    /\ TypeOK
    /\ BookInv
    /\ CallsMatchTasks
    /\ ExitsTracked
    /\ IdsOld
    /\ OpenTradesTracked
    /\ [Next]_vars
    => OpenTradesTracked'
  <1> DEFINE Coming(i) == bar.pc = "entry" /\ Returned("bar", "true") /\ call["bar"].trade = i
  <1> SUFFICES ASSUME TypeOK, BookInv, CallsMatchTasks, ExitsTracked, IdsOld,
                      OpenTradesTracked, [Next]_vars, up',
                      NEW i \in dbOpen' \ orphans', i >= firstTrade'
               PROVE  (\E p \in openPositions' : p.trade = i) \/ Coming(i)'
    BY DEF OpenTradesTracked
  <1>t. /\ bar \in BarState
        /\ call \in [Tasks -> Call]
        /\ openPositions \subseteq Position
        /\ nextTrade \in Nat /\ firstTrade \in Nat /\ dbOpen \subseteq Nat
        /\ "bar" \in Tasks /\ "eod" \in Tasks /\ Tasks = {"bar", "eod"}
    BY DEF TypeOK, Tasks
  <1>o. up /\ i \in dbOpen \ orphans /\ i >= firstTrade =>
           (\E p \in openPositions : p.trade = i) \/ Coming(i)
    BY DEF OpenTradesTracked
  <1> USE DEF Returned, book, db, ghost
  <1>1. CASE BarQuiet
    <2>1. bar.pc # "entry" /\ i \in dbOpen \ orphans /\ up /\ i >= firstTrade
      BY <1>1, QuietFrame DEF QuietStep, BarOnLoopPcs
    <2> QED BY <1>1, <1>o, <2>1, QuietFrame DEF QuietStep
  <1>2. CASE AccountReturned
    BY <1>2, <1>t, <1>o DEF AccountReturned
  <1>3. ASSUME NEW t \in Tasks, Thread(t)
        PROVE  (\E p \in openPositions' : p.trade = i) \/ Coming(i)'
    <2>1. UNCHANGED <<openPositions, bar, up, firstTrade>>
      BY <1>3, ThreadCalls
    <2>o. i \notin orphans
      BY <1>3, ThreadTrades
    <2>2. CASE i \in dbOpen
      <3>1. CASE \E p \in openPositions : p.trade = i
        BY <2>1, <3>1
      <3>2. CASE Coming(i)
        <4>1. t = "eod"
          BY <1>3, <1>t, <3>2, ThreadCalls DEF ExitSteps, EntrySteps
        <4>2. call'["bar"] = call["bar"]
          BY <1>3, <1>t, <4>1, ThreadCalls
        <4> QED BY <2>1, <3>2, <4>2
      <3> QED BY <1>o, <2>1, <2>o, <2>2, <3>1, <3>2
    <2>3. CASE i \notin dbOpen
      <3>1. /\ call[t].step = "save"
            /\ i = nextTrade
            /\ call'[t].step = "true"
            /\ call'[t].trade = nextTrade
        BY <1>3, <2>3, ThreadTrades
      <3>2. t = "bar" /\ bar.pc = "entry"
        BY <1>t, <3>1 DEF CallsMatchTasks, ExitSteps, Answered
      <3> QED BY <2>1, <3>1, <3>2
    <2> QED BY <2>2, <2>3
  <1>4. CASE EodStep
    BY <1>4, <1>o, EodFrame
  <1>5. CASE Outside
    BY <1>5, <1>o, OutsideFrame
  <1>6. CASE UNCHANGED vars
    BY <1>6, <1>o DEF vars
  <1>7. ASSUME NEW p \in bar.todo, StopHit(p)
        PROVE  (\E q \in openPositions' : q.trade = i) \/ Coming(i)'
    BY <1>7, <1>o DEF StopHit
  <1>8. ASSUME NEW g \in bar.signals, ExitAccepted(g)
        PROVE  (\E q \in openPositions' : q.trade = i) \/ Coming(i)'
    BY <1>8, <1>o DEF ExitAccepted
  <1>9. CASE EntryReturned
    <2>1. CASE \E p \in openPositions : p.trade = i
      BY <1>9, <2>1 DEF EntryReturned, AddPosition
    <2>2. CASE Coming(i)
      <3> DEFINE new == [symbol |-> bar.symbol, layer |-> bar.layer,
                         trade |-> call["bar"].trade, day |-> day]
      <3>1. new \in openPositions'
        BY <1>9, <2>2 DEF EntryReturned, AddPosition
      <3>2. new.trade = i
        BY <2>2
      <3> QED BY <3>1, <3>2
    <2> QED BY <1>9, <1>o, <2>1, <2>2 DEF EntryReturned, AddPosition
  <1>10. CASE ExitReturned
    <2>1. PICK p \in openPositions : p.trade = i
      BY <1>10, <1>o DEF ExitReturned, RemovePosition
    <2>2. CASE Returned("bar", "true")
      <3>1. BarExiting /\ call["bar"].trade \notin dbOpen /\ i \in dbOpen
        BY <1>10, <2>2 DEF ExitReturned, RemovePosition, BarExiting, ExitsTracked
      <3>2. PICK q \in openPositions : /\ q.symbol = bar.symbol
                                       /\ q.layer = bar.layer
                                       /\ q.trade = call["bar"].trade
        BY <3>1 DEF ExitsTracked
      <3>3. p.symbol # bar.symbol
        BY <2>1, <3>1, <3>2 DEF BookInv, OneLayerPerSymbol
      <3> QED BY <1>10, <2>1, <2>2, <3>3 DEF ExitReturned, RemovePosition
    <2>3. CASE ~Returned("bar", "true")
      BY <1>10, <2>1, <2>3 DEF ExitReturned, RemovePosition
    <2> QED BY <2>2, <2>3
  <1>11. ASSUME NEW s \in Symbols, BarArrives(s)
         PROVE  (\E q \in openPositions' : q.trade = i) \/ Coming(i)'
    BY <1>11, <1>o DEF BarArrives
  <1>12. CASE Crash
    BY <1>12 DEF Crash
  <1>13. CASE EodStarts
    BY <1>13, <1>o DEF EodStarts, EodDue
  <1>14. CASE Startup
    <2>1. i < nextTrade /\ i >= nextTrade /\ i \in Nat
      BY <1>14, <1>t DEF Startup, BreakerActive, IdsOld
    <2> QED BY <1>t, <2>1
  <1> QED BY <1>1, <1>2, <1>3, <1>4, <1>5, <1>6, <1>7, <1>8, <1>9, <1>10, <1>11,
             <1>12, <1>13, <1>14, NextCases

\* The part of LotsHeld about one symbol, through a step of a thread.
LEMMA LotsThread ==
    ASSUME TypeOK, CallsMatchTasks, ExitsTracked,
           NEW t \in Tasks, Thread(t),
           NEW s \in Symbols \ moved', s \notin moved => LotsOf(s)
    PROVE  LotsOf(s)'
  <1>t. /\ bar \in BarState
        /\ call \in [Tasks -> Call]
        /\ held \in [Symbols -> Int]
        /\ openPositions \subseteq Position
        /\ "bar" \in Tasks /\ "eod" \in Tasks /\ Tasks = {"bar", "eod"}
        /\ {"true", "false", "recordExit", "sell", "protect", "save"} \subseteq CallSteps
        /\ call["bar"].qty \in Int /\ call["eod"].qty \in Int
        /\ call["bar"].symbol \in Symbols /\ call["eod"].symbol \in Symbols
    BY DEF TypeOK, Tasks, CallSteps, ExitSteps, EntrySteps, Call
  <1>c. UNCHANGED <<openPositions, bar>>
    BY ThreadCalls DEF book
  <1>e. t = "eod" => call'["bar"] = call["bar"]
    BY <1>t, ThreadCalls
  <1>x. t = "bar" /\ call["bar"].step \in ExitSteps =>
           /\ BarExiting
           /\ call["bar"].symbol = bar.symbol
           /\ bar.symbol \in SymbolsOf(openPositions)
    BY DEF CallsMatchTasks, ExitsTracked, ExitSteps, EntrySteps, Answered, SymbolsOf
  <1>y. t = "bar" /\ call["bar"].step \in EntrySteps =>
           bar.pc = "entry" /\ call["bar"].symbol = bar.symbol
    BY DEF CallsMatchTasks, ExitSteps, EntrySteps, Answered
  <1>z. t = "eod" => call["eod"].step \in ExitSteps
    BY ThreadCalls DEF CallsMatchTasks, ExitSteps, EntrySteps, Answered
  <1> USE CallEffects DEF LotsOf, BarExiting, db, broker, ghost
  <1>1. CASE ReadPositions(t)
    <2>1. CASE t = "eod"
      BY <1>1, <1>c, <1>e, <2>1 DEF ReadPositions, SymbolsOf
    <2>2. CASE t = "bar" /\ Step(t, "false") /\ UNCHANGED <<held, moved>>
      BY <1>1, <1>t, <1>c, <2>2 DEF ReadPositions, SymbolsOf
    <2>3. CASE /\ t = "bar"
               /\ call' = [call EXCEPT ![t].step = "cancel",
                              ![t].qty = IF held[call[t].symbol] > 0
                                         THEN held[call[t].symbol] ELSE 1]
      <3>1. call'["bar"].step = "cancel" /\ UNCHANGED <<held, moved>>
        BY <1>1, <1>t, <2>3 DEF ReadPositions, Call
      <3>2. call["bar"].step = "positions" /\ ~DryRun
        BY <1>1, <1>t, <2>3 DEF ReadPositions, CallsMatchTasks
      <3>3. BarExiting /\ call["bar"].symbol = bar.symbol
            /\ bar.symbol \in SymbolsOf(openPositions)
        BY <1>x, <2>3, <3>2 DEF ExitSteps
      <3>4. s = bar.symbol => held[s] > 0
        BY <3>1, <3>2, <3>3
      <3>5. s = bar.symbol => call'["bar"].qty = held[s]
        BY <1>t, <2>3, <3>3, <3>4 DEF Call
      <3> QED BY <1>t, <1>c, <3>1, <3>2, <3>4, <3>5 DEF SymbolsOf
    <2> QED BY <1>1, <1>t, <2>1, <2>2, <2>3 DEF ReadPositions
  <1>2. CASE CancelOrders(t)
    <2>1. UNCHANGED <<held, moved>>
      BY <1>2 DEF CancelOrders
    <2>2. CASE t = "eod"
      BY <1>c, <1>e, <2>1, <2>2 DEF SymbolsOf
    <2>3. CASE t = "bar"
      BY <1>2, <1>t, <1>c, <2>1, <2>3 DEF CancelOrders, SymbolsOf
    <2> QED BY <1>t, <2>2, <2>3
  <1>3. CASE SellOrder(t)
    <2> DEFINE sym == call[t].symbol
    <2>s. /\ call[t].step = "sell"
          /\ \/ /\ held' = [held EXCEPT ![sym] = @ - call[t].qty]
                /\ \/ moved' = moved \union {sym}
                   \/ t = "bar" /\ moved' = moved /\ Step(t, "recordExit")
             \/ UNCHANGED <<held, moved>> /\ Retry(t)
      BY <1>3, <1>t DEF SellOrder
    <2>m. moved \subseteq moved'
      BY <2>s
    <2>h. sym \in Symbols
      BY <1>t
    <2>1. CASE t = "eod"
      <3>1. held'[s] = held[s]
        BY <1>t, <2>s, <2>h, <2>1
      <3> QED BY <1>c, <1>e, <2>m, <2>1, <3>1 DEF SymbolsOf
    <2>2. CASE t = "bar"
      <3>1. BarExiting /\ sym = bar.symbol /\ bar.symbol \in SymbolsOf(openPositions)
        BY <1>x, <2>s, <2>2 DEF ExitSteps
      <3>2. ~DryRun
        BY <1>t, <2>s DEF CallsMatchTasks
      <3>3. CASE UNCHANGED <<held, moved>> /\ Retry(t)
        <4>1. call'["bar"].step \in {"sell", "false"} /\ call'["bar"].qty = call["bar"].qty
          BY <1>t, <2>s, <2>2, <3>3
        <4> QED BY <1>t, <1>c, <2>s, <2>2, <3>1, <3>2, <3>3, <4>1 DEF SymbolsOf
      <3>4. CASE held' = [held EXCEPT ![sym] = @ - call[t].qty]
                 /\ moved' = moved \union {sym}
        <4>1. s # sym /\ held'[s] = held[s]
          BY <1>t, <2>h, <3>4
        <4> QED BY <1>c, <2>m, <3>1, <4>1 DEF SymbolsOf
      <3>5. CASE /\ held' = [held EXCEPT ![sym] = @ - call[t].qty]
                 /\ moved' = moved /\ Step(t, "recordExit")
        <4>1. call'["bar"].step = "recordExit"
          BY <1>t, <2>2, <3>5
        <4>2. CASE s = sym
          <5>1. call["bar"].qty <= held[s]
            BY <2>s, <2>2, <3>1, <3>5, <4>2
          <5>2. held'[s] = held[s] - call["bar"].qty
            BY <1>t, <2>2, <3>5, <4>2
          <5>3. held'[s] >= 0
            BY <1>t, <5>1, <5>2
          <5> QED BY <1>c, <3>1, <4>1, <4>2, <5>3 DEF SymbolsOf
        <4>3. CASE s # sym
          <5>1. held'[s] = held[s]
            BY <1>t, <2>h, <3>5, <4>3
          <5> QED BY <1>c, <3>1, <3>5, <4>1, <4>3, <5>1 DEF SymbolsOf
        <4> QED BY <4>2, <4>3
      <3> QED BY <2>s, <3>3, <3>4, <3>5
    <2> QED BY <1>t, <2>1, <2>2
  <1>4. CASE RecordExit(t)
    <2>1. moved \subseteq moved' /\ held' = held
      BY <1>4 DEF RecordExit, RowNotClosed
    <2>2. CASE t = "eod"
      BY <1>c, <1>e, <2>1, <2>2 DEF SymbolsOf
    <2>3. CASE t = "bar" /\ Step(t, "true")
      BY <1>4, <1>t, <1>c, <1>x, <2>1, <2>3 DEF RecordExit, RowNotClosed, SymbolsOf, ExitSteps
    <2>4. CASE t = "bar" /\ Step(t, "false") /\ moved' = moved \union {call[t].symbol}
      BY <1>4, <1>t, <1>c, <1>x, <2>1, <2>4 DEF RecordExit, RowNotClosed, SymbolsOf, ExitSteps
    <2> QED BY <1>4, <1>t, <2>2, <2>3, <2>4 DEF RecordExit, RowNotClosed
  <1>5. CASE BuyOrder(t)
    <2>1. t = "bar" /\ moved' = moved /\ call["bar"].step = "buy"
      BY <1>5, <1>t, <1>z DEF BuyOrder, ExitSteps
    <2>2. bar.pc = "entry" /\ call["bar"].symbol = bar.symbol
      BY <1>y, <2>1 DEF EntrySteps
    <2>3. /\ held'[s] \in Int /\ held'[s] >= held[s]
          /\ s = bar.symbol => held'[s] = held[s] + 1 \/ held'[s] = held[s]
          /\ call'["bar"].step = "protect" /\ s = bar.symbol => held'[s] = held[s] + 1
          /\ call'["bar"].step \in {"protect", "buy", "false"}
      <3>1. CASE held' = [held EXCEPT ![bar.symbol] = @ + 1] /\ Step("bar", "protect")
        BY <1>t, <2>2, <3>1
      <3>2. CASE held' = [held EXCEPT ![bar.symbol] = @ + 1] /\ Retry("bar")
        BY <1>t, <2>1, <2>2, <3>2
      <3>3. CASE UNCHANGED held /\ Retry("bar")
        BY <1>t, <2>1, <2>2, <3>3
      <3> QED BY <1>5, <2>1, <2>2, <3>1, <3>2, <3>3 DEF BuyOrder
    <2> QED BY <1>t, <1>c, <2>1, <2>2, <2>3 DEF SymbolsOf
  <1>6. CASE ProtectEntry(t)
    <2>1. t = "bar" /\ UNCHANGED <<held, moved>>
      BY <1>6, <1>t, <1>z DEF ProtectEntry, ExitSteps
    <2> QED BY <1>6, <1>t, <1>c, <1>y, <2>1 DEF ProtectEntry, SymbolsOf, EntrySteps
  <1>7. CASE SaveTrade(t)
    <2>1. t = "bar" /\ UNCHANGED <<held, moved>>
      BY <1>7, <1>t, <1>z DEF SaveTrade, ExitSteps
    <2>2. call'["bar"].step \in {"true", "false"} /\ call["bar"].step = "save"
      BY <1>7, <1>t, <2>1 DEF SaveTrade, Call
    <2> QED BY <1>t, <1>c, <1>y, <2>1, <2>2 DEF SymbolsOf, EntrySteps
  <1> QED BY <1>1, <1>2, <1>3, <1>4, <1>5, <1>6, <1>7 DEF Thread

\* LotsHeld: a symbol in the book is in the account until its own exit sells it.
LEMMA LotsStep ==
    /\ TypeOK
    /\ BookInv
    /\ CallsMatchTasks
    /\ SnapshotCurrent
    /\ ExitsTracked
    /\ LotsHeld
    /\ [Next]_vars
    => LotsHeld'
  <1> SUFFICES ASSUME TypeOK, BookInv, CallsMatchTasks, SnapshotCurrent, ExitsTracked,
                      LotsHeld, [Next]_vars, NEW s \in Symbols \ moved'
               PROVE  LotsOf(s)'
    BY DEF LotsHeld
  <1>t. /\ bar \in BarState
        /\ call \in [Tasks -> Call]
        /\ held \in [Symbols -> Int]
        /\ openPositions \subseteq Position
        /\ "bar" \in Tasks /\ "eod" \in Tasks /\ Tasks = {"bar", "eod"}
    BY DEF TypeOK, Tasks
  <1>l. s \notin moved => LotsOf(s)
    BY DEF LotsHeld
  <1>n. ~BarExiting /\ bar.pc # "entry" => call["bar"].step = "none"
    BY DEF CallsMatchTasks, BarExiting
  <1> USE DEF LotsOf, BarExiting, SymbolsOf, book, broker, ghost
  <1>1. CASE BarQuiet
    <2>1. held'[s] = held[s] /\ s \notin moved
      BY <1>1, QuietFrame DEF QuietStep
    <2>2. call' = call /\ call["bar"].step = "none" /\ ~BarExiting
      BY <1>1, <1>n, QuietFrame DEF QuietStep, BarOnLoopPcs
    <2>3. openPositions' = openPositions /\ bar'.pc # "entry"
      BY <1>1, QuietFrame DEF QuietStep, BarOnLoopPcs
    <2> QED BY <1>l, <2>1, <2>2, <2>3
  <1>2. CASE AccountReturned
    <2>1. bar'.symbol = bar.symbol /\ bar.pc = "account" /\ bar'.pc \in {"signals", "entry"}
      BY <1>2, <1>t DEF AccountReturned, BarState
    <2>2. /\ bar'.pc = "entry" => call'["bar"].step = IF DryRun THEN "save" ELSE "buy"
          /\ bar'.pc = "signals" => call'["bar"].step = "none"
      BY <1>2, <1>t, <1>n, <2>1, EntryEffect DEF AccountReturned, BarState
    <2> QED BY <1>2, <1>l, <2>1, <2>2 DEF AccountReturned
  <1>3. ASSUME NEW t \in Tasks, Thread(t) PROVE LotsOf(s)'
    BY <1>3, <1>l, LotsThread
  <1>4. CASE EodStep
    BY <1>4, <1>l, EodFrame
  <1>5. CASE Outside
    <2>1. UNCHANGED <<bar, openPositions, call>>
      BY <1>5, OutsideFrame
    <2>2. held'[s] = held[s] /\ s \notin moved
      BY <1>5, <1>t DEF Outside, StopFills, TurnsLate, HoursEnd, NextSession, ResetBreaker
    <2> QED BY <1>l, <2>1, <2>2
  <1>6. CASE UNCHANGED vars
    BY <1>6, <1>l DEF vars
  <1>7. ASSUME NEW p \in bar.todo, StopHit(p) PROVE LotsOf(s)'
    <2>1. call'["bar"].step \in {"positions", "recordExit"}
      BY <1>7, <1>t, CallEffects DEF StopHit, SnapshotCurrent
    <2>2. bar'.pc = "stopExit" /\ bar.pc = "stops"
      BY <1>7, <1>t DEF StopHit, BarState
    <2> QED BY <1>7, <1>l, <2>1, <2>2 DEF StopHit
  <1>8. ASSUME NEW g \in bar.signals, ExitAccepted(g) PROVE LotsOf(s)'
    <2>1. call'["bar"].step \in {"positions", "recordExit"}
      BY <1>8, <1>t, CallEffects DEF ExitAccepted
    <2>2. bar'.pc = "signalExit" /\ bar.pc = "signals"
      BY <1>8, <1>t DEF ExitAccepted, BarState
    <2> QED BY <1>8, <1>l, <2>1, <2>2 DEF ExitAccepted
  <1>9. CASE EntryReturned
    <2>1. call'["bar"].step = "none" /\ bar.pc = "entry" /\ bar'.pc = "signals"
      BY <1>9, <1>t DEF EntryReturned, AddPosition, BarState, NoCall
    <2>2. /\ held' = held /\ s \notin moved
          /\ \/ openPositions' = openPositions
             \/ /\ Returned("bar", "true")
                /\ openPositions' = openPositions \union
                     {[symbol |-> bar.symbol, layer |-> bar.layer,
                       trade |-> call["bar"].trade, day |-> day]}
      BY <1>9 DEF EntryReturned, AddPosition
    <2>3. s \in SymbolsOf(openPositions') =>
             \/ s \in SymbolsOf(openPositions)
             \/ s = bar.symbol /\ Returned("bar", "true")
      BY <2>2
    <2> QED BY <1>l, <2>1, <2>2, <2>3 DEF Returned
  <1>10. CASE ExitReturned
    <2>1. call'["bar"].step = "none" /\ bar.pc \in {"stopExit", "signalExit"}
      BY <1>10, <1>t DEF ExitReturned, RemovePosition, NoCall
    <2>2. bar'.pc \in {"stops", "signals"} /\ held' = held /\ s \notin moved
      BY <1>10, <1>t DEF ExitReturned, RemovePosition, BarState
    <2>3. s \in SymbolsOf(openPositions') =>
             s \in SymbolsOf(openPositions) /\ (s = bar.symbol => Returned("bar", "false"))
      <3>1. CASE Returned("bar", "false")
        BY <1>10, <3>1 DEF ExitReturned, RemovePosition, Returned
      <3>2. CASE /\ Returned("bar", "true")
                 /\ openPositions' = {p \in openPositions :
                                        ~(p.symbol = bar.symbol /\ p.layer = bar.layer)}
        <4>1. PICK q \in openPositions : q.symbol = bar.symbol /\ q.layer = bar.layer
          BY <2>1 DEF ExitsTracked
        <4>2. \A p \in openPositions' : p \in openPositions /\ p.symbol # bar.symbol
          BY <3>2, <4>1 DEF BookInv, OneLayerPerSymbol
        <4> QED BY <4>2
      <3> QED BY <1>10, <3>1, <3>2 DEF ExitReturned, RemovePosition
    <2> QED BY <1>l, <2>1, <2>2, <2>3 DEF Returned
  <1>11. ASSUME NEW x \in Symbols, BarArrives(x) PROVE LotsOf(s)'
    <2>1. bar'.pc = "stops" /\ bar.pc = "idle" /\ call["bar"].step = "none"
      BY <1>11, <1>n DEF BarArrives, IdleBar
    <2> QED BY <1>11, <1>l, <2>1 DEF BarArrives
  <1>12. CASE Crash
    <2>1. call'["bar"].step = "none" /\ openPositions' = {} /\ bar'.pc = "idle"
      BY <1>12, <1>t DEF Crash, NoCall, IdleBar
    <2> QED BY <1>12, <1>l, <2>1 DEF Crash
  <1>13. CASE EodStarts
    BY <1>13, <1>l DEF EodStarts, EodDue
  <1>14. CASE Startup
    <2>1. s \notin moved /\ held[s] >= 0
      BY <1>14, <1>l DEF Startup, BreakerActive
    <2>2. held'[s] = held[s]
      BY <1>14, <1>t, <2>1 DEF Startup, BreakerActive
    <2> QED BY <1>14, <1>l, <2>1, <2>2 DEF Startup, BreakerActive
  <1> QED BY <1>1, <1>2, <1>3, <1>4, <1>5, <1>6, <1>7, <1>8, <1>9, <1>10, <1>11,
             <1>12, <1>13, <1>14, NextCases

-----------------------------------------------------------------------------
\* What accounts for the lots

\* A step counts at most one event of the environment, and never uncounts one.
LEMMA UsedGrows ==
    ASSUME TypeOK, [Next]_vars
    PROVE  /\ \A e \in Events : used'[e] \in Nat /\ used'[e] >= used[e]
           /\ {"lost", "fault", "crash"} \subseteq Events
  <1> DEFINE Grown == \A e \in Events : used'[e] \in Nat /\ used'[e] >= used[e]
  <1>u. used \in [Events -> Nat]
    BY DEF TypeOK
  <1>e. {"fault", "lost", "stopFill", "breach", "reset", "crash"} \subseteq Events
    BY DEF Events
  <1>o. \A e \in Events : Occurs(e) => Grown
    BY <1>u DEF Occurs
  <1>s. used' = used => Grown
    BY <1>u
  <1> SUFFICES Grown
    BY <1>e
  <1> HIDE DEF Grown
  <1>1. ASSUME NEW p \in bar.todo, StopSkipped(p) PROVE Grown
    BY <1>1, <1>s DEF StopSkipped
  <1>2. ASSUME NEW p \in bar.todo, StopHit(p) PROVE Grown
    BY <1>2, <1>s DEF StopHit
  <1>3. ASSUME NEW g \in bar.signals, SignalDropped(g) PROVE Grown
    BY <1>3, <1>s DEF SignalDropped
  <1>4. ASSUME NEW g \in bar.signals, BuyAccepted(g) PROVE Grown
    BY <1>4, <1>s DEF BuyAccepted
  <1>5. ASSUME NEW g \in bar.signals, ExitAccepted(g) PROVE Grown
    BY <1>5, <1>s DEF ExitAccepted
  <1>6. CASE Dispatch
    BY <1>6, <1>s, ZenonT(30) DEF Dispatch
  <1>7. CASE AccountReturned \/ SignalsDone
    BY <1>7, <1>s DEF AccountReturned, SignalsDone
  <1>8. CASE EntryReturned
    BY <1>8, <1>s DEF EntryReturned
  <1>9. CASE ExitReturned
    BY <1>9, <1>s DEF ExitReturned
  <1>10. CASE EquityReturned
    BY <1>10, <1>e, <1>o, <1>s DEF EquityReturned
  <1>11. CASE CancelAll
    BY <1>11, <1>e, <1>o, <1>s DEF CancelAll
  <1>12. CASE Liquidate
    BY <1>12, <1>e, <1>o, <1>s DEF Liquidate
  <1>13. CASE CloseTrades
    BY <1>13, <1>e, <1>o, <1>s DEF CloseTrades
  <1>14. CASE SetFlag
    BY <1>14, <1>e, <1>o, <1>s DEF SetFlag
  <1>15. ASSUME NEW t \in Tasks, Thread(t) PROVE Grown
    BY <1>15, <1>e, <1>o, <1>s DEF Thread, ReadPositions, CancelOrders, SellOrder, RecordExit,
        BuyOrder, ProtectEntry, SaveTrade
  <1>16. ASSUME NEW p \in eod.todo, EodSells(p) PROVE Grown
    BY <1>16, <1>s DEF EodSells
  <1>17. ASSUME NEW p \in eod.todo, EodKeeps(p) PROVE Grown
    BY <1>17, <1>s DEF EodKeeps
  <1>18. CASE EodExitReturned \/ EodSweepDone
    BY <1>18, <1>s DEF EodExitReturned, EodSweepDone
  <1>19. CASE EodCancels
    BY <1>19, <1>e, <1>o, <1>s DEF EodCancels
  <1>20. ASSUME NEW s \in Symbols, BarArrives(s) PROVE Grown
    BY <1>20, <1>s DEF BarArrives
  <1>21. ASSUME NEW s \in Symbols, StopFills(s) PROVE Grown
    BY <1>21, <1>e, <1>o DEF StopFills
  <1>22. CASE EodStarts \/ TurnsLate \/ HoursEnd \/ NextSession
    BY <1>22, <1>s DEF EodStarts, TurnsLate, HoursEnd, NextSession
  <1>23. CASE ResetBreaker \/ Crash
    BY <1>23, <1>e, <1>o DEF ResetBreaker, Crash
  <1>24. CASE Startup
    BY <1>24, <1>e, <1>o, <1>s DEF Startup
  <1>25. CASE UNCHANGED vars
    BY <1>25, <1>s DEF vars
  <1> QED
    BY <1>1, <1>2, <1>3, <1>4, <1>5, <1>6, <1>7, <1>8, <1>9, <1>10, <1>11, <1>12, <1>13,
       <1>14, <1>15, <1>16, <1>17, <1>18, <1>19, <1>20, <1>21, <1>22, <1>23, <1>24, <1>25
       DEF Next, BarStep, EodStep, Environment

\* The bar handler's steps outside its calls leave the account alone or empty it.
LEMMA QuietHeld ==
    ASSUME BarQuiet
    PROVE  held' = held \/ held' = [s \in Symbols |-> 0]
  <1> DEFINE Quiet == held' = held \/ held' = [s \in Symbols |-> 0]
  <1> SUFFICES Quiet
    OBVIOUS
  <1> USE DEF broker
  <1>1. ASSUME NEW p \in bar.todo, StopSkipped(p) PROVE Quiet
    BY <1>1 DEF StopSkipped
  <1>2. ASSUME NEW g \in bar.signals, SignalDropped(g) \/ BuyAccepted(g) PROVE Quiet
    BY <1>2 DEF SignalDropped, BuyAccepted
  <1>3. CASE Dispatch
    BY <1>3, ZenonT(30) DEF Dispatch
  <1>4. CASE SignalsDone \/ EquityReturned \/ CancelAll
    BY <1>4 DEF SignalsDone, EquityReturned, CancelAll
  <1>5. CASE Liquidate
    BY <1>5 DEF Liquidate
  <1>6. CASE CloseTrades \/ SetFlag
    BY <1>6 DEF CloseTrades, SetFlag
  <1> QED BY <1>1, <1>2, <1>3, <1>4, <1>5, <1>6 DEF BarQuiet

\* LotsKnown, the thread of either task: a purchase is followed by the entry's next
\* step or counted, a sale sells at least one lot.
LEMMA KnownThread ==
    ASSUME TypeOK, CallsMatchTasks, LotsKnown, NEW t \in Tasks, Thread(t),
           \A e \in Events : used'[e] \in Nat /\ used'[e] >= used[e]
    PROVE  LotsKnown'
  <1>t. /\ bar \in BarState
        /\ call \in [Tasks -> Call]
        /\ held \in [Symbols -> Int]
        /\ used \in [Events -> Nat]
        /\ "bar" \in Tasks /\ "eod" \in Tasks /\ Tasks = {"bar", "eod"}
        /\ {"true", "false", "recordExit", "sell", "protect", "save"} \subseteq CallSteps
        /\ {"lost", "fault", "crash"} \subseteq Events
        /\ call["bar"].qty \in Nat /\ call["eod"].qty \in Nat
        /\ call["bar"].symbol \in Symbols /\ call["eod"].symbol \in Symbols
        /\ Inherited \in [Symbols -> Nat]
    BY LiveAssumption
       DEF TypeOK, Tasks, CallSteps, ExitSteps, EntrySteps, Call, LiveAssumption, Events
  <1>c. UNCHANGED <<openPositions, bar, up>>
    BY ThreadCalls DEF book
  <1>e. t = "eod" => call'["bar"] = call["bar"]
    BY <1>t, ThreadCalls
  <1>x. t = "bar" /\ call["bar"].step \in ExitSteps =>
           BarExiting /\ bar.pc # "entry" /\ call["bar"].symbol = bar.symbol
    BY DEF CallsMatchTasks, ExitSteps, EntrySteps, Answered, BarExiting
  <1>y. t = "bar" /\ call["bar"].step \in EntrySteps =>
           ~BarExiting /\ bar.pc = "entry" /\ call["bar"].symbol = bar.symbol
    BY DEF CallsMatchTasks, ExitSteps, EntrySteps, Answered, BarExiting
  <1>z. t = "eod" => call["eod"].step \in ExitSteps
    BY ThreadCalls DEF CallsMatchTasks, ExitSteps, EntrySteps, Answered
  <1>u. used'["crash"] = 0 => used["crash"] = 0
    BY <1>t
  <1>i. \A s \in Symbols : InBook(s)' = InBook(s)
    BY <1>c DEF InBook, SymbolsOf
  <1>n. \A s \in Symbols : /\ InBook(s) \in 0 .. 1
                           /\ Entered(s) \in 0 .. 1 /\ Entered(s)' \in 0 .. 1
                           /\ Exited(s) \in 0 .. 1 /\ Exited(s)' \in 0 .. 1
    BY DEF InBook, Entered, Exited
  \* What is left to prove is about one symbol: the account grows by no more than
  \* the entry under way, the exit under way and the counted events.
  <1>q. SUFFICES /\ call'["bar"].step \in {"cancel", "sell"} => call'["bar"].qty > 0
                 /\ DryRun => held' = held
                 /\ ~DryRun => \A s \in Symbols :
                       held'[s] \in Int /\
                       held'[s] + Exited(s)' + Entered(s) + used["lost"] + used["fault"]
                          <= held[s] + Exited(s) + Entered(s)' + used'["lost"] + used'["fault"]
    <2>1. ASSUME NEW s \in Symbols, used'["crash"] = 0, DryRun, held' = held
          PROVE  held'[s] <= Inherited[s]
      BY <1>u, <2>1 DEF LotsKnown
    <2>2. ASSUME NEW s \in Symbols, used'["crash"] = 0, ~DryRun, held'[s] \in Int,
                 held'[s] + Exited(s)' + Entered(s) + used["lost"] + used["fault"]
                    <= held[s] + Exited(s) + Entered(s)' + used'["lost"] + used'["fault"]
          PROVE  held'[s] + Exited(s)' <= Inherited[s] + InBook(s)' + Entered(s)'
                                          + used'["lost"] + used'["fault"]
      <3>1. held[s] + Exited(s) <= Inherited[s] + InBook(s) + Entered(s)
                                    + used["lost"] + used["fault"]
        BY <1>u, <2>2 DEF LotsKnown
      <3>2. /\ held[s] \in Int /\ Inherited[s] \in Nat
            /\ used["lost"] \in Nat /\ used["fault"] \in Nat
            /\ used'["lost"] \in Nat /\ used'["fault"] \in Nat
        BY <1>t
      <3>3. InBook(s)' = InBook(s) /\ InBook(s) \in Int /\ Entered(s) \in Int
            /\ Entered(s)' \in Int /\ Exited(s) \in Int /\ Exited(s)' \in Int
        BY <1>i, <1>n
      <3> QED BY <2>2, <3>1, <3>2, <3>3
    <2>3. used'["crash"] = 0 => up'
      BY <1>c, <1>u DEF LotsKnown
    <2> QED BY <2>1, <2>2, <2>3 DEF LotsKnown
  <1>l. /\ used["lost"] \in Nat /\ used["fault"] \in Nat
        /\ used'["lost"] \in Nat /\ used'["fault"] \in Nat
        /\ used'["lost"] >= used["lost"] /\ used'["fault"] >= used["fault"]
    BY <1>t
  \* A step that only takes lots away and leaves the handler's call where it is.
  <1>k. ASSUME \A s \in Symbols : held'[s] \in Int /\ held'[s] <= held[s],
               \A s \in Symbols : Exited(s)' <= Exited(s) /\ Entered(s)' = Entered(s)
        PROVE  \A s \in Symbols :
                   held'[s] \in Int /\
                   held'[s] + Exited(s)' + Entered(s) + used["lost"] + used["fault"]
                      <= held[s] + Exited(s) + Entered(s)' + used'["lost"] + used'["fault"]
    BY <1>t, <1>n, <1>l, <1>k
  <1> USE CallEffects DEF db, broker, ghost
  <1>1. CASE ReadPositions(t)
    <2>1. held' = held /\ call[t].step = "positions"
      BY <1>1 DEF ReadPositions
    <2>2. t = "bar" => /\ call'["bar"].step \in {"cancel", "false"}
                       /\ call'["bar"].step = "cancel" => call'["bar"].qty > 0
      <3>1. CASE call' = [call EXCEPT ![t].step = "cancel",
                              ![t].qty = IF held[call[t].symbol] > 0
                                         THEN held[call[t].symbol] ELSE 1]
        BY <1>t, <3>1 DEF Call
      <3>2. CASE Step(t, "false")
        BY <1>t, <3>2
      <3> QED BY <1>1, <3>1, <3>2 DEF ReadPositions
    <2>3. \A s \in Symbols : Exited(s)' <= Exited(s) /\ Entered(s)' = Entered(s)
      BY <1>t, <1>c, <1>e, <1>x, <2>1, <2>2 DEF Exited, Entered, ExitSteps, BarExiting
    <2> QED BY <1>t, <1>e, <1>k, <2>1, <2>2, <2>3 DEF LotsKnown
  <1>2. CASE CancelOrders(t)
    <2>1. held' = held /\ call[t].step = "cancel"
      BY <1>2 DEF CancelOrders
    <2>2. t = "bar" => call'["bar"].step = "sell" /\ call'["bar"].qty > 0
      BY <1>2, <1>t DEF CancelOrders, LotsKnown
    <2>3. \A s \in Symbols : Exited(s)' <= Exited(s) /\ Entered(s)' = Entered(s)
      BY <1>t, <1>c, <1>e, <1>x, <2>1, <2>2 DEF Exited, Entered, ExitSteps, BarExiting
    <2> QED BY <1>t, <1>e, <1>k, <2>1, <2>2, <2>3 DEF LotsKnown
  <1>3. CASE SellOrder(t)
    <2> DEFINE sym == call[t].symbol
    <2>s. /\ call[t].step = "sell"
          /\ \/ held' = [held EXCEPT ![sym] = @ - call[t].qty] /\ Step(t, "recordExit")
             \/ held' = [held EXCEPT ![sym] = @ - call[t].qty] /\ Retry(t)
             \/ held' = held /\ Retry(t)
      BY <1>3 DEF SellOrder
    <2>d. ~DryRun
      BY <1>t, <2>s DEF CallsMatchTasks
    <2>q. call'[t].qty = call[t].qty
      BY <1>t, <2>s
    <2>h. \A s \in Symbols : held'[s] \in Int /\ held'[s] <= held[s]
      BY <1>t, <2>s
    <2>1. CASE t = "eod"
      <3>1. \A s \in Symbols : Exited(s)' <= Exited(s) /\ Entered(s)' = Entered(s)
        BY <1>c, <1>e, <1>n, <2>1 DEF Exited, Entered, BarExiting
      <3> QED BY <1>e, <1>k, <2>1, <2>d, <2>h, <3>1 DEF LotsKnown
    <2>2. CASE t = "bar" /\ Retry(t)
      <3>1. call'["bar"].step \in {"sell", "false"}
        BY <1>t, <2>s, <2>2
      <3>2. \A s \in Symbols : Exited(s)' <= Exited(s) /\ Entered(s)' = Entered(s)
        BY <1>c, <1>x, <2>s, <2>2, <3>1 DEF Exited, Entered, ExitSteps, BarExiting
      <3> QED BY <1>k, <2>d, <2>h, <2>s, <2>q, <2>2, <3>2 DEF LotsKnown
    <2>3. CASE /\ t = "bar" /\ Step(t, "recordExit")
               /\ held' = [held EXCEPT ![sym] = @ - call[t].qty]
      <3>1. call'["bar"].step = "recordExit"
        BY <1>t, <2>3
      <3>2. sym = bar.symbol /\ call["bar"].qty > 0 /\ bar.pc # "entry"
        BY <1>x, <2>s, <2>3 DEF ExitSteps, LotsKnown
      <3>3. \A s \in Symbols : Entered(s)' = Entered(s)
        BY <1>c, <3>2 DEF Entered
      <3>4. ASSUME NEW s \in Symbols
            PROVE  held'[s] + Exited(s)' <= held[s] + Exited(s)
        <4>1. CASE s = sym
          <5>1. held'[s] = held[s] - call["bar"].qty
            BY <1>t, <2>3, <4>1
          <5> QED BY <1>t, <1>n, <3>2, <5>1
        <4>2. CASE s # sym
          <5>1. held'[s] = held[s]
            BY <1>t, <2>3, <4>2
          <5>2. Exited(s)' = Exited(s)
            BY <1>c, <3>2, <4>2 DEF Exited
          <5> QED BY <1>t, <1>n, <5>1, <5>2
        <4> QED BY <4>1, <4>2
      <3> QED BY <1>t, <1>n, <1>l, <2>d, <2>h, <3>1, <3>3, <3>4
    <2> QED BY <1>t, <2>s, <2>1, <2>2, <2>3
  <1>4. CASE RecordExit(t)
    <2>1. held' = held /\ call[t].step = "recordExit"
      BY <1>4 DEF RecordExit
    <2>2. t = "bar" => call'["bar"].step \in {"true", "false"}
      BY <1>4, <1>t DEF RecordExit, RowNotClosed
    <2>3. \A s \in Symbols : Exited(s)' <= Exited(s) /\ Entered(s)' = Entered(s)
      BY <1>t, <1>c, <1>e, <1>x, <2>1, <2>2 DEF Exited, Entered, ExitSteps, BarExiting
    <2> QED BY <1>t, <1>e, <1>k, <2>1, <2>2, <2>3 DEF LotsKnown
  <1>5. CASE BuyOrder(t)
    <2>1. t = "bar" /\ call["bar"].step = "buy"
      BY <1>5, <1>t, <1>z DEF BuyOrder, ExitSteps
    <2>2. ~BarExiting /\ bar.pc = "entry" /\ call["bar"].symbol = bar.symbol
      BY <1>y, <2>1 DEF EntrySteps
    <2>3. ~DryRun
      BY <1>t, <2>1 DEF CallsMatchTasks
    <2>4. \A s \in Symbols : Exited(s)' = Exited(s) /\ Entered(s) = 0
      BY <1>c, <2>1, <2>2 DEF Exited, Entered, BarExiting
    <2>5. CASE held' = [held EXCEPT ![bar.symbol] = @ + 1] /\ Step("bar", "protect")
      <3>1. call'["bar"].step = "protect"
        BY <1>t, <2>5
      <3>2. \A s \in Symbols : Entered(s)' = IF s = bar.symbol THEN 1 ELSE 0
        BY <1>c, <2>2, <3>1 DEF Entered
      <3>3. \A s \in Symbols : held'[s] = IF s = bar.symbol THEN held[s] + 1 ELSE held[s]
        BY <1>t, <2>5
      <3> QED BY <1>t, <1>n, <1>l, <2>3, <2>4, <3>1, <3>2, <3>3
    <2>6. CASE held' = [held EXCEPT ![bar.symbol] = @ + 1] /\ Retry("bar") /\ Occurs("lost")
      <3>1. call'["bar"].step \in {"buy", "false"}
        BY <1>t, <2>1, <2>6
      <3>2. \A s \in Symbols : held'[s] \in Int /\ held'[s] <= held[s] + 1
        BY <1>t, <2>6
      <3>3. used'["lost"] = used["lost"] + 1
        BY <1>t, <2>6 DEF Occurs
      <3> QED BY <1>t, <1>n, <1>l, <2>3, <2>4, <3>1, <3>2, <3>3
    <2>7. CASE held' = held /\ Retry("bar")
      <3>1. call'["bar"].step \in {"buy", "false"}
        BY <1>t, <2>1, <2>7
      <3> QED BY <1>t, <1>n, <1>l, <2>3, <2>4, <2>7, <3>1
    <2> QED BY <1>5, <2>1, <2>2, <2>5, <2>6, <2>7 DEF BuyOrder
  <1>6. CASE ProtectEntry(t)
    <2>1. t = "bar" /\ held' = held /\ call["bar"].step = "protect"
      BY <1>6, <1>t, <1>z DEF ProtectEntry, ExitSteps
    <2>2. call'["bar"].step = "save"
      BY <1>6, <1>t, <2>1 DEF ProtectEntry
    <2>3. \A s \in Symbols : Exited(s)' <= Exited(s) /\ Entered(s)' = Entered(s)
      BY <1>c, <1>y, <2>1, <2>2 DEF Exited, Entered, EntrySteps, BarExiting
    <2> QED BY <1>t, <1>k, <2>1, <2>2, <2>3
  <1>7. CASE SaveTrade(t)
    <2>1. t = "bar" /\ held' = held /\ call["bar"].step = "save"
      BY <1>7, <1>t, <1>z DEF SaveTrade, ExitSteps
    <2>2. ~BarExiting /\ bar.pc = "entry"
      BY <1>y, <2>1 DEF EntrySteps
    <2>3. CASE call'["bar"].step = "true"
      <3>1. \A s \in Symbols : Exited(s)' <= Exited(s) /\ Entered(s)' = Entered(s)
        BY <1>c, <1>n, <2>1, <2>2, <2>3 DEF Exited, Entered, BarExiting
      <3> QED BY <1>t, <1>k, <2>1, <2>3, <3>1
    <2>4. CASE call'["bar"].step = "false" /\ Occurs("fault")
      <3>1. used'["fault"] = used["fault"] + 1
        BY <1>t, <2>4 DEF Occurs
      <3>2. \A s \in Symbols : Exited(s)' = 0
        BY <1>c, <2>2 DEF Exited, BarExiting
      <3> QED BY <1>t, <1>n, <1>l, <2>1, <2>4, <3>1, <3>2
    <2>5. call'["bar"].step = "true" \/ (call'["bar"].step = "false" /\ Occurs("fault"))
      BY <1>7, <1>t, <2>1 DEF SaveTrade, Call
    <2> QED BY <2>3, <2>4, <2>5
  <1> QED BY <1>1, <1>2, <1>3, <1>4, <1>5, <1>6, <1>7 DEF Thread

\* LotsKnown: what the account holds is inherited, in the book, on its way between
\* the two, or counted as lost.
LEMMA KnownStep ==
    /\ TypeOK
    /\ BookInv
    /\ CallsMatchTasks
    /\ EntryReserved
    /\ SnapshotCurrent
    /\ ExitsTracked
    /\ LotsKnown
    /\ [Next]_vars
    => LotsKnown'
  <1> SUFFICES ASSUME TypeOK, BookInv, CallsMatchTasks, EntryReserved, SnapshotCurrent,
                      ExitsTracked, LotsKnown, [Next]_vars
               PROVE  LotsKnown'
    OBVIOUS
  <1>t. /\ bar \in BarState
        /\ call \in [Tasks -> Call]
        /\ held \in [Symbols -> Int]
        /\ used \in [Events -> Nat]
        /\ openPositions \subseteq Position
        /\ "bar" \in Tasks /\ "eod" \in Tasks /\ Tasks = {"bar", "eod"}
        /\ {"lost", "fault", "crash"} \subseteq Events
        /\ Inherited \in [Symbols -> Nat]
    BY LiveAssumption DEF TypeOK, Tasks, LiveAssumption, Events
  <1>u. \A e \in Events : used'[e] \in Nat /\ used'[e] >= used[e]
    BY UsedGrows
  <1>c. used'["crash"] = 0 => used["crash"] = 0
    BY <1>t, <1>u
  <1>l. /\ used["lost"] \in Nat /\ used["fault"] \in Nat
        /\ used'["lost"] \in Nat /\ used'["fault"] \in Nat
        /\ used'["lost"] >= used["lost"] /\ used'["fault"] >= used["fault"]
    BY <1>t, <1>u
  <1>n. ~BarExiting /\ bar.pc # "entry" => call["bar"].step = "none"
    BY DEF CallsMatchTasks, BarExiting
  <1>i. \A s \in Symbols : /\ InBook(s) \in 0 .. 1 /\ InBook(s)' \in 0 .. 1
                           /\ Entered(s) \in 0 .. 1 /\ Entered(s)' \in 0 .. 1
                           /\ Exited(s) \in 0 .. 1 /\ Exited(s)' \in 0 .. 1
    BY DEF InBook, Entered, Exited
  \* A step that brings no lots into the account and accounts for those there are.
  <1>k. ASSUME used'["crash"] = 0 => up',
               call'["bar"].step \in {"cancel", "sell"} => call'["bar"].qty > 0,
               \A s \in Symbols : held'[s] \in Int /\ held'[s] <= held[s],
               ~DryRun => \A s \in Symbols : Exited(s)' + InBook(s) + Entered(s)
                                <= Exited(s) + InBook(s)' + Entered(s)'
        PROVE  LotsKnown'
    <2>1. ASSUME NEW s \in Symbols, used'["crash"] = 0, DryRun
          PROVE  held'[s] <= Inherited[s]
      <3>1. held[s] <= Inherited[s] /\ held[s] \in Int /\ Inherited[s] \in Nat
        BY <1>c, <1>t, <2>1 DEF LotsKnown
      <3> QED BY <1>k, <3>1
    <2>2. ASSUME NEW s \in Symbols, used'["crash"] = 0, ~DryRun
          PROVE  held'[s] + Exited(s)' <= Inherited[s] + InBook(s)' + Entered(s)'
                                          + used'["lost"] + used'["fault"]
      <3>1. /\ held[s] + Exited(s) <= Inherited[s] + InBook(s) + Entered(s)
                                       + used["lost"] + used["fault"]
            /\ held[s] \in Int /\ Inherited[s] \in Nat
        BY <1>c, <1>t, <2>2 DEF LotsKnown
      <3>2. /\ held'[s] \in Int /\ held'[s] <= held[s]
            /\ Exited(s)' + InBook(s) + Entered(s) <= Exited(s) + InBook(s)' + Entered(s)'
        BY <1>k, <2>2
      <3>3. /\ InBook(s) \in Int /\ InBook(s)' \in Int /\ Entered(s) \in Int
            /\ Entered(s)' \in Int /\ Exited(s) \in Int /\ Exited(s)' \in Int
        BY <1>i
      <3> QED BY <1>l, <3>1, <3>2, <3>3
    <2> QED BY <1>k, <2>1, <2>2 DEF LotsKnown
  <1>p. up' = up => (used'["crash"] = 0 => up')
    BY <1>c DEF LotsKnown
  <1>h. held' = held => \A s \in Symbols : held'[s] \in Int /\ held'[s] <= held[s]
    BY <1>t
  <1>b. openPositions' = openPositions => \A s \in Symbols : InBook(s)' = InBook(s)
    BY DEF InBook, SymbolsOf
  <1>1. CASE BarQuiet
    <2>1. /\ call' = call /\ openPositions' = openPositions /\ up' = up
          /\ call["bar"].step = "none"
      BY <1>1, <1>n, QuietFrame DEF QuietStep, BarOnLoopPcs, BarExiting, book
    <2>2. \A s \in Symbols : /\ Exited(s) = 0 /\ Exited(s)' = 0
                             /\ Entered(s) = 0 /\ Entered(s)' = 0
                             /\ InBook(s)' = InBook(s)
      BY <1>b, <2>1 DEF Exited, Entered
    <2>3. CASE held' = held
      <3>1. \A s \in Symbols : Exited(s)' + InBook(s) + Entered(s)
                                <= Exited(s) + InBook(s)' + Entered(s)'
        BY <1>i, <2>2
      <3> QED BY <1>k, <1>p, <1>h, <2>1, <2>3, <3>1
    <2>4. CASE held' = [s \in Symbols |-> 0]
      <3>1. ASSUME NEW s \in Symbols
            PROVE  /\ held'[s] <= Inherited[s]
                   /\ held'[s] + Exited(s)' <= Inherited[s] + InBook(s)' + Entered(s)'
                                               + used'["lost"] + used'["fault"]
        <4>1. held'[s] = 0 /\ Inherited[s] \in Nat /\ InBook(s)' \in 0 .. 1
          BY <1>t, <1>i, <2>4
        <4> QED BY <1>l, <2>2, <4>1
      <3> QED BY <1>p, <2>1, <3>1 DEF LotsKnown
    <2> QED BY <1>1, <2>3, <2>4, QuietHeld
  <1>2. ASSUME NEW p \in bar.todo, StopHit(p) PROVE LotsKnown'
    <2>1. call'["bar"].step = IF DryRun THEN "recordExit" ELSE "positions"
      BY <1>2, <1>t, CallEffects DEF StopHit, SnapshotCurrent
    <2>2. /\ bar'.pc = "stopExit" /\ bar.pc = "stops" /\ call["bar"].step = "none"
          /\ UNCHANGED <<openPositions, held, up>>
      BY <1>2, <1>t, <1>n DEF StopHit, BarState, BarExiting, book, broker
    <2>3. ~DryRun => \A s \in Symbols : Exited(s)' + InBook(s) + Entered(s)
                                <= Exited(s) + InBook(s)' + Entered(s)'
      BY <1>i, <1>b, <2>1, <2>2 DEF Exited, Entered
    <2> QED BY <1>k, <1>p, <1>h, <2>1, <2>2, <2>3
  <1>3. ASSUME NEW g \in bar.signals, ExitAccepted(g) PROVE LotsKnown'
    <2>1. call'["bar"].step = IF DryRun THEN "recordExit" ELSE "positions"
      BY <1>3, <1>t, CallEffects DEF ExitAccepted
    <2>2. /\ bar'.pc = "signalExit" /\ bar.pc = "signals" /\ call["bar"].step = "none"
          /\ UNCHANGED <<openPositions, held, up>>
      BY <1>3, <1>t, <1>n DEF ExitAccepted, BarState, BarExiting, book, broker
    <2>3. ~DryRun => \A s \in Symbols : Exited(s)' + InBook(s) + Entered(s)
                                <= Exited(s) + InBook(s)' + Entered(s)'
      BY <1>i, <1>b, <2>1, <2>2 DEF Exited, Entered
    <2> QED BY <1>k, <1>p, <1>h, <2>1, <2>2, <2>3
  <1>4. CASE AccountReturned
    <2>1. /\ bar.pc = "account" /\ bar'.pc \in {"signals", "entry"}
          /\ call["bar"].step = "none" /\ UNCHANGED <<openPositions, held, up>>
      BY <1>4, <1>t, <1>n DEF AccountReturned, BarState, BarExiting, book, broker
    <2>2. call'["bar"].step = IF bar'.pc = "signals" THEN "none"
                              ELSE IF DryRun THEN "save" ELSE "buy"
      BY <1>4, <1>t, <2>1, EntryEffect DEF AccountReturned, BarState
    <2>3. ~DryRun => \A s \in Symbols : Exited(s)' + InBook(s) + Entered(s)
                                <= Exited(s) + InBook(s)' + Entered(s)'
      BY <1>i, <1>b, <2>1, <2>2 DEF Exited, Entered
    <2> QED BY <1>k, <1>p, <1>h, <2>1, <2>2, <2>3
  <1>5. CASE EntryReturned
    <2>1. /\ call'["bar"].step = "none" /\ bar.pc = "entry" /\ bar'.pc = "signals"
          /\ UNCHANGED <<held, up>>
      BY <1>5, <1>t DEF EntryReturned, AddPosition, BarState, NoCall, broker
    <2>2. \A s \in Symbols : /\ Exited(s) = 0 /\ Exited(s)' = 0 /\ Entered(s)' = 0
      BY <2>1 DEF Exited, Entered, BarExiting
    <2>3. CASE Returned("bar", "false") /\ UNCHANGED book
      <3>1. \A s \in Symbols : Entered(s) = 0 /\ InBook(s)' = InBook(s)
        BY <1>b, <2>3 DEF Returned, Entered, book
      <3>2. \A s \in Symbols : Exited(s)' + InBook(s) + Entered(s)
                                <= Exited(s) + InBook(s)' + Entered(s)'
        BY <1>i, <2>2, <3>1
      <3> QED BY <1>k, <1>p, <1>h, <2>1, <3>2
    <2>4. CASE Returned("bar", "true") /\ AddPosition
      <3>1. \A s \in Symbols : Entered(s) = IF s = bar.symbol THEN 1 ELSE 0
        BY <2>1, <2>4 DEF Returned, Entered
      <3>2. bar.symbol \notin SymbolsOf(openPositions)
        BY <2>1 DEF EntryReserved, BookInv, OrdersMatchPositions
      <3>3. SymbolsOf(openPositions)' = SymbolsOf(openPositions) \union {bar.symbol}
        <4> DEFINE new == [symbol |-> bar.symbol, layer |-> bar.layer,
                           trade |-> call["bar"].trade, day |-> day]
        <4>1. openPositions' = openPositions \union {new} /\ new.symbol = bar.symbol
          BY <2>4 DEF AddPosition
        <4> HIDE DEF new
        <4> QED BY <4>1 DEF SymbolsOf
      <3>4. \A s \in Symbols : InBook(s)' = IF s = bar.symbol THEN 1 ELSE InBook(s)
        BY <3>3 DEF InBook
      <3>5. \A s \in Symbols : Exited(s)' + InBook(s) + Entered(s)
                                <= Exited(s) + InBook(s)' + Entered(s)'
        BY <1>i, <2>2, <3>1, <3>2, <3>4 DEF InBook
      <3> QED BY <1>k, <1>p, <1>h, <2>1, <3>5
    <2> QED BY <1>5, <2>3, <2>4 DEF EntryReturned
  <1>6. CASE ExitReturned
    <2>1. /\ call'["bar"].step = "none" /\ BarExiting /\ bar.pc # "entry"
          /\ UNCHANGED <<held, up>>
      BY <1>6, <1>t DEF ExitReturned, RemovePosition, BarState, NoCall, BarExiting, broker
    <2>2. \A s \in Symbols : Entered(s) = 0 /\ Exited(s)' = 0 /\ Entered(s)' = 0
      BY <2>1 DEF Exited, Entered
    <2>3. CASE Returned("bar", "false") /\ UNCHANGED book
      <3>1. \A s \in Symbols : Exited(s)' + InBook(s) + Entered(s)
                                <= Exited(s) + InBook(s)' + Entered(s)'
        BY <1>i, <1>b, <2>2, <2>3 DEF book
      <3> QED BY <1>k, <1>p, <1>h, <2>1, <3>1
    <2>4. CASE Returned("bar", "true") /\ RemovePosition
      <3>1. \A s \in Symbols : Exited(s) = IF s = bar.symbol THEN 1 ELSE 0
        BY <2>1, <2>4 DEF Returned, Exited
      <3>2. \A s \in Symbols : s # bar.symbol /\ s \in SymbolsOf(openPositions)
                                  => s \in SymbolsOf(openPositions)'
        BY <2>4 DEF RemovePosition, SymbolsOf
      <3>3. \A s \in Symbols : s # bar.symbol => InBook(s)' >= InBook(s)
        BY <1>i, <3>2 DEF InBook
      <3>4. \A s \in Symbols : Exited(s)' + InBook(s) + Entered(s)
                                <= Exited(s) + InBook(s)' + Entered(s)'
        BY <1>i, <2>2, <3>1, <3>3
      <3> QED BY <1>k, <1>p, <1>h, <2>1, <3>4
    <2> QED BY <1>6, <2>3, <2>4 DEF ExitReturned
  <1>7. ASSUME NEW t \in Tasks, Thread(t) PROVE LotsKnown'
    BY <1>7, <1>u, KnownThread
  \* The other steps of a running process leave the handler, its call and the book.
  <1>s. ASSUME UNCHANGED <<openPositions, bar, call["bar"], up>>,
               \A s \in Symbols : held'[s] \in Int /\ held'[s] <= held[s]
        PROVE  LotsKnown'
    <2>1. \A s \in Symbols : /\ Exited(s)' = Exited(s) /\ Entered(s)' = Entered(s)
                             /\ InBook(s)' = InBook(s)
      BY <1>b, <1>s DEF Exited, Entered, BarExiting
    <2>2. \A s \in Symbols : Exited(s)' + InBook(s) + Entered(s)
                                <= Exited(s) + InBook(s)' + Entered(s)'
      BY <1>i, <2>1
    <2>3. call'["bar"].step \in {"cancel", "sell"} => call'["bar"].qty > 0
      BY <1>s DEF LotsKnown
    <2> QED BY <1>k, <1>p, <1>s, <2>2, <2>3
  <1>8. CASE EodStep
    BY <1>8, <1>h, <1>s, EodFrame DEF book
  <1>9. ASSUME NEW x \in Symbols, BarArrives(x) PROVE LotsKnown'
    <2>1. /\ bar'.pc = "stops" /\ bar.pc = "idle" /\ call["bar"].step = "none"
          /\ UNCHANGED <<openPositions, call, held, up>>
      BY <1>9, <1>n DEF BarArrives, IdleBar, BarExiting, book, broker
    <2>2. \A s \in Symbols : Exited(s)' + InBook(s) + Entered(s)
                                <= Exited(s) + InBook(s)' + Entered(s)'
      BY <1>i, <1>b, <2>1 DEF Exited, Entered
    <2> QED BY <1>k, <1>p, <1>h, <2>1, <2>2
  <1>10. CASE EodStarts
    BY <1>10, <1>h, <1>s DEF EodStarts, book, broker
  <1>11. CASE Outside
    <2>1. UNCHANGED <<openPositions, bar, call, up>>
      BY <1>11, OutsideFrame DEF book
    <2>2. \A s \in Symbols : held'[s] \in Int /\ held'[s] <= held[s]
      BY <1>11, <1>t DEF Outside, StopFills, TurnsLate, HoursEnd, NextSession, ResetBreaker, broker
    <2> QED BY <1>s, <2>1, <2>2
  <1>12. CASE Crash
    <2>1. used'["crash"] # 0
      BY <1>12, <1>t DEF Crash, Occurs
    <2>2. call'["bar"].step = "none"
      BY <1>12, <1>t DEF Crash, NoCall
    <2> QED BY <2>1, <2>2 DEF LotsKnown
  <1>13. CASE Startup
    <2>1. used["crash"] # 0 /\ call' = call
      BY <1>13 DEF Startup, LotsKnown
    <2> QED BY <1>c, <2>1 DEF LotsKnown
  <1>14. CASE UNCHANGED vars
    BY <1>14, <1>h, <1>s DEF vars, book, broker
  <1> QED BY <1>1, <1>2, <1>3, <1>4, <1>5, <1>6, <1>7, <1>8, <1>9, <1>10, <1>11, <1>12,
             <1>13, <1>14, NextCases

-----------------------------------------------------------------------------
\* What was admitted as a day trade

\* The rolling count is a number.
LEMMA RollingCounted ==
    ASSUME TypeOK
    PROVE  /\ IsFiniteSet({i \in DOMAIN dayTrades : dayTrades[i] >= day - Window})
           /\ RollingCount \in Nat
  <1> DEFINE C == {i \in DOMAIN dayTrades : dayTrades[i] >= day - Window}
  <1>1. DOMAIN dayTrades = 1 .. Len(dayTrades) /\ Len(dayTrades) \in Int
    BY DEF TypeOK
  <1>2. IsFiniteSet(DOMAIN dayTrades)
    BY <1>1, FS_Interval
  <1>3. C \subseteq DOMAIN dayTrades
    OBVIOUS
  <1>4. RollingCount = Cardinality(C)
    BY DEF RollingCount
  <1> HIDE DEF C
  <1>5. IsFiniteSet(C)
    BY <1>2, <1>3, FS_Subset
  <1> QED BY <1>4, <1>5, FS_CardinalityType DEF C

\* It shrinks as days pass, grows by one with each record, and is zero when the
\* process starts.
LEMMA RollingCounts ==
    ASSUME TypeOK, TypeOK'
    PROVE  /\ RollingCount \in Nat /\ RollingCount' \in Nat
           /\ dayTrades' = dayTrades /\ day' >= day => RollingCount' <= RollingCount
           /\ dayTrades' = Append(dayTrades, day) /\ day' = day =>
                  RollingCount' <= RollingCount + 1
           /\ dayTrades' = <<>> => RollingCount' = 0
  <1> DEFINE C == {i \in DOMAIN dayTrades : dayTrades[i] >= day - Window}
  <1> DEFINE D == {i \in DOMAIN dayTrades' : dayTrades'[i] >= day' - Window}
  <1>t. /\ dayTrades \in Seq(Nat) /\ dayTrades' \in Seq(Nat)
        /\ day \in Nat /\ day' \in Nat /\ Window \in Nat
    BY LiveAssumption DEF TypeOK, LiveAssumption
  <1>1. RollingCount = Cardinality(C) /\ RollingCount' = Cardinality(D)
    BY DEF RollingCount
  <1>2. IsFiniteSet(C) /\ IsFiniteSet(D)
    <2>1. IsFiniteSet(D)
      <3>1. IsFiniteSet({i \in DOMAIN dayTrades : dayTrades[i] >= day - Window})'
        BY RollingCounted, PTL
      <3> QED BY <3>1
    <2> QED BY <2>1, RollingCounted
  <1>3. Cardinality(C) \in Nat /\ Cardinality(D) \in Nat
    BY <1>2, FS_CardinalityType
  <1>4. ASSUME dayTrades' = dayTrades, day' >= day PROVE Cardinality(D) <= Cardinality(C)
    <2>1. D \subseteq C
      BY <1>t, <1>4
    <2> HIDE DEF C, D
    <2> QED BY <1>2, <2>1, FS_Subset
  <1>5. ASSUME dayTrades' = Append(dayTrades, day), day' = day
        PROVE  Cardinality(D) <= Cardinality(C) + 1
    <2> DEFINE n == Len(dayTrades) + 1
    <2>1. D \subseteq C \union {n}
      <3>1. ASSUME NEW i \in D PROVE i \in C \union {n}
        BY <1>t, <1>5
      <3> QED BY <3>1
    <2> HIDE DEF C, D, n
    <2>2. /\ IsFiniteSet(C \union {n})
          /\ Cardinality(C \union {n}) <= Cardinality(C) + 1
      BY <1>2, <1>3, FS_AddElement
    <2>3. Cardinality(D) <= Cardinality(C \union {n})
      BY <2>1, <2>2, FS_Subset
    <2>4. Cardinality(C \union {n}) \in Nat
      BY <2>2, FS_CardinalityType
    <2> QED BY <1>3, <2>2, <2>3, <2>4
  <1>6. ASSUME dayTrades' = <<>> PROVE Cardinality(D) = 0
    <2>1. D = {}
      BY <1>6
    <2> HIDE DEF D
    <2> QED BY <2>1, FS_EmptySet
  <1> HIDE DEF C, D
  <1> QED BY <1>1, <1>3, <1>4, <1>5, <1>6

\* A thread keeps what its call was told about the day trade; only the record of the
\* exit makes the deque longer.
LEMMA ThreadDayTrades ==
    ASSUME TypeOK, NEW t \in Tasks, Thread(t)
    PROVE  /\ call'[t].dayTrade = call[t].dayTrade
           /\ \/ dayTrades' = dayTrades
              \/ /\ dayTrades' = Append(dayTrades, day)
                 /\ call[t].step = "recordExit" /\ call[t].dayTrade /\ ~DryRun
                 /\ call'[t].step = "true"
  <1> USE DEF Returned
  <1>t. call \in [Tasks -> Call] /\ {"true", "false"} \subseteq CallSteps
    BY DEF TypeOK, CallSteps
  <1>s. \A x \in CallSteps : Step(t, x) => call'[t].dayTrade = call[t].dayTrade /\ call'[t].step = x
    BY <1>t DEF Step, Call
  <1>r. Retry(t) => call'[t].dayTrade = call[t].dayTrade
    BY <1>t, <1>s DEF Retry, Call
  <1>c. {"sell", "recordExit", "protect", "save"} \subseteq CallSteps
    BY DEF CallSteps, ExitSteps, EntrySteps
  <1>1. CASE ReadPositions(t)
    <2>1. call'[t].dayTrade = call[t].dayTrade
      <3>1. CASE call' = [call EXCEPT ![t].step = "cancel",
                              ![t].qty = IF held[call[t].symbol] > 0
                                         THEN held[call[t].symbol] ELSE 1]
        BY <1>t, <3>1 DEF Call
      <3> QED BY <1>1, <1>t, <1>s, <3>1 DEF ReadPositions
    <2> QED BY <1>1, <2>1 DEF ReadPositions
  <1>2. CASE CancelOrders(t)
    BY <1>2, <1>c, <1>s DEF CancelOrders
  <1>3. CASE SellOrder(t)
    BY <1>3, <1>c, <1>s, <1>r DEF SellOrder
  <1>4. CASE RecordExit(t)
    BY <1>4, <1>t, <1>s DEF RecordExit, RowNotClosed
  <1>5. CASE BuyOrder(t)
    BY <1>5, <1>c, <1>s, <1>r DEF BuyOrder
  <1>6. CASE ProtectEntry(t)
    BY <1>6, <1>c, <1>s DEF ProtectEntry
  <1>7. CASE SaveTrade(t)
    <2>1. call'[t].dayTrade = call[t].dayTrade
      <3>1. CASE call' = [call EXCEPT ![t].step = "true", ![t].trade = nextTrade]
        BY <1>t, <3>1 DEF Call
      <3> QED BY <1>7, <1>t, <1>s, <3>1 DEF SaveTrade
    <2> QED BY <1>7, <2>1 DEF SaveTrade
  <1> QED BY <1>1, <1>2, <1>3, <1>4, <1>5, <1>6, <1>7 DEF Thread

\* DayTradesAdmitted: each task admits a day trade below the limit, and has at most
\* one on its way when the other one admits its own.
LEMMA AdmittedStep ==
    /\ TypeOK
    /\ CallsMatchTasks
    /\ SnapshotCurrent
    /\ DayTradesAdmitted
    /\ [Next]_vars
    => DayTradesAdmitted'
  <1> SUFFICES ASSUME TypeOK, CallsMatchTasks, SnapshotCurrent, DayTradesAdmitted, [Next]_vars
               PROVE  DayTradesAdmitted'
    OBVIOUS
  <1>t. /\ bar \in BarState
        /\ eod \in EodState
        /\ call \in [Tasks -> Call]
        /\ openPositions \subseteq Position
        /\ day \in Nat /\ MaxDayTrades \in Nat
        /\ "bar" \in Tasks /\ "eod" \in Tasks /\ Tasks = {"bar", "eod"}
    BY LiveAssumption DEF TypeOK, Tasks, LiveAssumption
  <1>f. \A t \in Tasks : InFlight(t) \in 0 .. 1 /\ InFlight(t)' \in 0 .. 1
    BY DEF InFlight
  <1>r. /\ RollingCount \in Nat /\ RollingCount' \in Nat
        /\ dayTrades' = dayTrades /\ day' >= day => RollingCount' <= RollingCount
        /\ dayTrades' = Append(dayTrades, day) /\ day' = day => RollingCount' <= RollingCount + 1
        /\ dayTrades' = <<>> => RollingCount' = 0
    BY TypeStep, RollingCounts
  \* A step that admits none.
  <1>k. ASSUME RollingCount' <= RollingCount,
               \A t \in Tasks : InFlight(t)' <= InFlight(t)
        PROVE  DayTradesAdmitted'
    BY <1>t, <1>f, <1>r, <1>k DEF DayTradesAdmitted
  <1>u. \A t \in Tasks : call'[t] = call[t] => InFlight(t)' = InFlight(t)
    BY DEF InFlight
  <1>z. \A t \in Tasks : call'[t].step \notin ExitSteps => InFlight(t)' = 0
    BY DEF InFlight
  <1>d. dayTrades' = dayTrades /\ day' = day => RollingCount' <= RollingCount
    BY <1>t, <1>r
  \* The start of an exit.
  <1>a. ASSUME NEW t \in Tasks, NEW p \in Position, StartExit(t, p), CanExit(p),
               UNCHANGED <<dayTrades, day>>
        PROVE  DayTradesAdmitted'
    <2>1. /\ call'[t].dayTrade = IsDayTrade(p)
          /\ \A v \in Tasks \ {t} : call'[v] = call[v]
      BY <1>t, <1>a DEF StartExit
    <2>2. \A v \in Tasks \ {t} : InFlight(v)' = InFlight(v)
      BY <1>u, <2>1
    <2>3. RollingCount' <= RollingCount
      BY <1>a, <1>d
    <2>4. CASE DryRun \/ ~IsDayTrade(p)
      <3>1. InFlight(t)' = 0
        BY <2>1, <2>4 DEF InFlight
      <3>2. \A v \in Tasks : InFlight(v)' <= InFlight(v)
        BY <1>f, <2>2, <3>1
      <3> QED BY <1>k, <2>3, <3>2
    <2>5. CASE IsDayTrade(p)
      <3>1. SharedGuard => RollingCount < MaxDayTrades
        BY <1>a, <2>5 DEF CanExit, GuardCount
      <3> QED BY <1>t, <1>f, <1>r, <2>3, <3>1 DEF DayTradesAdmitted
    <2> QED BY <2>4, <2>5
  <1>1. CASE BarQuiet
    <2>1. UNCHANGED <<call, dayTrades, day>>
      BY <1>1, QuietFrame DEF QuietStep, clock
    <2> QED BY <1>d, <1>f, <1>k, <1>u, <2>1
  <1>2. ASSUME NEW p \in bar.todo, StopHit(p) PROVE DayTradesAdmitted'
    <2>1. p \in Position
      BY <1>2, <1>t DEF BarState
    <2> QED BY <1>2, <1>a, <1>t, <2>1 DEF StopHit, clock
  <1>3. ASSUME NEW g \in bar.signals, ExitAccepted(g) PROVE DayTradesAdmitted'
    BY <1>3, <1>a, <1>t DEF ExitAccepted, clock
  <1>4. CASE AccountReturned
    <2>1. /\ call'["eod"] = call["eod"] /\ UNCHANGED <<dayTrades, day>>
          /\ call'["bar"] = call["bar"] \/ call'["bar"].step \in {"save", "buy"}
      BY <1>4, <1>t, EntryEffect DEF AccountReturned, BarState, clock
    <2>2. InFlight("bar")' <= InFlight("bar")
      BY <1>t, <1>f, <1>u, <1>z, <2>1 DEF ExitSteps
    <2> QED BY <1>d, <1>f, <1>k, <1>t, <1>u, <2>1, <2>2
  <1>5. CASE EntryReturned \/ ExitReturned
    <2>1. /\ call'["eod"] = call["eod"] /\ call'["bar"].step = "none"
          /\ UNCHANGED <<dayTrades, day>>
      BY <1>5, <1>t DEF EntryReturned, ExitReturned, NoCall, clock
    <2>2. InFlight("bar")' <= InFlight("bar")
      BY <1>t, <1>f, <1>z, <2>1 DEF ExitSteps
    <2> QED BY <1>d, <1>f, <1>k, <1>t, <1>u, <2>1, <2>2
  <1>6. ASSUME NEW t \in Tasks, Thread(t) PROVE DayTradesAdmitted'
    <2>1. /\ \A v \in Tasks \ {t} : call'[v] = call[v]
          /\ call'[t].step \in ExitSteps => call[t].step \in ExitSteps
          /\ day' = day
      BY <1>6, ThreadCalls DEF ExitSteps, EntrySteps, Answered, clock
    <2>2. \A v \in Tasks \ {t} : InFlight(v)' = InFlight(v)
      BY <1>u, <2>1
    <2>3. InFlight(t)' <= InFlight(t)
      BY <1>6, <1>f, <2>1, ThreadDayTrades DEF InFlight
    <2>4. CASE dayTrades' = dayTrades
      <3>1. \A v \in Tasks : InFlight(v)' <= InFlight(v)
        BY <1>f, <2>2, <2>3
      <3> QED BY <1>d, <1>k, <2>1, <2>4, <3>1
    <2>5. CASE /\ dayTrades' = Append(dayTrades, day)
               /\ call[t].step = "recordExit" /\ call[t].dayTrade /\ ~DryRun
               /\ call'[t].step = "true"
      <3>1. InFlight(t) = 1 /\ InFlight(t)' = 0
        BY <2>5 DEF InFlight, ExitSteps
      <3>2. RollingCount' <= RollingCount + 1
        BY <1>r, <2>1, <2>5
      <3>3. t = "bar" \/ t = "eod"
        BY <1>t
      <3> QED BY <1>t, <1>f, <1>r, <2>2, <3>1, <3>2, <3>3 DEF DayTradesAdmitted
    <2> QED BY <1>6, <2>4, <2>5, ThreadDayTrades
  <1>7. CASE EodStep
    <2>0. UNCHANGED <<dayTrades, day>> /\ call'["bar"] = call["bar"]
      BY <1>7, EodFrame DEF clock
    <2>1. ASSUME NEW p \in eod.todo, EodSells(p) PROVE DayTradesAdmitted'
      BY <1>a, <1>t, <2>0, <2>1 DEF EodSells, EodState
    <2>2. CASE call' = call
      BY <1>d, <1>f, <1>k, <1>u, <2>0, <2>2
    <2>3. CASE EodExitReturned
      <3>1. call'["eod"].step = "none"
        BY <1>t, <2>3 DEF EodExitReturned, NoCall
      <3>2. InFlight("eod")' <= InFlight("eod")
        BY <1>t, <1>f, <1>z, <3>1 DEF ExitSteps
      <3> QED BY <1>d, <1>f, <1>k, <1>t, <1>u, <2>0, <3>2
    <2>4. ASSUME NEW p \in eod.todo, EodKeeps(p) PROVE call' = call
      BY <2>4 DEF EodKeeps
    <2> QED BY <1>7, <2>1, <2>2, <2>3, <2>4 DEF EodStep, EodSweepDone, EodCancels
  <1>8. ASSUME NEW s \in Symbols, BarArrives(s) PROVE DayTradesAdmitted'
    BY <1>8, <1>d, <1>f, <1>k, <1>u DEF BarArrives, clock
  <1>9. CASE EodStarts
    BY <1>9, <1>d, <1>f, <1>k, <1>u DEF EodStarts, clock
  <1>10. CASE Outside
    <2>1. call' = call /\ dayTrades' = dayTrades /\ day' >= day
      BY <1>10, <1>t, OutsideFrame
         DEF Outside, StopFills, TurnsLate, HoursEnd, NextSession, ResetBreaker, clock
    <2> QED BY <1>f, <1>k, <1>r, <1>u, <2>1
  <1>11. CASE Crash
    <2>1. dayTrades' = <<>> /\ \A t \in Tasks : call'[t].step = "none"
      BY <1>11 DEF Crash, NoCall
    <2>2. \A t \in Tasks : InFlight(t)' = 0
      BY <1>z, <2>1 DEF ExitSteps
    <2> QED BY <1>f, <1>k, <1>r, <2>1, <2>2
  <1>12. CASE Startup
    BY <1>12, <1>d, <1>f, <1>k, <1>u DEF Startup, clock
  <1>13. CASE UNCHANGED vars
    BY <1>13, <1>d, <1>f, <1>k, <1>u DEF vars, clock
  <1> QED BY <1>1, <1>2, <1>3, <1>4, <1>5, <1>6, <1>7, <1>8, <1>9, <1>10, <1>11, <1>12,
             <1>13, NextCases

-----------------------------------------------------------------------------
\* What the end-of-day close covers

\* NoGatedEntry: what BarDispatcher let through late is not of a time-gated layer,
\* and what it let through earlier was handled before the hour struck.
LEMMA GatedStep == TypeOK /\ NoGatedEntry /\ [Next]_vars => NoGatedEntry'
  <1> SUFFICES ASSUME TypeOK, NoGatedEntry, [Next]_vars PROVE NoGatedEntry'
    OBVIOUS
  <1>t. bar \in BarState
    BY DEF TypeOK
  <1> USE DEF NoGatedEntry, clock
  <1>1. ASSUME NEW p \in bar.todo, StopSkipped(p) \/ StopHit(p) PROVE NoGatedEntry'
    <2>1. bar'.signals = bar.signals /\ bar'.pc \in {"stops", "stopExit"} /\ hours' = hours
      <3>1. CASE StopSkipped(p)
        BY <3>1, <1>t DEF StopSkipped, BarState
      <3>2. CASE StopHit(p)
        BY <3>2, <1>t DEF StopHit, BarState
      <3> QED BY <1>1, <3>1, <3>2
    <2> QED BY <2>1
  <1>2. ASSUME NEW g \in bar.signals, SignalDropped(g) PROVE NoGatedEntry'
    <2>1. bar'.signals \subseteq bar.signals /\ bar'.pc = "signals" /\ hours' = hours
      BY <1>2, <1>t DEF SignalDropped, BarState
    <2> QED BY <2>1
  <1>3. ASSUME NEW g \in bar.signals, BuyAccepted(g) PROVE NoGatedEntry'
    <2>1. /\ bar'.signals \subseteq bar.signals /\ bar'.pc = "account"
          /\ bar'.layer = g.layer /\ g.side = "BUY" /\ hours' = hours
      BY <1>3, <1>t DEF BuyAccepted, BarState
    <2> QED BY <1>3, <2>1
  <1>4. ASSUME NEW g \in bar.signals, ExitAccepted(g) PROVE NoGatedEntry'
    <2>1. bar'.signals \subseteq bar.signals /\ bar'.pc = "signalExit" /\ hours' = hours
      BY <1>4, <1>t DEF ExitAccepted, BarState
    <2> QED BY <2>1
  <1>5. CASE Dispatch
    <2>1. hours' = hours
      BY <1>5, ZenonT(30) DEF Dispatch
    <2>2. CASE bar' = IdleBar
      BY <2>2 DEF IdleBar
    <2>3. ASSUME NEW emitted \in [Layers -> {"HOLD", "BUY", "EXIT"}],
                 bar' = [bar EXCEPT !.pc = "signals", !.signals =
                    {g \in Signal :
                        /\ emitted[g.layer] = g.side
                        /\ g.side = "BUY" => Dispatchable(bar.symbol, g.layer)}]
          PROVE  NoGatedEntry'
      <3>1. bar'.pc = "signals"
        BY <1>t, <2>3 DEF BarState
      <3>2. \A g \in bar'.signals : g.side = "BUY" => Dispatchable(bar.symbol, g.layer)
        BY <1>t, <2>3 DEF BarState
      <3> QED BY <2>1, <3>1, <3>2 DEF Dispatchable
    <2> QED BY <1>5, <2>2, <2>3, ZenonT(30) DEF Dispatch
  <1>6. CASE AccountReturned
    <2>1. /\ bar'.signals = bar.signals /\ bar'.layer = bar.layer /\ hours' = hours
          /\ bar.pc = "account" /\ bar'.pc \in {"signals", "entry"}
      BY <1>6, <1>t DEF AccountReturned, BarState
    <2> QED BY <2>1
  <1>7. CASE EntryReturned \/ ExitReturned \/ SignalsDone
    <2>1. /\ bar'.signals = bar.signals /\ hours' = hours
          /\ bar'.pc \in {"stops", "signals", "equity"}
      BY <1>7, <1>t DEF EntryReturned, ExitReturned, SignalsDone, BarState
    <2> QED BY <2>1
  <1>8. CASE EquityReturned \/ CancelAll \/ Liquidate \/ CloseTrades \/ SetFlag
    <2>1. /\ hours' = hours
          /\ \/ bar' = IdleBar
             \/ \E pc \in BarOnLoopPcs : bar' = [bar EXCEPT !.pc = pc]
      BY <1>8 DEF EquityReturned, CancelAll, Liquidate, CloseTrades, SetFlag, BarOnLoopPcs
    <2>2. CASE bar' = IdleBar
      BY <2>2 DEF IdleBar
    <2>3. ASSUME NEW pc \in BarOnLoopPcs, bar' = [bar EXCEPT !.pc = pc] PROVE NoGatedEntry'
      <3>1. bar'.signals = bar.signals /\ bar'.pc \notin {"idle", "account", "entry"}
        BY <1>t, <2>3 DEF BarState, BarOnLoopPcs
      <3> QED BY <2>1, <3>1
    <2> QED BY <2>1, <2>2, <2>3
  <1>9. ASSUME NEW t \in Tasks, Thread(t) PROVE NoGatedEntry'
    BY <1>9, ThreadCalls
  <1>10. CASE EodStep
    BY <1>10, EodFrame
  <1>11. ASSUME NEW s \in Symbols, BarArrives(s) PROVE NoGatedEntry'
    <2>1. bar'.signals = {} /\ bar'.pc = "stops"
      BY <1>11 DEF BarArrives, IdleBar
    <2> QED BY <2>1
  <1>12. CASE Outside
    <2>1. bar' = bar
      BY <1>12, OutsideFrame
    <2>2. hours' = "late" => hours = "late" \/ bar.pc = "idle"
      BY <1>12 DEF Outside, StopFills, TurnsLate, HoursEnd, NextSession, ResetBreaker
    <2> QED BY <2>1, <2>2
  <1>13. CASE EodStarts \/ Startup \/ UNCHANGED vars
    BY <1>13 DEF EodStarts, Startup, vars
  <1>14. CASE Crash
    <2>1. bar' = IdleBar
      BY <1>14 DEF Crash
    <2> QED BY <2>1 DEF IdleBar
  <1> QED BY <1>1, <1>2, <1>3, <1>4, <1>5, <1>6, <1>7, <1>8, <1>9, <1>10, <1>11, <1>12,
             <1>13, <1>14 DEF Next, BarStep, Environment, Outside

\* Trade ids only grow, and a row that is open was open or is new.
LEMMA RowsFrame ==
    ASSUME TypeOK, [Next]_vars
    PROVE  /\ nextTrade \in Nat /\ nextTrade' \in Nat /\ nextTrade' >= nextTrade
           /\ \A r \in dbOpen' : r \in dbOpen \/ r = nextTrade
  <1>t. nextTrade \in Nat
    BY DEF TypeOK
  <1>1. CASE nextTrade' = nextTrade /\ dbOpen' \subseteq dbOpen
    BY <1>1, <1>t
  <1>2. BarQuiet => nextTrade' = nextTrade /\ dbOpen' \subseteq dbOpen
    BY QuietFrame DEF QuietStep
  <1>3. ASSUME NEW p \in bar.todo, StopHit(p) PROVE UNCHANGED db
    BY <1>3 DEF StopHit
  <1>4. ASSUME NEW g \in bar.signals, ExitAccepted(g) PROVE UNCHANGED db
    BY <1>4 DEF ExitAccepted
  <1>5. /\ AccountReturned => UNCHANGED db
        /\ EntryReturned => UNCHANGED db
        /\ ExitReturned => UNCHANGED db
        /\ EodStarts => UNCHANGED db
        /\ Crash => UNCHANGED db
        /\ Startup => UNCHANGED db
    BY DEF AccountReturned, EntryReturned, ExitReturned, EodStarts, Crash, Startup
  <1>6. ASSUME NEW t \in Tasks, Thread(t)
        PROVE  /\ nextTrade' \in Nat /\ nextTrade' >= nextTrade
               /\ \A r \in dbOpen' : r \in dbOpen \/ r = nextTrade
    BY <1>6, <1>t, ThreadTrades
  <1>7. EodStep => UNCHANGED db
    BY EodFrame
  <1>8. ASSUME NEW s \in Symbols, BarArrives(s) PROVE UNCHANGED db
    BY <1>8 DEF BarArrives
  <1>9. Outside => nextTrade' = nextTrade /\ dbOpen' = dbOpen
    BY OutsideFrame
  <1>10. UNCHANGED vars => UNCHANGED db
    BY DEF vars
  <1> QED BY <1>t, <1>1, <1>2, <1>3, <1>4, <1>5, <1>6, <1>7, <1>8, <1>9, <1>10, NextCases DEF db

\* Steps of the others leave the end-of-day task where it is.
LEMMA EodElsewhere ==
    ASSUME TypeOK, [Next]_vars
    PROVE  \/ EodStep
           \/ EodStarts
           \/ eod' = IdleEod
           \/ Thread("eod") /\ eod' = eod
           \/ eod' = eod /\ call'["eod"] = call["eod"]
  <1>t. call \in [Tasks -> Call] /\ "bar" \in Tasks /\ "eod" \in Tasks /\ Tasks = {"bar", "eod"}
        /\ bar.todo \subseteq Position /\ openPositions \subseteq Position
    BY DEF TypeOK, Tasks, BarState
  <1>1. CASE BarQuiet
    BY <1>1, QuietFrame DEF QuietStep
  <1>2. ASSUME NEW p \in bar.todo, StopHit(p) PROVE eod' = eod /\ call'["eod"] = call["eod"]
    BY <1>2, <1>t, CallEffects DEF StopHit
  <1>3. ASSUME NEW g \in bar.signals, ExitAccepted(g)
        PROVE  eod' = eod /\ call'["eod"] = call["eod"]
    BY <1>3, <1>t, CallEffects DEF ExitAccepted
  <1>4. CASE AccountReturned
    BY <1>4, <1>t, EntryEffect DEF AccountReturned, TypeOK, BarState
  <1>5. CASE EntryReturned
    BY <1>5, <1>t DEF EntryReturned
  <1>6. CASE ExitReturned
    BY <1>6, <1>t DEF ExitReturned
  <1>7. ASSUME NEW t \in Tasks, Thread(t)
        PROVE  eod' = eod /\ (t = "eod" \/ call'["eod"] = call["eod"])
    BY <1>7, <1>t, ThreadCalls
  <1>8. ASSUME NEW s \in Symbols, BarArrives(s) PROVE eod' = eod /\ call'["eod"] = call["eod"]
    BY <1>8 DEF BarArrives
  <1>9. CASE Outside
    BY <1>9, OutsideFrame
  <1>10. CASE Crash
    BY <1>10 DEF Crash
  <1>11. CASE Startup
    BY <1>11 DEF Startup
  <1>12. CASE UNCHANGED vars
    BY <1>12 DEF vars
  <1> QED BY <1>t, <1>1, <1>2, <1>3, <1>4, <1>5, <1>6, <1>7, <1>8, <1>9, <1>10, <1>11, <1>12,
             NextCases

\* EodExitTracked: the trade the close exits is older than any new one, and is
\* closed before the close is told so.
LEMMA EodTrackedStep ==
    TypeOK /\ CallsMatchTasks /\ IdsOld /\ EodExitTracked /\ [Next]_vars => EodExitTracked'
  <1> SUFFICES ASSUME TypeOK, CallsMatchTasks, IdsOld, EodExitTracked, [Next]_vars
               PROVE  EodExitTracked'
    OBVIOUS
  <1>t. /\ eod \in EodState
        /\ call \in [Tasks -> Call]
        /\ openPositions \subseteq Position
        /\ "bar" \in Tasks /\ "eod" \in Tasks /\ Tasks = {"bar", "eod"}
    BY DEF TypeOK, Tasks
  <1>p. /\ \A p \in Position : p.trade \in Nat
        /\ eod.todo \subseteq Position /\ eod.trade \in Nat
    BY <1>t DEF EodState, Position
  <1>r. /\ nextTrade \in Nat /\ nextTrade' \in Nat /\ nextTrade' >= nextTrade
        /\ \A r \in dbOpen' : r \in dbOpen \/ r = nextTrade
    BY RowsFrame
  <1> USE DEF EodExitTracked, Returned
  <1>0. CASE eod' = eod /\ call'["eod"] = call["eod"]
    BY <1>0, <1>p, <1>r
  <1>1. ASSUME NEW p \in eod.todo, EodSells(p) PROVE EodExitTracked'
    <2>1. /\ eod'.todo \subseteq eod.todo /\ eod'.trade = p.trade
      BY <1>1, <1>t DEF EodSells, EodState
    <2>2. call'["eod"].trade = p.trade /\ call'["eod"].step # "true"
      BY <1>1, <1>t, <1>p, CallEffects DEF EodSells
    <2> QED BY <1>p, <1>r, <2>1, <2>2
  <1>2. ASSUME NEW p \in eod.todo, EodKeeps(p) PROVE EodExitTracked'
    <2>1. eod'.todo \subseteq eod.todo /\ eod'.pc = "sweep"
      BY <1>2, <1>t DEF EodKeeps, EodState
    <2> QED BY <1>p, <1>r, <2>1
  <1>3. CASE EodExitReturned \/ EodSweepDone \/ EodCancels
    <2>1. eod'.todo = eod.todo /\ eod'.pc # "exit"
      BY <1>3, <1>t DEF EodExitReturned, EodSweepDone, EodCancels, EodState
    <2> QED BY <1>p, <1>r, <2>1
  <1>4. CASE EodStarts
    <2>1. eod'.todo = openPositions /\ eod'.pc = "sweep"
      BY <1>4 DEF EodStarts, IdleEod
    <2> QED BY <1>t, <1>p, <1>r, <2>1 DEF IdsOld
  <1>5. CASE eod' = IdleEod
    BY <1>5 DEF IdleEod
  <1>6. CASE Thread("eod") /\ eod' = eod
    <2>1. CASE eod.pc = "exit"
      <3>1. call["eod"].step # "save"
        BY <2>1 DEF CallsMatchTasks, ExitSteps, Answered
      <3>2. /\ call'["eod"].trade = call["eod"].trade
            /\ call'["eod"].step = "true" => call["eod"].trade \notin dbOpen'
        BY <1>6, <1>t, <3>1, ThreadTrades
      <3> QED BY <1>6, <1>p, <1>r, <2>1, <3>2
    <2>2. CASE eod.pc # "exit"
      BY <1>6, <1>p, <1>r, <2>2
    <2> QED BY <2>1, <2>2
  <1> QED BY <1>0, <1>1, <1>2, <1>3, <1>4, <1>5, <1>6, EodElsewhere DEF EodStep

\* GatedCovered: the close takes every position in hand when it starts, none of a
\* time-gated layer is added after that, and none leaves its hands unless it is
\* closed or reported.
LEMMA CoveredStep ==
    /\ TypeOK
    /\ IdsOld
    /\ NoGatedEntry
    /\ EodExitTracked
    /\ GatedCovered
    /\ [Next]_vars
    => GatedCovered'
  <1> SUFFICES ASSUME TypeOK, IdsOld, NoGatedEntry, EodExitTracked, GatedCovered, [Next]_vars
               PROVE  GatedCovered'
    OBVIOUS
  <1>t. /\ eod \in EodState
        /\ hours \in {"trading", "late", "after"}
        /\ openPositions \subseteq Position
        /\ \A p \in Position : p.trade \in Nat
    BY DEF TypeOK, Position
  <1>r. /\ nextTrade \in Nat
        /\ \A r \in dbOpen' : r \in dbOpen \/ r = nextTrade
    BY RowsFrame
  <1>o. \A p \in openPositions : p.trade \in dbOpen' => p.trade \in dbOpen
    BY <1>t, <1>r DEF IdsOld
  <1>h. \/ hours' = hours
        \/ hours' # "late" /\ eod' = IdleEod
        \/ hours' # "late" /\ hours' # "trading" /\ eod' = eod
        \/ hours = "trading" /\ eod' = eod /\ hours' = "late"
    <2>1. CASE BarQuiet
      BY <2>1, QuietFrame DEF QuietStep, clock
    <2>2. ASSUME NEW p \in bar.todo, StopHit(p) PROVE hours' = hours
      BY <2>2 DEF StopHit, clock
    <2>3. ASSUME NEW g \in bar.signals, ExitAccepted(g) PROVE hours' = hours
      BY <2>3 DEF ExitAccepted, clock
    <2>4. CASE AccountReturned \/ EntryReturned \/ ExitReturned
      BY <2>4 DEF AccountReturned, EntryReturned, ExitReturned, clock
    <2>5. ASSUME NEW t \in Tasks, Thread(t) PROVE hours' = hours
      BY <2>5, ThreadCalls DEF clock
    <2>6. CASE EodStep
      BY <2>6, EodFrame DEF clock
    <2>7. ASSUME NEW s \in Symbols, BarArrives(s) PROVE hours' = hours
      BY <2>7 DEF BarArrives, clock
    <2>8. CASE EodStarts \/ Crash \/ Startup \/ UNCHANGED vars
      BY <2>8 DEF EodStarts, Crash, Startup, vars, clock
    <2>9. CASE Outside
      BY <2>9 DEF Outside, StopFills, TurnsLate, HoursEnd, NextSession, ResetBreaker, clock
    <2> QED BY <2>1, <2>2, <2>3, <2>4, <2>5, <2>6, <2>7, <2>8, <2>9, NextCases
  <1>n. \A p \in openPositions' : p \in openPositions \/ (hours = "late" => p.layer \notin TimeGated)
    <2>1. CASE EntryReturned /\ AddPosition
      <3> DEFINE new == [symbol |-> bar.symbol, layer |-> bar.layer,
                         trade |-> call["bar"].trade, day |-> day]
      <3>1. openPositions' = openPositions \union {new} /\ new.layer = bar.layer
        BY <2>1 DEF AddPosition
      <3>2. hours = "late" => bar.layer \notin TimeGated
        BY <2>1 DEF EntryReturned, NoGatedEntry
      <3> HIDE DEF new
      <3> QED BY <3>1, <3>2
    <2>2. CASE openPositions' \subseteq openPositions
      BY <2>2
    <2>3. \/ EntryReturned /\ AddPosition
          \/ openPositions' \subseteq openPositions
      BY BookChanges DEF EntryReturned, ExitReturned, RemovePosition, Crash, book
    <2> QED BY <2>1, <2>2, <2>3
  \* The covered positions stay covered while the close is where it is.
  <1>k. ASSUME eod' = eod PROVE GatedCovered'
    <2>1. hours' = "trading" => eod'.pc = "idle"
      BY <1>h, <1>k DEF GatedCovered, IdleEod
    <2>2. eod'.pc # "idle" /\ hours' = "late" => eod.pc # "idle" /\ hours = "late"
      BY <1>h, <1>k DEF GatedCovered, IdleEod
    <2> QED BY <1>k, <1>n, <1>o, <2>1, <2>2 DEF GatedCovered
  <1>f. EodStep => UNCHANGED <<openPositions, dbOpen, hours>>
    BY EodFrame DEF book, db, clock
  <1> USE DEF GatedCovered
  <1>1. ASSUME NEW p \in eod.todo, EodSells(p) PROVE GatedCovered'
    <2>1. /\ eod'.todo = eod.todo \ {p} /\ eod'.trade = p.trade /\ eod'.pc = "exit"
          /\ eod'.kept = eod.kept /\ eod.pc = "sweep"
      BY <1>1, <1>t DEF EodSells, EodState
    <2>2. EodStep
      BY <1>1 DEF EodStep
    <2> QED BY <1>f, <2>1, <2>2
  <1>2. ASSUME NEW p \in eod.todo, EodKeeps(p) PROVE GatedCovered'
    <2>1. /\ eod'.todo = eod.todo \ {p} /\ eod'.pc = "sweep" /\ eod.pc = "sweep"
          /\ eod'.kept = eod.kept \union {p.trade}
      BY <1>2, <1>t DEF EodKeeps, EodState
    <2>2. EodStep
      BY <1>2 DEF EodStep
    <2> QED BY <1>f, <2>1, <2>2
  <1>3. CASE EodExitReturned
    <2>1. /\ eod'.todo = eod.todo /\ eod'.pc = "sweep" /\ eod.pc = "exit"
          /\ \/ Returned("eod", "true") /\ eod'.kept = eod.kept
             \/ eod'.kept = eod.kept \union {eod.trade}
      BY <1>3, <1>t DEF EodExitReturned, EodState
    <2>2. EodStep
      BY <1>3 DEF EodStep
    <2> QED BY <1>f, <2>1, <2>2 DEF EodExitTracked
  <1>4. CASE EodSweepDone \/ EodCancels
    <2>1. /\ eod'.todo = {} /\ eod.todo = {} /\ eod'.kept = eod.kept
          /\ eod'.pc \in {"cancel", "done"} /\ eod.pc \in {"sweep", "cancel"}
      BY <1>4, <1>t DEF EodSweepDone, EodCancels, EodState
    <2>2. EodStep
      BY <1>4 DEF EodStep
    <2> QED BY <1>f, <2>1, <2>2
  <1>5. CASE EodStarts
    <2>1. /\ eod'.todo = openPositions /\ eod'.pc = "sweep" /\ hours = "late"
          /\ UNCHANGED <<openPositions, hours>>
      BY <1>5 DEF EodStarts, EodDue, IdleEod, book, clock
    <2> QED BY <2>1
  <1>6. CASE eod' = IdleEod
    BY <1>6 DEF IdleEod
  <1> QED BY <1>k, <1>1, <1>2, <1>3, <1>4, <1>5, <1>6, EodElsewhere DEF EodStep

-----------------------------------------------------------------------------
\* The theorems

\* The inductive invariant holds in every reachable state.
THEOREM Inductive == Spec => []IInv
  <1>1. ASSUME Init PROVE IInv
    <2>1. TypeOK
      BY <1>1, InitTyped
    <2>2. SymbolsOf(openPositions) = {}
      BY <1>1 DEF Init, SymbolsOf
    <2>3. BookInv
      <3>1. Cardinality(SymbolsOf(openPositions)) <= MaxPositions
        BY <2>2, FS_EmptySet, LiveAssumption DEF LiveAssumption
      <3>2. openOrders = {} /\ openPositions = {}
        BY <1>1 DEF Init
      <3> QED BY <2>2, <3>1, <3>2
              DEF BookInv, OrdersMatchPositions, OneLayerPerSymbol, WithinMaxPositions
    <2>4. /\ bar.pc = "idle" /\ bar.todo = {} /\ eod.pc = "idle"
          /\ call["bar"].step = "none" /\ call["eod"].step = "none"
          /\ \A t \in Tasks : call[t].step = "none"
      BY <1>1 DEF Init, IdleBar, IdleEod, NoCall, Tasks
    <2>5. CallsMatchTasks /\ EntryReserved /\ SnapshotCurrent /\ ExitsTracked
      BY <1>1, <2>4
         DEF Init, CallsMatchTasks, EntryReserved, SnapshotCurrent, ExitsTracked, BarExiting
    <2>6. IdsOld /\ HaltedInStops /\ OpenTradesTracked
      BY <1>1, <2>4 DEF Init, IdsOld, HaltedInStops, OpenTradesTracked, Returned
    <2>7. LotsHeld
      BY <1>1, <2>2, <2>4, LiveAssumption DEF Init, LotsHeld, LotsOf, LiveAssumption
    <2>8. LotsKnown
      <3>1. \A s \in Symbols : Exited(s) = 0 /\ InBook(s) = 0 /\ Entered(s) = 0
        BY <2>2, <2>4 DEF Exited, InBook, Entered
      <3>2. /\ up /\ held = Inherited /\ Inherited \in [Symbols -> Nat]
            /\ used["lost"] = 0 /\ used["fault"] = 0
        BY <1>1, LiveAssumption DEF Init, Events, LiveAssumption
      <3> QED BY <2>4, <3>1, <3>2 DEF LotsKnown
    <2>9. DayTradesAdmitted
      <3>1. dayTrades = <<>>
        BY <1>1 DEF Init
      <3>2. RollingCount = 0
        <4>1. {i \in DOMAIN dayTrades : dayTrades[i] >= day - Window} = {}
          BY <3>1
        <4> QED BY <4>1, FS_EmptySet DEF RollingCount
      <3>3. InFlight("bar") = 0 /\ InFlight("eod") = 0
        BY <2>4 DEF InFlight, ExitSteps
      <3> QED BY <3>2, <3>3, LiveAssumption DEF DayTradesAdmitted, LiveAssumption
    <2>10. NoGatedEntry /\ EodExitTracked /\ GatedCovered
      BY <1>1 DEF Init, IdleBar, IdleEod, NoGatedEntry, EodExitTracked, GatedCovered
    <2> QED BY <2>1, <2>3, <2>5, <2>6, <2>7, <2>8, <2>9, <2>10 DEF IInv
  <1>2. IInv /\ [Next]_vars => IInv'
    BY TypeStep, BookStep, CallsStep, ReservedStep, SnapshotStep, ExitsStep, IdsStep,
       HaltedStep, TrackedStep, LotsStep, KnownStep, AdmittedStep, GatedStep,
       EodTrackedStep, CoveredStep DEF IInv
  <1> QED BY <1>1, <1>2, PTL DEF Spec

\* The engine's two dictionaries agree, no symbol has two layers, and the book
\* never exceeds max_positions.
THEOREM BookCorrect == Spec => []BookInv
  <1>1. IInv => BookInv
    BY DEF IInv
  <1> QED BY <1>1, Inductive, PTL

\* No entry order is in flight while the circuit breaker is active.
THEOREM HaltCorrect == Spec => []HaltedMeansNoEntry
  <1>1. IInv => HaltedMeansNoEntry
    BY DEF IInv, HaltedInStops, CallsMatchTasks, BarExiting, HaltedMeansNoEntry,
           ExitSteps, EntrySteps, Answered
  <1> QED BY <1>1, Inductive, PTL

\* No OPEN trade of this process is unknown to the engine.
THEOREM TradesTracked == Spec => []OpenTradesTracked
  <1>1. IInv => OpenTradesTracked
    BY DEF IInv
  <1> QED BY <1>1, Inductive, PTL

\* Left alone, the bar handler never sells more than the account holds.
THEOREM ShortsNeedCause == Spec => []ShortsExplained
  <1>1. IInv => ShortsExplained
    BY DEF IInv, TypeOK, LotsHeld, LotsOf, ShortsExplained
  <1> QED BY <1>1, Inductive, PTL

\* As long as the process lives, every lot of the account is inherited, in the book,
\* bought by the entry under way, or counted as lost or failed.
THEOREM LotsCorrect == Spec => []LotsExplained
  <1>1. ASSUME IInv PROVE LotsExplained
    <2>t. /\ held \in [Symbols -> Int] /\ Inherited \in [Symbols -> Nat]
          /\ used["lost"] \in Nat /\ used["fault"] \in Nat
      BY <1>1, LiveAssumption DEF IInv, TypeOK, Events, LiveAssumption
    <2>b. OneLayerPerSymbol
      BY <1>1 DEF IInv, BookInv
    <2>k. LotsKnown
      BY <1>1 DEF IInv
    <2>1. ASSUME NEW s \in Symbols
          PROVE  Cardinality({p \in openPositions : p.symbol = s}) = InBook(s)
      <3>1. CASE s \in SymbolsOf(openPositions)
        <4>1. PICK q \in openPositions : q.symbol = s
          BY <3>1 DEF SymbolsOf
        <4>2. {p \in openPositions : p.symbol = s} = {q}
          BY <4>1, <2>b DEF OneLayerPerSymbol
        <4> QED BY <3>1, <4>2, FS_Singleton DEF InBook
      <3>2. CASE s \notin SymbolsOf(openPositions)
        <4>1. {p \in openPositions : p.symbol = s} = {}
          BY <3>2 DEF SymbolsOf
        <4> QED BY <3>2, <4>1, FS_EmptySet DEF InBook
      <3> QED BY <3>1, <3>2
    <2>2. ASSUME used["crash"] = 0, NEW s \in Symbols
          PROVE  held[s] <= Inherited[s] + Cardinality({p \in openPositions : p.symbol = s})
                             + Entered(s) + used["lost"] + used["fault"]
      <3>1. InBook(s) \in 0 .. 1 /\ Entered(s) \in 0 .. 1 /\ Exited(s) \in 0 .. 1
        BY DEF InBook, Entered, Exited
      <3>2. IF DryRun THEN held[s] <= Inherited[s]
            ELSE held[s] + Exited(s) <= Inherited[s] + InBook(s) + Entered(s)
                                         + used["lost"] + used["fault"]
        BY <2>k, <2>2 DEF LotsKnown
      <3>3. held[s] \in Int /\ Inherited[s] \in Nat
        BY <2>t
      <3>4. held[s] <= Inherited[s] + InBook(s) + Entered(s) + used["lost"] + used["fault"]
        BY <2>t, <3>1, <3>2, <3>3
      <3> QED BY <2>1, <3>4
    <2> QED BY <2>2 DEF LotsExplained
  <1> QED BY <1>1, Inductive, PTL

\* With one guard for both tasks, one day trade beyond the limit is all they can let
\* through between them.
THEOREM DayTradesCorrect == Spec => []DayTradesBounded
  <1>1. ASSUME IInv PROVE DayTradesBounded
    <2>1. InFlight("bar") \in 0 .. 1 /\ InFlight("eod") \in 0 .. 1
      BY DEF InFlight
    <2>2. TypeOK /\ DayTradesAdmitted
      BY <1>1 DEF IInv
    <2>3. RollingCount \in Nat /\ MaxDayTrades \in Nat
      BY <2>2, RollingCounted, LiveAssumption DEF LiveAssumption
    <2> QED BY <2>1, <2>2, <2>3 DEF DayTradesAdmitted, DayTradesBounded
  <1> QED BY <1>1, Inductive, PTL

\* When the end-of-day close is done, every open trade of a time-gated layer is closed
\* or reported as kept, whatever the bar handler did while the close awaited its orders.
THEOREM EodCorrect == Spec => []EodCoversGated
  <1>1. IInv => EodCoversGated
    BY DEF IInv, GatedCovered, EodCoversGated
  <1> QED BY <1>1, Inductive, PTL

\* The live engine implements the abstract position book.
THEOREM Refinement == Spec => BookSpec
  <1>1. Init => Book!Init
    BY DEF Init, Pairs, Book!Init
  <1>2. ASSUME IInv, [Next]_vars PROVE [Book!Next]_Pairs
    <2>i. TypeOK /\ BookInv /\ EntryReserved /\ ExitsTracked
      BY <1>2 DEF IInv
    <2>h. Book!HeldSymbols = SymbolsOf(openPositions)
      <3>1. \A p \in openPositions : <<p.symbol, p.layer>>[1] = p.symbol
        OBVIOUS
      <3>2. ASSUME NEW s \in Book!HeldSymbols PROVE s \in SymbolsOf(openPositions)
        <4>1. PICK k \in Pairs : s = k[1]
          BY DEF Book!HeldSymbols
        <4>2. PICK p \in openPositions : k = <<p.symbol, p.layer>>
          BY DEF Pairs
        <4> QED BY <4>1, <4>2 DEF SymbolsOf
      <3>3. ASSUME NEW s \in SymbolsOf(openPositions) PROVE s \in Book!HeldSymbols
        <4>1. PICK p \in openPositions : s = p.symbol
          BY DEF SymbolsOf
        <4>2. <<p.symbol, p.layer>> \in Pairs
          BY DEF Pairs
        <4> QED BY <4>1, <4>2 DEF Book!HeldSymbols
      <3> QED BY <3>2, <3>3
    <2>1. CASE EntryReturned /\ Returned("bar", "true")
      <3> DEFINE new == [symbol |-> bar.symbol, layer |-> bar.layer,
                         trade |-> call["bar"].trade, day |-> day]
      <3>1. openPositions' = openPositions \union {new}
        BY <2>1 DEF EntryReturned, AddPosition, Returned
      <3>2. new.symbol = bar.symbol /\ new.layer = bar.layer
        OBVIOUS
      <3> HIDE DEF new
      <3>3. Pairs' = Pairs \union {<<bar.symbol, bar.layer>>}
        BY <3>1, <3>2 DEF Pairs
      <3>4. bar.symbol \in Symbols /\ bar.layer \in Layers
        BY <2>i DEF TypeOK, BarState
      <3>5. bar.symbol \notin SymbolsOf(openPositions) /\ ~AtMax
        BY <2>1, <2>i DEF EntryReturned, AddPosition, EntryReserved, BookInv, OrdersMatchPositions
      <3>6. Cardinality(Book!HeldSymbols) < MaxPositions
        BY <2>h, <2>i, <3>5, BookCounted, LiveAssumption DEF AtMax, LiveAssumption
      <3>7. Book!Cardinality(Book!HeldSymbols) = Cardinality(Book!HeldSymbols)
        BY DEF Book!Cardinality, Cardinality
      <3>8. Book!Open(bar.symbol, bar.layer)
        BY <2>h, <3>3, <3>5, <3>6, <3>7 DEF Book!Open
      <3> QED BY <3>4, <3>8 DEF Book!Next
    <2>2. CASE ExitReturned /\ Returned("bar", "true")
      <3> DEFINE key == <<bar.symbol, bar.layer>>
      <3>1. openPositions' = {p \in openPositions :
                                ~(p.symbol = bar.symbol /\ p.layer = bar.layer)}
        BY <2>2 DEF ExitReturned, RemovePosition, Returned
      <3>2. Pairs' = Pairs \ {key}
        BY <3>1 DEF Pairs
      <3>3. key \in Pairs
        BY <2>2, <2>i DEF ExitReturned, RemovePosition, ExitsTracked, BarExiting, Pairs
      <3> QED BY <3>2, <3>3 DEF Book!Next, Book!Close
    <2>3. CASE Crash
      BY <2>3 DEF Crash, Pairs, Book!Next, Book!Forget
    <2>4. CASE UNCHANGED openPositions
      BY <2>4 DEF Pairs
    <2> QED BY <1>2, <2>i, <2>1, <2>2, <2>3, <2>4, BookChanges
            DEF EntryReturned, AddPosition, ExitReturned, RemovePosition, book
  <1> QED BY <1>1, <1>2, Inductive, PTL DEF Spec, BookSpec, Book!Spec

=============================================================================
