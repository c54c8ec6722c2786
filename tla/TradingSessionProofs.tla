------------------------ MODULE TradingSessionProofs ------------------------
(***************************************************************************)
(* Theorems about TradingSession, for every universe, every configuration  *)
(* of the layers and every bound.                                          *)
(***************************************************************************)
EXTENDS TradingSession, TLAPS

\* Everything but the market's opening, the end of the opening half hour, the
\* night, a restart, a bar's arrival and its evaluation.
SmallStep ==
    \/ \E l \in Layers : StopSkipped(l) \/ StopHit(l)
    \/ StopExitReturned
    \/ BreakerActive
    \/ \E sig \in Signal : SignalDropped(sig) \/ BuyAccepted(sig) \/ ExitAccepted(sig)
    \/ EntryReturned
    \/ ExitReturned
    \/ SignalsDone
    \/ \E s \in Symbols : CooldownEnds(s) \/ Preload(s)
    \/ PartPasses

LEMMA SymbolExists == AnySymbol \in Symbols
BY SessionAssumption DEF AnySymbol, SessionAssumption

LEMMA IdleBarTyped == IdleBar \in BarState
BY SymbolExists
   DEF IdleBar, BarState, BarPcs, OnLoopPcs, Layers, Signal, Parts, Early, After

\* What a small step leaves alone.
LEMMA SmallFrame ==
    ASSUME SmallStep \/ UNCHANGED vars
    PROVE  /\ UNCHANGED <<day, edt, counts, rangeBars, range, flat, tracked>>
           /\ UNCHANGED <<triggered, fade, orbBuys>>
           /\ part' = part \/ (part \notin {Pre, Opening, After} /\ part' = part + 1)
<1>1. CASE UNCHANGED vars
    BY <1>1 DEF vars, clock, store, layers
<1>2. ASSUME NEW l \in Layers, StopSkipped(l) \/ StopHit(l)
      PROVE  UNCHANGED <<clock, store, layers, orbBuys>>
    BY <1>2 DEF StopSkipped, StopHit
<1>3. ASSUME NEW sig \in Signal, SignalDropped(sig) \/ BuyAccepted(sig) \/ ExitAccepted(sig)
      PROVE  UNCHANGED <<clock, store, layers, orbBuys>>
    BY <1>3 DEF SignalDropped, BuyAccepted, ExitAccepted
<1>4. CASE StopExitReturned \/ BreakerActive \/ EntryReturned \/ ExitReturned \/ SignalsDone
    BY <1>4 DEF StopExitReturned, BreakerActive, EntryReturned, ExitReturned, SignalsDone,
                clock, store, layers
<1>5. ASSUME NEW s \in Symbols, CooldownEnds(s) \/ Preload(s)
      PROVE  UNCHANGED <<clock, counts, rangeBars, range, flat, layers, orbBuys>>
    BY <1>5 DEF CooldownEnds, Preload, store
<1>6. CASE PartPasses
    BY <1>6 DEF PartPasses, store, layers
<1> QED
    BY <1>1, <1>2, <1>3, <1>4, <1>5, <1>6 DEF SmallStep, clock, store, layers

LEMMA StepCases ==
    ASSUME [Next]_vars
    PROVE  \/ SmallStep
           \/ UNCHANGED vars
           \/ \E s \in Symbols : BarArrives(s)
           \/ Dispatch
           \/ MarketOpens
           \/ RangeCloses
           \/ NextDay
           \/ Restart
BY DEF Next, Handler, Clock, SmallStep

-----------------------------------------------------------------------------
(***************************************************************************)
(* Types.                                                                  *)
(***************************************************************************)
LEMMA HeldTyped ==
    ASSUME TypeOK, NEW l \in {"L1", "L2", "L3"}, NEW s \in Symbols
    PROVE  /\ HeldNow(l, s) \in Nat \union {Untracked}
           /\ HeldNow(l, s) = Untracked <=> tracked[l][s] = Untracked /\ l \notin book[s]
           /\ HeldNow(l, s) <= MaxHold[l] \/ HeldNow(l, s) = 1
<1>1. tracked[l][s] \in Nat \union {Untracked} /\ MaxHold[l] \in Nat
    BY SessionAssumption DEF TypeOK, Layers, SessionAssumption
<1> QED
    BY <1>1 DEF HeldNow, AtMost, Untracked

LEMMA OutcomesTyped ==
    ASSUME TypeOK, NEW s \in Symbols
    PROVE  /\ L1Outcomes(s) \subseteq Outcome
           /\ L2Outcomes(s) \subseteq Outcome
           /\ L3Outcomes(s) \subseteq Outcome
           /\ Fades(s) \subseteq Nat
           /\ \A f \in Fades(s) : L4Outcomes(s, f) \subseteq Outcome
<1>1. /\ HeldNow("L1", s) \in Nat \union {Untracked}
      /\ HeldNow("L2", s) \in Nat \union {Untracked}
      /\ HeldNow("L3", s) \in Nat \union {Untracked}
    BY HeldTyped
<1>2. \A l \in Layers : tracked[l][s] \in Nat \union {Untracked}
    BY DEF TypeOK
<1>3. \A h \in Nat \union {Untracked} : Keep(h) \in Outcome
    BY DEF Keep, Outcome
<1>4. Buy \in Outcome /\ Exit(TRUE) \in Outcome /\ Exit(FALSE) \in Outcome
    BY DEF Buy, Exit, Outcome, Untracked
<1>5. L1Outcomes(s) \subseteq Outcome
    BY <1>1, <1>3, <1>4 DEF L1Outcomes, PriceExits
<1>6. L2Outcomes(s) \subseteq Outcome
    BY <1>1, <1>2, <1>3, <1>4 DEF L2Outcomes, PriceExits, Layers
<1>7. L3Outcomes(s) \subseteq Outcome
    BY <1>1, <1>2, <1>3, <1>4 DEF L3Outcomes, Layers
<1>8. Fades(s) \subseteq Nat
    BY DEF Fades, TypeOK
<1>9. \A f \in Fades(s) : L4Outcomes(s, f) \subseteq Outcome
    BY <1>3, <1>4 DEF L4Outcomes
<1> QED
    BY <1>5, <1>6, <1>7, <1>8, <1>9

\* The outcomes an evaluation chose.
Chosen(s, f, o) ==
    /\ f \in Fades(s) /\ f \in Nat
    /\ o \in [Layers -> Outcome]
    /\ o["L1"] \in L1Outcomes(s)
    /\ o["L2"] \in L2Outcomes(s)
    /\ o["L3"] \in L3Outcomes(s)
    /\ o["L4"] \in L4Outcomes(s, f)

LEMMA DispatchChooses ==
    ASSUME TypeOK, Dispatch
    PROVE  /\ bar.symbol \in Symbols
           /\ bar.pc = "stops"
           /\ UNCHANGED <<clock, store, book>>
           /\ \E f, o : Chosen(bar.symbol, f, o) /\ Evaluated(bar.symbol, f, o)
<1>1. /\ bar.symbol \in Symbols
      /\ bar.pc = "stops"
      /\ UNCHANGED <<clock, store, book>>
    BY DEF TypeOK, BarState, Dispatch
<1>2. PICK f \in Fades(bar.symbol), o1 \in L1Outcomes(bar.symbol),
           o2 \in L2Outcomes(bar.symbol), o3 \in L3Outcomes(bar.symbol) :
      \E o4 \in L4Outcomes(bar.symbol, f) :
        Evaluated(bar.symbol, f, [L1 |-> o1, L2 |-> o2, L3 |-> o3, L4 |-> o4])
    BY DEF Dispatch
<1>3. PICK o4 \in L4Outcomes(bar.symbol, f) :
        Evaluated(bar.symbol, f, [L1 |-> o1, L2 |-> o2, L3 |-> o3, L4 |-> o4])
    BY <1>2
<1> DEFINE o == [L1 |-> o1, L2 |-> o2, L3 |-> o3, L4 |-> o4]
<1>4. o \in [Layers -> Outcome]
    <2>1. {o1, o2, o3, o4} \subseteq Outcome
        BY <1>1, OutcomesTyped
    <2> QED
        BY <2>1 DEF Layers
<1>5. Chosen(bar.symbol, f, o)
    BY <1>1, <1>4, OutcomesTyped DEF Chosen
<1> QED
    BY <1>1, <1>3, <1>5


THEOREM SessionTyped == Spec => []TypeOK
<1>1. Init => TypeOK
    BY IdleBarTyped, SessionAssumption
       DEF Init, TypeOK, Zero, None, NoneHeld, Untracked, Parts, Early, After, SessionAssumption
<1>2. TypeOK /\ [Next]_vars => TypeOK'
    <2> SUFFICES ASSUME TypeOK, [Next]_vars
                 PROVE  TypeOK'
        OBVIOUS
    <2>1. CASE UNCHANGED vars
        BY <2>1 DEF TypeOK, vars, clock, store, layers
    <2>2. ASSUME NEW s \in Symbols, BarArrives(s)
          PROVE  TypeOK'
        <3>1. bar' \in BarState
            BY <2>2, IdleBarTyped, ZenonT(30) DEF BarArrives, TypeOK, BarState, BarPcs, OnLoopPcs, IdleBar
        <3>2. rangeBars' \in [Symbols -> SUBSET Stamp]
            BY <2>2 DEF BarArrives, TypeOK, Stamp
        <3>3. history' \in [Symbols -> 0 .. MaxBars] /\ counts' \in [Symbols -> Nat]
            BY <2>2, SessionAssumption DEF BarArrives, TypeOK, AtMost, SessionAssumption
        <3> QED
            BY <2>2, <3>1, <3>2, <3>3 DEF BarArrives, TypeOK, clock, layers
    <2>3. ASSUME NEW l \in Layers, StopSkipped(l) \/ StopHit(l)
          PROVE  TypeOK'
        <3>1. bar' \in BarState
            <4>1. CASE StopSkipped(l)
                BY <4>1 DEF StopSkipped, TypeOK, BarState
            <4>2. CASE StopHit(l)
                BY <4>2 DEF StopHit, TypeOK, BarState, BarPcs
            <4> QED
                BY <2>3, <4>1, <4>2
        <3> QED
            BY <2>3, <3>1 DEF StopSkipped, StopHit, TypeOK, clock, store, layers
    <2>4. CASE StopExitReturned \/ EntryReturned \/ ExitReturned
        <3>1. bar' \in BarState
            BY <2>4 DEF StopExitReturned, EntryReturned, ExitReturned, TypeOK, BarState, BarPcs, OnLoopPcs
        <3>2. book' \in [Symbols -> SUBSET Layers]
            BY <2>4 DEF StopExitReturned, EntryReturned, ExitReturned, TypeOK, BarState
        <3> QED
            BY <2>4, <3>1, <3>2
               DEF StopExitReturned, EntryReturned, ExitReturned, TypeOK, clock, store, layers
    <2>5. CASE BreakerActive \/ SignalsDone
        BY <2>5, IdleBarTyped DEF BreakerActive, SignalsDone, TypeOK, clock, store, layers
    <2>6. CASE Dispatch
        <3>1. PICK f, o : Chosen(bar.symbol, f, o) /\ Evaluated(bar.symbol, f, o)
            BY <2>6, DispatchChooses
        <3>2. bar.symbol \in Symbols /\ bar \in BarState
            BY DEF TypeOK, BarState
        <3>3. tracked' \in [Layers -> [Symbols -> Nat \union {Untracked}]]
            BY <3>1, <3>2 DEF Chosen, Evaluated, Outcome, TypeOK
        <3>4. triggered' \subseteq Symbols /\ cooling' \subseteq Symbols
            BY <3>1, <3>2 DEF Evaluated, TypeOK
        <3>5. fade' \in [Symbols -> Nat] /\ orbBuys' \in [Symbols -> Nat]
            BY <3>1, <3>2 DEF Chosen, Evaluated, TypeOK
        <3>6. bar' \in BarState
            <4> DEFINE passed == {l \in Layers : \/ o[l].side = "EXIT"
                                                 \/ o[l].side = "BUY" /\ Admits(bar.symbol)}
                       sigs == {[layer |-> l, side |-> o[l].side] : l \in passed}
                       stops == \E l \in Layers : o[l].stop
            <4>1. bar' = [bar EXCEPT !.pc = "signals", !.signals = sigs, !.stopped = stops]
                BY <3>1 DEF Evaluated
            <4>2. sigs \subseteq Signal
                BY DEF Signal
            <4>3. stops \in BOOLEAN /\ "signals" \in BarPcs
                BY DEF BarPcs, OnLoopPcs
            <4> HIDE DEF sigs, stops
            <4> QED
                BY <3>2, <4>1, <4>2, <4>3 DEF BarState
        <3> QED
            BY <2>6, <3>3, <3>4, <3>5, <3>6 DEF Dispatch, TypeOK, clock, store
    <2>7. ASSUME NEW sig \in Signal, SignalDropped(sig) \/ BuyAccepted(sig) \/ ExitAccepted(sig)
          PROVE  TypeOK'
        <3>1. bar' \in BarState
            <4>1. sig.layer \in Layers
                BY DEF Signal
            <4>2. CASE SignalDropped(sig)
                BY <4>2 DEF SignalDropped, TypeOK, BarState
            <4>3. CASE BuyAccepted(sig)
                BY <4>1, <4>3 DEF BuyAccepted, TypeOK, BarState, BarPcs
            <4>4. CASE ExitAccepted(sig)
                BY <4>1, <4>4 DEF ExitAccepted, TypeOK, BarState, BarPcs
            <4> QED
                BY <2>7, <4>2, <4>3, <4>4
        <3> QED
            BY <2>7, <3>1 DEF SignalDropped, BuyAccepted, ExitAccepted, TypeOK, clock, store, layers
    <2>8. ASSUME NEW s \in Symbols, CooldownEnds(s)
          PROVE  TypeOK'
        BY <2>8 DEF CooldownEnds, TypeOK, clock, store, layers
    <2>9. ASSUME NEW s \in Symbols, Preload(s)
          PROVE  TypeOK'
        BY <2>9, SessionAssumption DEF Preload, TypeOK, clock, layers, SessionAssumption
    <2>10. CASE PartPasses
        BY <2>10 DEF PartPasses, TypeOK, store, layers, Parts, Pre, Opening, Early, After
    <2>11. CASE MarketOpens
        <3>1. tracked' \in [Layers -> [Symbols -> Nat \union {Untracked}]]
            BY <2>11 DEF MarketOpens, TypeOK, NoneHeld
        <3> QED
            BY <2>11, <3>1
               DEF MarketOpens, FreshBars, TypeOK, None, Zero, Parts, Opening, Early, After
    <2>12. CASE RangeCloses
        BY <2>12 DEF RangeCloses, TypeOK, layers, Parts, Mid, Early, After
    <2>13. CASE NextDay
        BY <2>13 DEF NextDay, TypeOK, store, layers, Parts, Early, After
    <2>14. CASE Restart
        BY <2>14, IdleBarTyped, SessionAssumption
           DEF Restart, TypeOK, None, NoneHeld, Zero, Untracked, clock, SessionAssumption
    <2> QED
        BY <2>1, <2>2, <2>3, <2>4, <2>5, <2>6, <2>7, <2>8, <2>9, <2>10, <2>11, <2>12, <2>13, <2>14
           DEF Next, Handler, Clock
<1> QED
    BY <1>1, <1>2, PTL DEF Spec

-----------------------------------------------------------------------------
(***************************************************************************)
(* The opening range.                                                      *)
(***************************************************************************)

\* RangePure is not inductive: the bars collected so far have to be pure while
\* the opening half hour lasts, and no range may be left from the day before.
RangeInv ==
    /\ RangePure
    /\ part = Opening =>
        \A s \in Symbols : /\ rangeBars[s] \subseteq {[day |-> day, part |-> Opening]}
                           /\ range[s] = {}

\* The layers trade on an opening range of this session's opening half hour.
THEOREM RangeCorrect == Spec => []RangePure
<1> USE DEF Early, Pre, Opening, Mid, Late, After, Parts
<1>1. Init => RangeInv
    BY DEF Init, RangeInv, RangePure, None
<1>2. TypeOK /\ RangeInv /\ [Next]_vars => RangeInv'
    <2> SUFFICES ASSUME TypeOK, RangeInv, [Next]_vars
                 PROVE  RangeInv'
        OBVIOUS
    <2>0. part \in Parts /\ day \in Nat
        BY DEF TypeOK
    <2>1. CASE SmallStep \/ UNCHANGED vars
        BY <2>0, <2>1, SmallFrame DEF RangeInv, RangePure, RangeDay
    <2>2. ASSUME NEW s \in Symbols, BarArrives(s)
          PROVE  RangeInv'
        <3>1. UNCHANGED <<day, part, range>>
            BY <2>2 DEF BarArrives, clock
        <3>2. RangePure'
            BY <3>1 DEF RangeInv, RangePure, RangeDay
        <3>3. ASSUME part = Opening
              PROVE  \A t \in Symbols : rangeBars'[t] \subseteq {[day |-> day, part |-> Opening]}
            <4>1. PICK p \in {part, part - 1} \intersect Parts :
                    rangeBars' = [rangeBars EXCEPT ![s] =
                        IF InWindow(p) THEN @ \union {[day |-> day, part |-> p]} ELSE @]
                BY <2>2 DEF BarArrives
            <4>2. InWindow(p) => p = Opening
                BY <3>3 DEF InWindow, Morning
            <4> QED
                BY <3>3, <4>1, <4>2 DEF RangeInv, TypeOK
        <3> QED
            BY <3>1, <3>2, <3>3 DEF RangeInv
    <2>3. CASE Dispatch
        BY <2>3 DEF Dispatch, RangeInv, RangePure, RangeDay, clock, store
    <2>4. CASE MarketOpens
        BY <2>4 DEF MarketOpens, FreshBars, None, RangeInv, RangePure
    <2>5. CASE RangeCloses
        BY <2>5 DEF RangeCloses, RangeInv, RangePure, RangeDay
    <2>6. CASE NextDay
        BY <2>0, <2>6 DEF NextDay, RangeInv, RangePure, RangeDay, store
    <2>7. CASE Restart
        BY <2>7 DEF Restart, None, RangeInv, RangePure
    <2> QED
        BY <2>1, <2>2, <2>3, <2>4, <2>5, <2>6, <2>7, StepCases
<1>3. RangeInv => RangePure
    BY DEF RangeInv
<1> QED
    BY <1>1, <1>2, <1>3, SessionTyped, PTL DEF Spec

\* Types and the pure opening range together: SessionInv.
THEOREM SessionCorrect == Spec => []SessionInv
BY SessionTyped, RangeCorrect, PTL DEF SessionInv

-----------------------------------------------------------------------------
(***************************************************************************)
(* L2's entries.                                                           *)
(***************************************************************************)

\* L2 remembers every symbol it has bought.
OrbInv == \A s \in Symbols : orbBuys[s] <= 1 /\ (orbBuys[s] > 0 => s \in triggered)

\* L2 signals one entry per symbol and session.
THEOREM OrbCorrect == Spec => []OneOrbEntry
<1>1. Init => OrbInv
    BY DEF Init, OrbInv, Zero
<1>2. TypeOK /\ OrbInv /\ [Next]_vars => OrbInv'
    <2> SUFFICES ASSUME TypeOK, OrbInv, [Next]_vars
                 PROVE  OrbInv'
        OBVIOUS
    <2>1. CASE SmallStep \/ UNCHANGED vars
        BY <2>1, SmallFrame DEF OrbInv
    <2>2. ASSUME NEW s \in Symbols, BarArrives(s)
          PROVE  OrbInv'
        BY <2>2 DEF BarArrives, OrbInv, layers
    <2>3. CASE Dispatch
        <3> DEFINE s == bar.symbol
        <3>1. s \in Symbols
            BY <2>3, DispatchChooses
        <3>2. PICK f, o : Chosen(s, f, o) /\ Evaluated(s, f, o)
            BY <2>3, DispatchChooses
        <3>3. triggered \subseteq triggered'
            BY <3>2 DEF Evaluated
        <3>4. ASSUME o["L2"].side = "BUY"
              PROVE  s \notin triggered /\ s \in triggered'
            <4>1. o["L2"] \in L2Outcomes(s)
                BY <3>2 DEF Chosen
            <4>2. o["L2"] = Buy /\ HeldNow("L2", s) = Untracked /\ s \notin triggered
                <5>1. \A h : Keep(h).side = "HOLD"
                    BY DEF Keep
                <5>2. Exit(TRUE).side = "EXIT" /\ Exit(FALSE).side = "EXIT"
                    BY DEF Exit
                <5> QED
                    BY <3>4, <4>1, <5>1, <5>2 DEF L2Outcomes, L2Enters, PriceExits
            <4>3. tracked["L2"][s] = Untracked
                BY <3>1, <4>2, HeldTyped
            <4>4. Triggers(s, o["L2"])
                BY <4>2, <4>3 DEF Triggers, Keep, Buy
            <4> QED
                BY <3>2, <4>2, <4>4 DEF Evaluated
        <3>5. orbBuys' = [orbBuys EXCEPT ![s] = IF o["L2"].side = "BUY" THEN @ + 1 ELSE @]
            BY <3>2 DEF Evaluated
        <3>6. ASSUME NEW t \in Symbols
              PROVE  orbBuys'[t] <= 1 /\ (orbBuys'[t] > 0 => t \in triggered')
            <4>1. orbBuys[t] \in Nat /\ orbBuys \in [Symbols -> Nat]
                BY DEF TypeOK
            <4>2. orbBuys[t] <= 1 /\ (orbBuys[t] > 0 => t \in triggered)
                BY DEF OrbInv
            <4>3. CASE t = s /\ o["L2"].side = "BUY"
                BY <3>1, <3>4, <3>5, <4>1, <4>2, <4>3
            <4>4. CASE ~(t = s /\ o["L2"].side = "BUY")
                BY <3>1, <3>3, <3>5, <4>1, <4>2, <4>4
            <4> QED
                BY <4>3, <4>4
        <3> QED
            BY <3>6 DEF OrbInv
    <2>4. CASE MarketOpens \/ Restart
        BY <2>4 DEF MarketOpens, Restart, Zero, OrbInv
    <2>5. CASE RangeCloses \/ NextDay
        BY <2>5 DEF RangeCloses, NextDay, OrbInv, layers
    <2> QED
        BY <2>1, <2>2, <2>3, <2>4, <2>5, StepCases
<1>3. OrbInv => OneOrbEntry
    BY DEF OrbInv, OneOrbEntry
<1> QED
    BY <1>1, <1>2, <1>3, SessionTyped, PTL DEF Spec

-----------------------------------------------------------------------------
(***************************************************************************)
(* The cooldown.                                                           *)
(***************************************************************************)

\* No entry is under way in a cooldown that began on an earlier bar.
THEOREM CooldownCorrect == Spec => []CooldownHolds
<1>1. Init => CooldownHolds
    BY DEF Init, CooldownHolds, Entering, IdleBar
<1>2. TypeOK /\ CooldownHolds /\ [Next]_vars => CooldownHolds'
    <2> SUFFICES ASSUME TypeOK, CooldownHolds, [Next]_vars
                 PROVE  CooldownHolds'
        OBVIOUS
    <2>0. bar \in BarState
        BY DEF TypeOK
    <2>1. CASE UNCHANGED <<bar, cooling>>
        BY <2>1 DEF CooldownHolds, Entering
    <2>2. ASSUME NEW s \in Symbols, CooldownEnds(s)
          PROVE  CooldownHolds'
        BY <2>2 DEF CooldownEnds, CooldownHolds, Entering
    <2>3. ASSUME bar'.pc \in {"idle", "stops", "stopExit"}
          PROVE  CooldownHolds'
        BY <2>3 DEF CooldownHolds, Entering
    <2>4. ASSUME NEW sig \in Signal, SignalDropped(sig) \/ BuyAccepted(sig) \/ ExitAccepted(sig)
          PROVE  CooldownHolds'
        <3>1. CASE SignalDropped(sig)
            BY <2>0, <3>1 DEF SignalDropped, CooldownHolds, Entering, BarState
        <3>2. CASE BuyAccepted(sig)
            BY <2>0, <3>2 DEF BuyAccepted, CooldownHolds, Entering, BarState
        <3>3. CASE ExitAccepted(sig)
            BY <2>0, <3>3 DEF ExitAccepted, CooldownHolds, Entering, BarState
        <3> QED
            BY <2>4, <3>1, <3>2, <3>3
    <2>5. CASE EntryReturned \/ ExitReturned
        BY <2>0, <2>5 DEF EntryReturned, ExitReturned, CooldownHolds, Entering, BarState
    <2>6. CASE Dispatch
        <3> DEFINE s == bar.symbol
        <3>1. PICK f, o : Chosen(s, f, o) /\ Evaluated(s, f, o)
            BY <2>6, DispatchChooses
        <3> DEFINE passed == {l \in Layers : \/ o[l].side = "EXIT"
                                             \/ o[l].side = "BUY" /\ Admits(s)}
                   sigs == {[layer |-> l, side |-> o[l].side] : l \in passed}
                   stops == \E l \in Layers : o[l].stop
        <3>2. /\ bar' = [bar EXCEPT !.pc = "signals", !.signals = sigs, !.stopped = stops]
              /\ cooling' = IF stops THEN cooling \union {s} ELSE cooling
            BY <3>1 DEF Evaluated
        <3>3. ASSUME NEW sig \in sigs, sig.side = "BUY"
              PROVE  s \notin cooling
            BY <3>3 DEF Admits
        <3> HIDE DEF sigs, stops
        <3>4. /\ bar'.pc = "signals" /\ bar'.signals = sigs
              /\ bar'.stopped = stops /\ bar'.symbol = s
            BY <2>0, <3>2 DEF BarState
        <3> QED
            BY <3>2, <3>3, <3>4 DEF CooldownHolds, Entering
    <2> QED
        <3>1. ASSUME NEW t \in Symbols, BarArrives(t)
              PROVE  bar'.pc = "stops"
            BY <3>1 DEF BarArrives, IdleBar
        <3>2. ASSUME NEW l \in Layers, StopSkipped(l) \/ StopHit(l)
              PROVE  bar'.pc \in {"stops", "stopExit"}
            BY <2>0, <3>2 DEF StopSkipped, StopHit, BarState
        <3>3. CASE StopExitReturned \/ BreakerActive \/ SignalsDone \/ Restart
            BY <2>0, <2>3, <3>3
               DEF StopExitReturned, BreakerActive, SignalsDone, Restart, IdleBar, BarState
        <3>4. CASE PartPasses \/ MarketOpens \/ RangeCloses \/ NextDay
            BY <2>1, <3>4 DEF PartPasses, MarketOpens, RangeCloses, NextDay
        <3>5. ASSUME NEW t \in Symbols, Preload(t)
              PROVE  UNCHANGED <<bar, cooling>>
            BY <3>5 DEF Preload
        <3>6. CASE UNCHANGED vars
            BY <2>1, <3>6 DEF vars
        <3> QED
            BY <2>1, <2>2, <2>3, <2>4, <2>5, <2>6, <3>1, <3>2, <3>3, <3>4, <3>5, <3>6
               DEF Next, Handler, Clock
<1> QED
    BY <1>1, <1>2, SessionTyped, PTL DEF Spec

-----------------------------------------------------------------------------
(***************************************************************************)
(* Giving up.                                                              *)
(***************************************************************************)

\* An entry of L1 is under way.
EnteringL1 ==
    \/ bar.pc = "entry" /\ bar.layer = "L1"
    \/ \E sig \in bar.signals : sig.side = "BUY" /\ sig.layer = "L1"

\* L1 looks at its time stop only when it has its bars of history: it has them
\* since the bar on which it bought, because no history is lost but in a restart.
WarmInv ==
    /\ \A s \in Symbols : tracked["L1"][s] # Untracked \/ "L1" \in book[s] => Warm("L1", s)
    /\ EnteringL1 => Warm("L1", bar.symbol)

LEMMA HistoryGrows ==
    ASSUME TypeOK, [Next]_vars, ~Restart, NEW s \in Symbols
    PROVE  Warm("L1", s) => Warm("L1", s)'
<1>1. /\ history \in [Symbols -> 0 .. MaxBars] /\ MaxBars \in Nat
      /\ MinBars["L1"] \in Nat
    BY SessionAssumption DEF TypeOK, SessionAssumption, Layers
<1>2. CASE history' = history
    BY <1>2 DEF Warm
<1>3. ASSUME NEW t \in Symbols, BarArrives(t)
      PROVE  history[s] <= history'[s]
    BY <1>1, <1>3 DEF BarArrives, AtMost
<1>4. ASSUME NEW t \in Symbols, Preload(t)
      PROVE  history[s] <= history'[s]
    BY <1>1, <1>4 DEF Preload
<1>5. ASSUME history' \in [Symbols -> 0 .. MaxBars], history[s] <= history'[s]
      PROVE  Warm("L1", s) => Warm("L1", s)'
    BY <1>1, <1>5 DEF Warm
<1>6. ASSUME NEW t \in Symbols, BarArrives(t) \/ Preload(t)
      PROVE  history' \in [Symbols -> 0 .. MaxBars]
    <2>1. CASE BarArrives(t)
        BY <1>1, <2>1 DEF BarArrives, AtMost
    <2>2. CASE Preload(t)
        BY <1>1, <2>2 DEF Preload
    <2> QED
        BY <1>6, <2>1, <2>2
<1>7. \/ \E t \in Symbols : BarArrives(t) \/ Preload(t)
      \/ history' = history
    <2>1. CASE \E l \in Layers : StopSkipped(l) \/ StopHit(l)
        BY <2>1 DEF StopSkipped, StopHit, store
    <2>2. CASE StopExitReturned \/ BreakerActive \/ EntryReturned \/ ExitReturned \/ SignalsDone
        BY <2>2 DEF StopExitReturned, BreakerActive, EntryReturned, ExitReturned, SignalsDone, store
    <2>3. CASE \E sig \in Signal : SignalDropped(sig) \/ BuyAccepted(sig) \/ ExitAccepted(sig)
        BY <2>3 DEF SignalDropped, BuyAccepted, ExitAccepted, store
    <2>4. CASE Dispatch \/ \E t \in Symbols : CooldownEnds(t)
        BY <2>4 DEF Dispatch, CooldownEnds, store
    <2>5. CASE PartPasses \/ MarketOpens \/ RangeCloses \/ NextDay
        BY <2>5 DEF PartPasses, MarketOpens, RangeCloses, NextDay, store
    <2>6. CASE UNCHANGED vars
        BY <2>6 DEF vars, store
    <2> QED
        BY <2>1, <2>2, <2>3, <2>4, <2>5, <2>6 DEF Next, Handler, Clock
<1> QED
    BY <1>2, <1>3, <1>4, <1>5, <1>6, <1>7

\* Only an entry under way puts a layer into the book, and only an evaluation
\* starts one.
LEMMA BarFrame ==
    ASSUME TypeOK, [Next]_vars, ~Dispatch, ~Restart
    PROVE  /\ \A s \in Symbols : "L1" \in book'[s] =>
                "L1" \in book[s] \/ (s = bar.symbol /\ EnteringL1)
           /\ EnteringL1' => EnteringL1 /\ bar'.symbol = bar.symbol
<1>0. bar \in BarState /\ book \in [Symbols -> SUBSET Layers]
    BY DEF TypeOK
<1>1. CASE UNCHANGED <<bar, book>>
    BY <1>1 DEF EnteringL1
<1>2. ASSUME book' = book, bar'.pc # "entry", bar'.signals = {}
      PROVE  ~EnteringL1' /\ book' = book
    BY <1>2 DEF EnteringL1
<1>3. ASSUME NEW t \in Symbols, BarArrives(t)
      PROVE  ~EnteringL1' /\ book' = book
    BY <1>2, <1>3 DEF BarArrives, IdleBar
<1>4. CASE BreakerActive \/ SignalsDone
    BY <1>2, <1>4 DEF BreakerActive, SignalsDone, IdleBar
<1>5. ASSUME NEW l \in Layers, StopSkipped(l) \/ StopHit(l)
      PROVE  /\ EnteringL1' => EnteringL1 /\ bar'.symbol = bar.symbol
             /\ book' = book
    BY <1>0, <1>5 DEF StopSkipped, StopHit, EnteringL1, BarState
<1>6. CASE StopExitReturned \/ ExitReturned
    BY <1>0, <1>6 DEF StopExitReturned, ExitReturned, EnteringL1, BarState
<1>7. CASE EntryReturned
    BY <1>0, <1>7 DEF EntryReturned, EnteringL1, BarState
<1>8. ASSUME NEW sig \in Signal, SignalDropped(sig)
      PROVE  /\ EnteringL1' => EnteringL1 /\ bar'.symbol = bar.symbol
             /\ book' = book
    BY <1>0, <1>8 DEF SignalDropped, EnteringL1, BarState
<1>9. ASSUME NEW sig \in Signal, BuyAccepted(sig)
      PROVE  /\ EnteringL1' => EnteringL1 /\ bar'.symbol = bar.symbol
             /\ book' = book
    BY <1>0, <1>9 DEF BuyAccepted, EnteringL1, BarState
<1>10. ASSUME NEW sig \in Signal, ExitAccepted(sig)
       PROVE  /\ EnteringL1' => EnteringL1 /\ bar'.symbol = bar.symbol
              /\ book' = book
    BY <1>0, <1>10 DEF ExitAccepted, EnteringL1, BarState
<1>11. CASE \/ \E s \in Symbols : CooldownEnds(s) \/ Preload(s)
            \/ PartPasses \/ MarketOpens \/ RangeCloses \/ NextDay
            \/ UNCHANGED vars
    BY <1>1, <1>11
       DEF CooldownEnds, Preload, PartPasses, MarketOpens, RangeCloses, NextDay, vars
<1> QED
    BY <1>3, <1>4, <1>5, <1>6, <1>7, <1>8, <1>9, <1>10, <1>11 DEF Next, Handler, Clock

\* What L1 and L3 remember after a bar, and L4's count.
LEMMA OutcomesGiveUp ==
    ASSUME TypeOK, GivesUp, WarmInv, NEW s \in Symbols, NEW f, NEW o, Chosen(s, f, o)
    PROVE  /\ o["L1"].held < MaxHold["L1"]
           /\ o["L1"].side = "BUY" \/ o["L1"].held # Untracked => Warm("L1", s)
           /\ o["L3"].held < MaxHold["L3"]
           /\ o["L4"].side = "HOLD" => f < FadeBars /\ (o["L4"].held = Untracked => f = 0)
<1>1. /\ MaxHold["L1"] \in Nat \ {0} /\ MaxHold["L3"] \in Nat \ {0}
      /\ FadeBars \in Nat \ {0}
    BY SessionAssumption DEF SessionAssumption
<1>2. /\ \A h : Keep(h).held = h /\ Keep(h).side = "HOLD"
      /\ Buy.held = 0 /\ Buy.side = "BUY"
      /\ \A b : Exit(b).held = Untracked /\ Exit(b).side = "EXIT"
    BY DEF Keep, Buy, Exit
<1>3. /\ o["L1"].held < MaxHold["L1"]
      /\ o["L1"].side = "BUY" \/ o["L1"].held # Untracked => Warm("L1", s)
    <2> DEFINE h == HeldNow("L1", s)
    <2>1. o["L1"] \in L1Outcomes(s)
        BY DEF Chosen
    <2>2. h # Untracked => Warm("L1", s)
        BY HeldTyped DEF WarmInv
    <2>3. CASE h = Untracked
        <3>1. o["L1"] = Keep(Untracked) \/ (o["L1"] = Buy /\ Warm("L1", s))
            BY <2>1, <2>3 DEF L1Outcomes
        <3> QED
            BY <1>1, <1>2, <3>1 DEF Untracked
    <2>4. CASE h # Untracked
        <3>1. \/ o["L1"] = Exit(TRUE) \/ o["L1"] = Exit(FALSE)
              \/ o["L1"] = Keep(h) /\ h < MaxHold["L1"]
            BY <2>1, <2>2, <2>4 DEF L1Outcomes, PriceExits
        <3>2. o["L1"].side # "BUY"
            BY <1>2, <3>1
        <3>3. o["L1"].held = Untracked \/ (o["L1"].held = h /\ h < MaxHold["L1"])
            BY <1>2, <3>1
        <3> HIDE DEF h
        <3> QED
            BY <1>1, <2>2, <2>4, <3>2, <3>3 DEF Untracked
    <2> QED
        BY <2>3, <2>4
<1>4. o["L3"].held < MaxHold["L3"]
    <2> DEFINE h == HeldNow("L3", s)
    <2>1. o["L3"] \in L3Outcomes(s)
        BY DEF Chosen
    <2>2. \/ o["L3"] = Keep(tracked["L3"][s])
          \/ o["L3"] = Keep(Untracked)
          \/ o["L3"] = Buy
          \/ o["L3"] = Exit(TRUE) \/ o["L3"] = Exit(FALSE)
          \/ o["L3"] = Keep(h) /\ h < MaxHold["L3"]
        BY <2>1 DEF L3Outcomes
    <2>3. \/ o["L3"].held = tracked["L3"][s]
          \/ o["L3"].held \in {Untracked, 0}
          \/ o["L3"].held = h /\ h < MaxHold["L3"]
        BY <1>2, <2>2
    <2>4. tracked["L3"][s] < MaxHold["L3"]
        BY DEF GivesUp
    <2> HIDE DEF h
    <2> QED
        BY <1>1, <2>3, <2>4 DEF Untracked
<1>5. o["L4"].side = "HOLD" => f < FadeBars /\ (o["L4"].held = Untracked => f = 0)
    <2>1. o["L4"] \in L4Outcomes(s, f) /\ f \in Fades(s)
        BY DEF Chosen
    <2>2. CASE ~Holds("L4", s)
        BY <1>1, <2>1, <2>2 DEF Fades, Holds, GivesUp
    <2>3. CASE Holds("L4", s)
        <3>1. \/ o["L4"] = Exit(TRUE) \/ o["L4"] = Exit(FALSE)
              \/ o["L4"] = Keep(0) /\ f < FadeBars
            BY <2>1, <2>3 DEF L4Outcomes
        <3>2. o["L4"].side = "HOLD" => o["L4"].held = 0 /\ f < FadeBars
            BY <1>2, <3>1
        <3> QED
            BY <3>2 DEF Untracked
    <2> QED
        BY <2>2, <2>3
<1> QED
    BY <1>3, <1>4, <1>5

\* No layer sits on a position past its limit of bars.
THEOREM GivesUpCorrect == Spec => []GivesUp
<1>1. Init => GivesUp /\ WarmInv
    BY SessionAssumption
       DEF Init, GivesUp, WarmInv, EnteringL1, NoneHeld, None, Zero, Untracked, IdleBar,
           Layers, SessionAssumption
<1>2. TypeOK /\ GivesUp /\ WarmInv /\ [Next]_vars => GivesUp' /\ WarmInv'
    <2> SUFFICES ASSUME TypeOK, GivesUp, WarmInv, [Next]_vars
                 PROVE  GivesUp' /\ WarmInv'
        OBVIOUS
    <2>0. bar \in BarState /\ bar.symbol \in Symbols
        BY DEF TypeOK, BarState
    <2>a. CASE Restart
        BY <2>a, SessionAssumption
           DEF Restart, GivesUp, WarmInv, EnteringL1, NoneHeld, None, Zero, Untracked,
               IdleBar, Layers, SessionAssumption
    <2>b. CASE Dispatch
        <3> DEFINE s == bar.symbol
        <3>1. UNCHANGED <<history, book>>
            BY <2>b DEF Dispatch, store
        <3>2. PICK f, o : Chosen(s, f, o) /\ Evaluated(s, f, o)
            BY <2>b, DispatchChooses
        <3>3. /\ tracked' = [l \in Layers |-> [tracked[l] EXCEPT ![s] = o[l].held]]
              /\ fade' = [fade EXCEPT ![s] = IF o["L4"].side = "HOLD" THEN f ELSE 0]
            BY <3>2 DEF Evaluated
        <3>4. \A l \in Layers, t \in Symbols :
                tracked'[l][t] = IF t = s THEN o[l].held ELSE tracked[l][t]
            BY <2>0, <3>3 DEF TypeOK
        <3>5. \A t \in Symbols :
                fade'[t] = IF t # s THEN fade[t]
                           ELSE IF o["L4"].side = "HOLD" THEN f ELSE 0
            BY <2>0, <3>3 DEF TypeOK
        <3>6. GivesUp'
            BY <2>0, <3>2, <3>4, <3>5, OutcomesGiveUp, SessionAssumption
               DEF GivesUp, Layers, SessionAssumption
        <3>7. \A t \in Symbols :
                tracked'["L1"][t] # Untracked \/ "L1" \in book'[t] => Warm("L1", t)'
            BY <2>0, <3>1, <3>2, <3>4, OutcomesGiveUp DEF WarmInv, Warm, Layers
        <3>8. EnteringL1' => Warm("L1", s)
            <4>1. /\ bar'.pc = "signals"
                  /\ \A sig \in bar'.signals : sig.side = "BUY" /\ sig.layer = "L1"
                        => o["L1"].side = "BUY"
                BY <2>0, <3>2 DEF Evaluated, BarState
            <4> QED
                BY <2>0, <3>2, <4>1, OutcomesGiveUp DEF EnteringL1
        <3>9. bar'.symbol = s
            BY <2>0, <3>2 DEF Evaluated, BarState
        <3> QED
            BY <3>1, <3>6, <3>7, <3>8, <3>9 DEF WarmInv, Warm
    <2>c. ASSUME ~Dispatch, ~Restart
          PROVE  GivesUp' /\ WarmInv'
        <3>1. \A s \in Symbols : Warm("L1", s) => Warm("L1", s)'
            BY <2>c, HistoryGrows
        <3>2. UNCHANGED fade /\ \A l \in {"L1", "L3", "L4"} : tracked'[l] = tracked[l]
            BY <2>c, StepCases, SmallFrame, ZenonT(30)
               DEF BarArrives, MarketOpens, RangeCloses, NextDay, layers, TypeOK, Layers
        <3>3. /\ \A s \in Symbols : "L1" \in book'[s] =>
                    "L1" \in book[s] \/ (s = bar.symbol /\ EnteringL1)
              /\ EnteringL1' => EnteringL1 /\ bar'.symbol = bar.symbol
            BY <2>c, BarFrame
        <3> QED
            BY <2>0, <3>1, <3>2, <3>3 DEF GivesUp, WarmInv
    <2> QED
        BY <2>a, <2>b, <2>c
<1> QED
    BY <1>1, <1>2, SessionTyped, PTL DEF Spec

=============================================================================
