-------------------------- MODULE SupervisionProofs --------------------------
(***************************************************************************)
(* The peak, the stop and the bound on the bars of a breach, for all       *)
(* values of equity, limits and numbers of events.                         *)
(***************************************************************************)
EXTENDS Supervision, TLAPS

-----------------------------------------------------------------------------
(***************************************************************************)
(* The inductive invariant.                                                *)
(***************************************************************************)

\* What the post-market task writes it has read from the account.
PostReads == post.pc = "saving" => post.equity \in Values

\* Each recorded peak is the default or a recorded value, and no smaller than the
\* default, the values and the peaks up to it.
PeaksGrow ==
    \A i \in DOMAIN rows :
        /\ rows[i].peak >= DefaultPeak
        /\ rows[i].peak = DefaultPeak \/ \E j \in 1 .. i : rows[j].value = rows[i].peak
        /\ \A j \in 1 .. i : rows[i].peak >= rows[j].value /\ rows[i].peak >= rows[j].peak

\* A process begins unstopped, and handles bars only on a connection.
FreshStart == phase \in {"down", "starting"} => heard = "none"

BarsStream == bar.pc # "idle" => phase = "streaming"

\* The bar that was dispatched during the breach is still to be checked, or its
\* check has read an equity that trips.
LateChecked ==
    \/ late = 0
    \/ late = 1 /\ bar.pc = "handling"
    \/ late = 1 /\ bar.pc = "checking" /\ (DailyLoss(bar.equity) \/ Drawdown(bar.equity))

-----------------------------------------------------------------------------
\* An element that none exceeds is the maximum.
LEMMA MaxIs ==
    ASSUME NEW S \in SUBSET Int, NEW m \in S, \A x \in S : m >= x
    PROVE  Max(S) = m
  <1>1. Max(S) \in S /\ \A x \in S : Max(S) >= x
    BY DEF Max
  <1>2. m >= Max(S) /\ Max(S) >= m
    BY <1>1
  <1>3. m \in Int /\ Max(S) \in Int
    BY <1>1
  <1> QED BY <1>2, <1>3

LEMMA Products == \A p, q, k \in Nat : p <= q => p * k <= q * k
  <1> SUFFICES ASSUME NEW p \in Nat, NEW q \in Nat, NEW k \in Nat, p <= q
               PROVE  p * k <= q * k
    OBVIOUS
  <1>1. \A x, y \in Nat : x * y \in Nat
    OBVIOUS
  <1>2. (q - p) * k \in Nat
    BY <1>1
  <1>3. q * k = p * k + (q - p) * k
    OBVIOUS
  <1>4. p * k \in Nat
    BY <1>1
  <1> QED BY <1>2, <1>3, <1>4

LEMMA RowsTyped ==
    ASSUME TypeOK
    PROVE  /\ Len(rows) \in Nat
           /\ DOMAIN rows = 1 .. Len(rows)
           /\ \A i \in DOMAIN rows : /\ rows[i] \in Row
                                     /\ rows[i].value \in Nat
                                     /\ rows[i].peak \in Nat
           /\ rows # <<>> => Len(rows) > 0
  <1>1. rows \in Seq(Row)
    BY DEF TypeOK
  <1>2. \A v \in Values : v \in Nat
    BY SupervisionAssumption DEF SupervisionAssumption
  <1>3. \A r \in Row : r.value \in Nat /\ r.peak \in Nat
    BY <1>2 DEF Row
  <1>4. \A i \in DOMAIN rows : rows[i] \in Row
    BY <1>1
  <1> QED BY <1>1, <1>3, <1>4

\* The peak is that of the latest row.
LEMMA PeakLast ==
    ASSUME TypeOK, PeaksGrow
    PROVE  /\ Peak \in Nat
           /\ rows = <<>> => Peak = DefaultPeak
           /\ rows # <<>> => Peak = rows[Len(rows)].peak
  <1>1. CASE rows = <<>>
    BY <1>1, SupervisionAssumption DEF Peak, SupervisionAssumption
  <1>2. CASE rows # <<>>
    <2> DEFINE S == {rows[i].peak : i \in DOMAIN rows}
               m == rows[Len(rows)].peak
    <2>1. Len(rows) \in DOMAIN rows
      BY <1>2, RowsTyped
    <2>2. S \in SUBSET Int /\ m \in S
      BY <2>1, RowsTyped
    <2>3. \A x \in S : m >= x
      BY <2>1, RowsTyped DEF PeaksGrow
    <2>4. Max(S) = m
      BY <2>2, <2>3, MaxIs
    <2> QED BY <1>2, <2>1, <2>4, RowsTyped DEF Peak
  <1> QED BY <1>1, <1>2

LEMMA NewPeakIs ==
    ASSUME TypeOK, PeaksGrow, NEW v \in Nat
    PROVE  /\ NewPeak(v) \in Nat
           /\ NewPeak(v) \in {Peak, v}
           /\ NewPeak(v) >= Peak
           /\ NewPeak(v) >= v
  <1>1. Peak \in Nat
    BY PeakLast
  <1>2. CASE Peak >= v
    <2>1. NewPeak(v) = Peak
      BY <1>1, <1>2, MaxIs DEF NewPeak
    <2> QED BY <1>1, <1>2, <2>1
  <1>3. CASE v >= Peak
    <2>1. NewPeak(v) = v
      BY <1>1, <1>3, MaxIs DEF NewPeak
    <2> QED BY <1>1, <1>3, <2>1
  <1> QED BY <1>1, <1>2, <1>3

\* A row is saved, or the rows stay.
LEMMA Saved ==
    ASSUME TypeOK, PostReads, PeaksGrow, PostMarketSaves
    PROVE  \/ rows' = rows
           \/ \E r \in Row : /\ rows' = Append(rows, r)
                             /\ r.peak \in {Peak, r.value}
                             /\ r.peak >= Peak
                             /\ r.peak >= r.value
  <1>1. post.equity \in Values /\ post.equity \in Nat
    BY SupervisionAssumption DEF PostReads, PostMarketSaves, SupervisionAssumption
  <1> DEFINE r == [value |-> post.equity, peak |-> NewPeak(post.equity), pnl |-> 0]
  <1>2. /\ r \in Row
        /\ r.peak = NewPeak(post.equity)
        /\ r.value = post.equity
    BY <1>1, NewPeakIs DEF Row
  <1>3. /\ r.peak \in {Peak, r.value}
        /\ r.peak >= Peak
        /\ r.peak >= r.value
    BY <1>1, <1>2, NewPeakIs
  <1>4. rows' = rows \/ rows' = Append(rows, r)
    BY DEF PostMarketSaves
  <1> QED BY <1>2, <1>3, <1>4

-----------------------------------------------------------------------------
LEMMA OccursTyped ==
    ASSUME TypeOK, NEW e \in Events, Occurs(e)
    PROVE  used' \in [Events -> Nat]
  BY DEF TypeOK, Occurs

LEMMA LateTyped == TypeOK /\ CountLate => late' \in Nat
  BY DEF TypeOK, CountLate

\* Types are kept by every step.
LEMMA TypeStep == TypeOK /\ PostReads /\ PeaksGrow /\ [Next]_vars => TypeOK' /\ PostReads'
  <1> SUFFICES ASSUME TypeOK, PostReads, PeaksGrow, [Next]_vars
               PROVE  TypeOK' /\ PostReads'
    OBVIOUS
  <1> USE SupervisionAssumption DEF SupervisionAssumption, PostReads, Phases, engine, db, market
  <1>e. {"fault", "stop", "reset", "crash"} = Events
    BY DEF Events
  <1>o. ASSUME used' = used \/ \E e \in Events : Occurs(e) PROVE used' \in [Events -> Nat]
    BY <1>o, OccursTyped DEF TypeOK
  <1>l. CASE UNCHANGED vars
    BY <1>l DEF vars, TypeOK
  <1>n. SUFFICES ASSUME Next PROVE TypeOK' /\ PostReads'
    BY <1>l
  <1>c. late' \in Nat
    BY <1>n, LateTyped DEF Next, EngineStep, BarStep, Environment
  <1>1. CASE Launch
    BY <1>1, <1>c DEF Launch, TypeOK
  <1>2. CASE EngineStarts
    BY <1>2, <1>c DEF EngineStarts, TypeOK
  <1>3. CASE BaselineRead
    <2>1. used' \in [Events -> Nat]
      BY <1>3, <1>e, <1>o DEF BaselineRead
    <2> QED BY <1>3, <1>c, <2>1 DEF BaselineRead, Connect, TypeOK
  <1>4. CASE WakesUp
    BY <1>4, <1>c DEF WakesUp, Connect, TypeOK
  <1>5. CASE StreamEnds
    BY <1>5, <1>c DEF StreamEnds, TypeOK
  <1>6. CASE StopSignal
    <2>1. used' \in [Events -> Nat]
      BY <1>6, <1>e, <1>o DEF StopSignal
    <2> QED BY <1>6, <1>c, <2>1 DEF StopSignal, TypeOK
  <1>7. CASE Crash
    <2>1. used' \in [Events -> Nat]
      BY <1>7, <1>e, <1>o DEF Crash
    <2> QED BY <1>7, <1>c, <2>1 DEF Crash, TypeOK, Idle
  <1>8. CASE BarDispatched
    BY <1>8, <1>c DEF BarDispatched, TypeOK, Idle
  <1>9. CASE CheckReads
    <2>1. used' \in [Events -> Nat]
      BY <1>9, <1>e, <1>o DEF CheckReads
    <2> QED BY <1>9, <1>c, <2>1 DEF CheckReads, TypeOK, Idle
  <1>10. CASE CheckEnds
    <2>1. used' \in [Events -> Nat]
      BY <1>10, <1>e, <1>o DEF CheckEnds
    <2>2. active' \in BOOLEAN
      BY <1>10 DEF CheckEnds, TypeOK
    <2> QED BY <1>10, <1>c, <2>1, <2>2 DEF CheckEnds, TypeOK, Idle
  <1>11. CASE PostMarketReads
    <2>1. used' \in [Events -> Nat]
      BY <1>11, <1>e, <1>o DEF PostMarketReads
    <2> QED BY <1>11, <1>c, <2>1 DEF PostMarketReads, TypeOK
  <1>12. CASE PostMarketSaves
    <2>1. used' \in [Events -> Nat]
      BY <1>12, <1>e, <1>o DEF PostMarketSaves
    <2>2. rows' \in Seq(Row)
      <3>1. rows \in Seq(Row)
        BY DEF TypeOK
      <3>2. \A r \in Row : Append(rows, r) \in Seq(Row)
        BY <3>1
      <3> QED BY <1>12, <3>1, <3>2, Saved
    <2>3. post' = Idle /\ UNCHANGED <<engine, bar, posted, active, market, heard>>
      BY <1>12 DEF PostMarketSaves
    <2> QED BY <1>c, <2>1, <2>2, <2>3 DEF TypeOK, Idle
  <1>13. CASE MarketMoves
    BY <1>13, <1>c DEF MarketMoves, TypeOK
  <1>14. CASE NextDay
    <2>1. /\ UNCHANGED <<phase, running, baseline, bar, post, active, rows, equity,
                         heard, used>>
          /\ posted' = FALSE /\ day' = day + 1
      BY <1>14 DEF NextDay
    <2>2. day' \in Nat
      BY <2>1 DEF TypeOK
    <2>3. TypeOK'
      BY <2>1, <2>2, <1>c, ZenonT(30) DEF TypeOK
    <2> QED BY <2>1, <2>3
  <1>15. CASE ResetBreaker
    <2>1. used' \in [Events -> Nat]
      BY <1>15, <1>e, <1>o DEF ResetBreaker
    <2> QED BY <1>15, <1>c, <2>1, ZenonT(30) DEF ResetBreaker, TypeOK
  <1> QED BY <1>n, <1>1, <1>2, <1>3, <1>4, <1>5, <1>6, <1>7, <1>8, <1>9, <1>10, <1>11,
             <1>12, <1>13, <1>14, <1>15 DEF Next, EngineStep, BarStep, Environment

-----------------------------------------------------------------------------
\* Only the post-market task touches the snapshots.
LEMMA RowsFrame ==
    ASSUME [Next]_vars
    PROVE  rows' = rows \/ PostMarketSaves
  BY DEF Next, EngineStep, BarStep, Environment, Launch, EngineStarts, BaselineRead,
         WakesUp, StreamEnds, StopSignal, Crash, BarDispatched, CheckReads, CheckEnds,
         PostMarketReads, MarketMoves, NextDay, ResetBreaker, vars, db

\* A new row's peak is the greatest of all.
LEMMA PeaksStep == TypeOK /\ PostReads /\ PeaksGrow /\ [Next]_vars => PeaksGrow'
  <1> SUFFICES ASSUME TypeOK, PostReads, PeaksGrow, [Next]_vars PROVE PeaksGrow'
    OBVIOUS
  <1>1. CASE rows' = rows
    BY <1>1 DEF PeaksGrow
  <1>2. ASSUME NEW r \in Row,
               rows' = Append(rows, r),
               r.peak \in {Peak, r.value}, r.peak >= Peak, r.peak >= r.value
        PROVE  PeaksGrow'
    <2> DEFINE n == Len(rows)
    <2>0. /\ n \in Nat
          /\ DOMAIN rows = 1 .. n
          /\ DOMAIN rows' = 1 .. n + 1
          /\ \A i \in 1 .. n : rows'[i] = rows[i]
          /\ rows'[n + 1] = r
      BY <1>2, RowsTyped DEF TypeOK
    <2>1. r.value \in Nat /\ r.peak \in Nat /\ Peak \in Nat /\ DefaultPeak \in Nat
      BY <1>2, PeakLast, SupervisionAssumption DEF Row, SupervisionAssumption
    <2>2. \A i \in 1 .. n : rows[i].peak \in Nat /\ rows[i].value \in Nat
      BY <2>0, RowsTyped
    <2>3. Peak >= DefaultPeak /\ \A j \in 1 .. n : Peak >= rows[j].value /\ Peak >= rows[j].peak
      <3>1. CASE n = 0
        <4>1. rows = <<>>
          BY <3>1 DEF TypeOK
        <4> QED BY <4>1, <3>1, <2>1, PeakLast
      <3>2. CASE n > 0
        <4>1. rows # <<>> /\ n \in DOMAIN rows
          BY <3>2, <2>0
        <4>2. Peak = rows[n].peak
          BY <4>1, PeakLast
        <4> QED BY <4>1, <4>2, <2>0 DEF PeaksGrow
      <3> QED BY <2>0, <3>1, <3>2
    <2>4. Peak = DefaultPeak \/ \E j \in 1 .. n : rows[j].value = Peak
      <3>1. CASE n = 0
        <4>1. rows = <<>>
          BY <3>1 DEF TypeOK
        <4> QED BY <4>1, PeakLast
      <3>2. CASE n > 0
        <4>1. rows # <<>> /\ n \in DOMAIN rows
          BY <3>2, <2>0
        <4>2. Peak = rows[n].peak
          BY <4>1, PeakLast
        <4> QED BY <4>1, <4>2, <2>0 DEF PeaksGrow
      <3> QED BY <2>0, <3>1, <3>2
    <2>5. ASSUME NEW i \in 1 .. n
          PROVE  /\ rows'[i].peak >= DefaultPeak
                 /\ rows'[i].peak = DefaultPeak \/ \E j \in 1 .. i : rows'[j].value = rows'[i].peak
                 /\ \A j \in 1 .. i : rows'[i].peak >= rows'[j].value
                                      /\ rows'[i].peak >= rows'[j].peak
      <3>1. \A j \in 1 .. i : j \in 1 .. n /\ rows'[j] = rows[j]
        BY <2>0
      <3> QED BY <2>0, <3>1 DEF PeaksGrow
    <2>6. /\ r.peak >= DefaultPeak
          /\ r.peak = DefaultPeak \/ \E j \in 1 .. n + 1 : rows'[j].value = r.peak
          /\ \A j \in 1 .. n + 1 : r.peak >= rows'[j].value /\ r.peak >= rows'[j].peak
      <3>1. r.peak >= DefaultPeak
        BY <1>2, <2>1, <2>3
      <3>2. ASSUME NEW j \in 1 .. n + 1
            PROVE  r.peak >= rows'[j].value /\ r.peak >= rows'[j].peak
        <4>1. CASE j = n + 1
          BY <4>1, <1>2, <2>0, <2>1
        <4>2. CASE j \in 1 .. n
          BY <4>2, <1>2, <2>0, <2>1, <2>2, <2>3
        <4> QED BY <4>1, <4>2, <2>0
      <3>3. r.peak = DefaultPeak \/ \E j \in 1 .. n + 1 : rows'[j].value = r.peak
        <4>1. CASE r.peak = r.value
          BY <4>1, <2>0
        <4>2. CASE r.peak = Peak
          BY <4>2, <2>0, <2>4
        <4> QED BY <4>1, <4>2, <1>2
      <3> QED BY <3>1, <3>2, <3>3
    <2> QED
      <3> SUFFICES ASSUME NEW i \in 1 .. n + 1
                   PROVE  /\ rows'[i].peak >= DefaultPeak
                          /\ rows'[i].peak = DefaultPeak
                             \/ \E j \in 1 .. i : rows'[j].value = rows'[i].peak
                          /\ \A j \in 1 .. i : rows'[i].peak >= rows'[j].value
                                               /\ rows'[i].peak >= rows'[j].peak
        BY <2>0 DEF PeaksGrow
      <3>1. CASE i = n + 1
        BY <3>1, <2>0, <2>6
      <3>2. CASE i \in 1 .. n
        BY <3>2, <2>5
      <3> QED BY <3>1, <3>2, <2>0
  <1> QED BY <1>1, <1>2, RowsFrame, Saved

\* Hence it is the maximum of what was recorded.
LEMMA PeaksExact == TypeOK /\ PeaksGrow => PeakExact
  <1> SUFFICES ASSUME TypeOK, PeaksGrow, NEW i \in DOMAIN rows
               PROVE  rows[i].peak = Max({DefaultPeak} \union {rows[j].value : j \in 1 .. i})
    BY DEF PeakExact
  <1> DEFINE S == {DefaultPeak} \union {rows[j].value : j \in 1 .. i}
  <1>1. \A j \in 1 .. i : j \in DOMAIN rows /\ rows[j].value \in Nat
    BY RowsTyped
  <1>2. S \in SUBSET Int /\ rows[i].peak \in S
    BY <1>1, RowsTyped, SupervisionAssumption DEF PeaksGrow, SupervisionAssumption
  <1>3. \A x \in S : rows[i].peak >= x
    BY DEF PeaksGrow
  <1> QED BY <1>2, <1>3, MaxIs

-----------------------------------------------------------------------------
\* Only a process that was never told to stop connects.
LEMMA StopStep ==
    TypeOK /\ FreshStart /\ BarsStream /\ StopHeard /\ [Next]_vars
        => FreshStart' /\ BarsStream' /\ StopHeard'
  <1> SUFFICES ASSUME TypeOK, FreshStart, BarsStream, StopHeard, [Next]_vars
               PROVE  FreshStart' /\ BarsStream' /\ StopHeard'
    OBVIOUS
  <1> USE DEF TypeOK, FreshStart, BarsStream, StopHeard, Phases
  <1>0. ASSUME UNCHANGED <<phase, running, heard>>, bar' = bar \/ bar'.pc = "idle"
        PROVE  FreshStart' /\ BarsStream' /\ StopHeard'
    BY <1>0
  <1>1. CASE Launch
    BY <1>1 DEF Launch
  <1>2. CASE EngineStarts
    BY <1>2 DEF EngineStarts
  <1>3. CASE BaselineRead
    BY <1>3 DEF BaselineRead, Connect
  <1>4. CASE WakesUp
    BY <1>4 DEF WakesUp, Connect
  <1>5. CASE StreamEnds
    BY <1>5 DEF StreamEnds
  <1>6. CASE StopSignal
    BY <1>6 DEF StopSignal
  <1>7. CASE Crash
    BY <1>7 DEF Crash, Idle
  <1>8. CASE BarDispatched
    BY <1>8 DEF BarDispatched, Dispatching, engine
  <1>9. CASE CheckReads
    <2>1. UNCHANGED <<phase, running, heard>> /\ phase = "streaming"
      BY <1>9 DEF CheckReads, engine
    <2> QED BY <2>1
  <1>10. CASE CheckEnds \/ PostMarketReads \/ PostMarketSaves \/ MarketMoves \/ NextDay
              \/ ResetBreaker \/ UNCHANGED vars
    BY <1>10, <1>0 DEF CheckEnds, Idle, PostMarketReads, PostMarketSaves, MarketMoves,
                       NextDay, ResetBreaker, vars, engine
  <1> QED BY <1>1, <1>2, <1>3, <1>4, <1>5, <1>6, <1>7, <1>8, <1>9, <1>10
          DEF Next, EngineStep, BarStep, Environment

-----------------------------------------------------------------------------
\* A higher peak and the same baseline: what tripped still trips.
LEMMA BreachStays ==
    ASSUME TypeOK, PostReads, PeaksGrow, TypeOK', PeaksGrow', [Next]_vars,
           baseline' = baseline, NEW v \in Nat
    PROVE  DailyLoss(v) \/ Drawdown(v) => DailyLoss(v)' \/ Drawdown(v)'
  <1>0. /\ Peak' \in Nat
        /\ rows' # <<>> => Peak' = rows'[Len(rows')].peak
    <2>1. (/\ Peak \in Nat
           /\ rows # <<>> => Peak = rows[Len(rows)].peak)'
      BY PeakLast, PTL
    <2> QED BY <2>1
  <1>1. Peak \in Nat /\ Peak' \in Nat
    BY <1>0, PeakLast
  <1>2. Peak <= Peak'
    <2>1. CASE rows' = rows
      BY <2>1, <1>1 DEF Peak
    <2>2. ASSUME NEW r \in Row, rows' = Append(rows, r), r.peak >= Peak PROVE Peak <= Peak'
      <3>1. rows' # <<>> /\ rows'[Len(rows')] = r
        BY <2>2, SMTT(30) DEF TypeOK
      <3>2. Peak' = r.peak
        BY <3>1, <1>0
      <3> QED BY <2>2, <3>2, <1>1
    <2> QED BY <2>1, <2>2, RowsFrame, Saved
  <1>3. 100 - DrawdownPct \in Nat
    BY SupervisionAssumption DEF SupervisionAssumption
  <1>4. Peak * (100 - DrawdownPct) <= Peak' * (100 - DrawdownPct)
    BY <1>1, <1>2, <1>3, Products
  <1>5. \A x, y \in Nat : x * y \in Nat
    OBVIOUS
  <1>6. /\ Peak * (100 - DrawdownPct) \in Nat
        /\ Peak' * (100 - DrawdownPct) \in Nat
    BY <1>1, <1>3, <1>5
  <1>7. Drawdown(v) => Drawdown(v)'
    BY <1>4, <1>6 DEF Drawdown
  <1>8. DailyLoss(v) => DailyLoss(v)'
    BY DEF DailyLoss
  <1> QED BY <1>7, <1>8

\* The one bar that a breach lets through is followed to its check.
LEMMA LateStep ==
    ASSUME TypeOK, PostReads, PeaksGrow, BarsStream, LateChecked,
           TypeOK', PeaksGrow', [Next]_vars
    PROVE  LateChecked'
  <1> USE DEF LateChecked
  <1>0. CASE UNCHANGED vars
    BY <1>0 DEF vars, engine, db, DailyLoss, Drawdown, Peak
  <1>1. CASE late' = 0
    BY <1>1
  <1>n. SUFFICES ASSUME Next, late' # 0 PROVE LateChecked'
    BY <1>0, <1>1
  <1>2. CountLate
    BY <1>n DEF Next, EngineStep, BarStep, Environment
  <1>3. /\ InBreach' /\ ~active' /\ phase' # "down" /\ used'["fault"] = used["fault"]
        /\ late' = IF bar.pc = "idle" /\ bar'.pc = "handling" THEN late + 1 ELSE late
    BY <1>n, <1>2 DEF CountLate
  <1>f. ~Occurs("fault")
    BY <1>3 DEF Occurs, TypeOK, Events
  <1>4. CASE BarDispatched
    <2>1. bar.pc = "idle" /\ bar'.pc = "handling"
      BY <1>4 DEF BarDispatched, Dispatching, Idle
    <2> QED BY <2>1, <1>3
  <1>5. CASE CheckReads
    <2>1. bar.pc = "handling" /\ bar' = [pc |-> "checking", equity |-> equity]
      BY <1>5, <1>f DEF CheckReads
    <2>2. UNCHANGED <<baseline, rows, equity>>
      BY <1>5 DEF CheckReads, engine, db, market
    <2>3. late' = 1
      BY <2>1, <1>3, <1>n
    <2>4. DailyLoss(equity)' \/ Drawdown(equity)'
      BY <1>3 DEF InBreach
    <2>5. bar'.pc = "checking" /\ bar'.equity = equity /\ equity' = equity
      BY <2>1, <2>2
    <2>6. DailyLoss(bar.equity)' \/ Drawdown(bar.equity)'
      BY <2>4, <2>5 DEF DailyLoss, Drawdown
    <2> QED BY <2>3, <2>5, <2>6
  <1>6. CASE CheckEnds
    <2>1. bar.pc = "checking" /\ bar' = Idle
      BY <1>6 DEF CheckEnds
    <2>2. late' = late
      BY <2>1, <1>3
    <2>3. DailyLoss(bar.equity) \/ Drawdown(bar.equity)
      BY <2>1, <2>2, <1>n
    <2>4. Breached(bar.equity)
      BY <2>3 DEF Breached
    <2>5. active'
      BY <2>4, <1>6, <1>f DEF CheckEnds
    <2> QED BY <2>5, <1>3
  <1>7. ASSUME bar' = bar, bar.pc # "idle" => baseline' = baseline PROVE LateChecked'
    <2>1. late' = late /\ bar.pc # "idle"
      BY <1>3, <1>7, <1>n
    <2>2. bar.equity \in Nat
      <3>1. bar.equity \in {0} \union Values
        BY DEF TypeOK
      <3>2. \A v \in {0} \union Values : v \in Nat
        BY SupervisionAssumption DEF SupervisionAssumption
      <3> QED BY <3>1, <3>2
    <2>3. CASE late = 1 /\ bar.pc = "handling"
      BY <2>1, <2>3, <1>7
    <2>4. CASE late = 1 /\ bar.pc = "checking" /\ (DailyLoss(bar.equity) \/ Drawdown(bar.equity))
      <3> DEFINE v == bar.equity
      <3>1. DailyLoss(v)' \/ Drawdown(v)'
        <4>1. ASSUME NEW w \in Nat, DailyLoss(w) \/ Drawdown(w)
              PROVE  DailyLoss(w)' \/ Drawdown(w)'
          BY <4>1, <2>1, <1>7, BreachStays
        <4>2. (baseline' > 0 /\ 100 * (v - baseline') < -DailyPct * baseline')
              \/ 100 * v < Peak' * (100 - DrawdownPct)
          BY <4>1, <2>2, <2>4 DEF DailyLoss, Drawdown
        <4> QED BY <4>2, <1>7 DEF DailyLoss, Drawdown
      <3> QED BY <3>1, <2>1, <2>4, <1>7
    <2> QED BY <2>1, <2>3, <2>4, <1>n
  <1>8. CASE EngineStarts \/ BaselineRead \/ WakesUp
    BY <1>8, <1>7 DEF EngineStarts, BaselineRead, WakesUp, BarsStream
  <1>9. CASE Crash
    BY <1>9, <1>3 DEF Crash
  <1>10. CASE Launch \/ StreamEnds \/ StopSignal \/ PostMarketReads \/ PostMarketSaves
              \/ MarketMoves \/ NextDay \/ ResetBreaker
    BY <1>10, <1>7 DEF Launch, StreamEnds, StopSignal, PostMarketReads, PostMarketSaves,
                       MarketMoves, NextDay, ResetBreaker, engine
  <1> QED BY <1>n, <1>4, <1>5, <1>6, <1>8, <1>9, <1>10 DEF Next, EngineStep, BarStep, Environment

-----------------------------------------------------------------------------
(***************************************************************************)
(* The theorems.                                                           *)
(***************************************************************************)

IInv ==
    /\ TypeOK
    /\ PostReads
    /\ PeaksGrow
    /\ FreshStart
    /\ BarsStream
    /\ StopHeard
    /\ LateChecked

LEMMA InitInv == Init => IInv
  <1> SUFFICES ASSUME Init PROVE IInv
    OBVIOUS
  <1> USE DEF Init, Idle, Phases
  <1>1. rows = <<>> /\ rows \in Seq(Row) /\ DOMAIN rows = {}
    OBVIOUS
  <1>2. TypeOK
    BY <1>1 DEF TypeOK
  <1>3. PeaksGrow
    BY <1>1 DEF PeaksGrow
  <1> QED BY <1>2, <1>3 DEF IInv, PostReads, FreshStart, BarsStream, StopHeard, LateChecked

LEMMA StepInv == IInv /\ [Next]_vars => IInv'
  <1> SUFFICES ASSUME IInv, [Next]_vars PROVE IInv'
    OBVIOUS
  <1>1. TypeOK' /\ PostReads'
    BY TypeStep DEF IInv
  <1>2. PeaksGrow'
    BY PeaksStep DEF IInv
  <1>3. FreshStart' /\ BarsStream' /\ StopHeard'
    BY StopStep DEF IInv
  <1>4. LateChecked'
    BY <1>1, <1>2, LateStep DEF IInv
  <1> QED BY <1>1, <1>2, <1>3, <1>4 DEF IInv

LEMMA Invariance == Spec => []IInv
  BY InitInv, StepInv, PTL DEF Spec

\* The drawdown is measured from the highest value ever recorded, a stopped engine
\* opens no connection, and bars are handled on one (StreamEngine.start, stop,
\* _post_market_task).
THEOREM SupervisionCorrect == Spec => []SupervisionInv
  <1>1. IInv => SupervisionInv
    BY PeaksExact DEF IInv, SupervisionInv, BarsStream
  <1> QED BY <1>1, Invariance, PTL

\* In one breach at most one further bar is dispatched (the check at the end of
\* StreamEngine._on_bar).
THEOREM LateCorrect == Spec => []LateBounded
  <1>1. IInv => LateBounded
    BY DEF IInv, LateChecked, LateBounded
  <1> QED BY <1>1, Invariance, PTL

=============================================================================
