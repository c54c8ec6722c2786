------------------------- MODULE AccountMonitorProofs -------------------------
(***************************************************************************)
(* Start-up buys back no more and no less than the inherited shorts, for   *)
(* all symbols, sizes, numbers of attempts and of events.                  *)
(***************************************************************************)
EXTENDS AccountMonitor, TLAPS

-----------------------------------------------------------------------------
(***************************************************************************)
(* The inductive invariant.                                                *)
(***************************************************************************)

\* What is still to be bought back is a short nobody has ordered yet, as the
\* monitor has it, although it is polled between the purchases.
Due ==
    main.pc = "covering" =>
        \A s \in main.todo \intersect Untouched :
            held[s] < 0 /\ pending[s] = 0 /\ view[s] = held[s]

\* An order that is to be sent is for the short and, even if parts of the short
\* were filled meanwhile, for no less than what is left of it.
Ordered ==
    order.step = "buy" =>
        /\ order.symbol \in Untouched =>
              pending[order.symbol] = 0 /\ order.qty <= -held[order.symbol]
        /\ order.symbol \notin touched \union missed => order.qty >= -held[order.symbol]

\* A position only grows between two polls; and every short is bought back, on
\* the list, or about to be sent.
Known ==
    main.pc \in {"covering", "sleeping", "started"} =>
        \A s \in Symbols \ (touched \union missed) :
            /\ view[s] <= held[s]
            /\ \/ held[s] + pending[s] >= 0
               \/ s \in main.todo
               \/ order.step = "buy" /\ order.symbol = s

\* Outside the loop over it the list is empty.
Listed == main.pc # "covering" => main.todo = {}

IInv == MonitorInv /\ CoverOnce /\ Listed /\ Due /\ Ordered /\ Known

-----------------------------------------------------------------------------
LEMMA InitIInv == Init => IInv
  <1> SUFFICES ASSUME Init PROVE IInv
    OBVIOUS
  <1>1. /\ main = [pc |-> "down", todo |-> {}]
        /\ order = [step |-> "none", symbol |-> "none", qty |-> 0, attempt |-> 0]
        /\ pending = [s \in Symbols |-> 0]
    BY DEF Init, At, NoOrder, Nothing
  <1>2. TypeOK
    <2>1. held \in [Symbols -> Int]
      BY MonitorAssumption DEF Init, MonitorAssumption
    <2>2. pending \in [Symbols -> Nat] /\ view \in [Symbols -> Int] /\ used \in [Events -> Nat]
      BY <1>1 DEF Init, Nothing
    <2>3. touched = {} /\ doubled = {} /\ missed = {}
      BY DEF Init
    <2>4. 0 \in 0 .. Attempts
      BY MonitorAssumption DEF MonitorAssumption
    <2> QED BY <1>1, <2>1, <2>2, <2>3, <2>4 DEF TypeOK, Phases
  <1>3. MonitorInv /\ Listed /\ Due /\ Ordered /\ Known
    BY <1>1, <1>2 DEF MonitorInv, Listed, Due, Ordered, Known
  <1>4. CoverOnce
    BY <1>1 DEF CoverOnce, Untouched
  <1> QED BY <1>3, <1>4 DEF IInv

LEMMA StutterIInv == ASSUME IInv, UNCHANGED vars PROVE IInv'
  BY DEF IInv, MonitorInv, CoverOnce, Listed, Due, Ordered, Known, TypeOK, Untouched,
         vars, account, ghosts

-----------------------------------------------------------------------------
(***************************************************************************)
(* run_live_trading.                                                       *)
(***************************************************************************)

\* What Cover needs of the list and of what the monitor has, and what it leaves.
LEMMA CoverStep ==
    ASSUME NEW todo \in SUBSET Symbols, NEW v \in [Symbols -> Int], Cover(todo, v)
    PROVE  \/ /\ main' = [pc |-> "failed", todo |-> {}]
              /\ order' = [step |-> "none", symbol |-> "none", qty |-> 0, attempt |-> 0]
              /\ \E s \in todo : v[s] = 0
           \/ \E s \in todo :
                /\ v[s] # 0
                /\ main' = [pc |-> "covering", todo |-> todo \ {s}]
                /\ \E q \in Nat :
                     /\ order' = [step |-> "buy", symbol |-> s, qty |-> q, attempt |-> 1]
                     /\ q >= -v[s]
                     /\ v[s] < 0 => q = -v[s]
  <1>1. PICK s \in todo :
            IF v[s] = 0 THEN main' = At("failed") /\ order' = NoOrder
            ELSE /\ main' = [pc |-> "covering", todo |-> todo \ {s}]
                 /\ order' = [step |-> "buy", symbol |-> s, qty |-> Abs(v[s]), attempt |-> 1]
    BY DEF Cover
  <1>2. v[s] \in Int
    OBVIOUS
  <1>3. Abs(v[s]) \in Nat /\ Abs(v[s]) >= -v[s] /\ (v[s] < 0 => Abs(v[s]) = -v[s])
    BY <1>2 DEF Abs
  <1> QED BY <1>1, <1>3 DEF At, NoOrder

LEMMA OccursTyped == ASSUME TypeOK, NEW e \in Events, Occurs(e) PROVE used' \in [Events -> Nat]
  BY DEF TypeOK, Occurs

LEMMA EventsAre == {"fault", "lost", "outside", "crash"} \subseteq Events
  BY DEF Events

LEMMA LaunchIInv == ASSUME IInv, Launch PROVE IInv'
  <1>t. TypeOK
    BY DEF IInv, MonitorInv
  <1>1. /\ touched' = {} /\ doubled' = {s \in Symbols : pending[s] > 0}
        /\ held' = held /\ pending' = pending
        /\ used' \in [Events -> Nat]
        /\ \/ view' = held /\ missed' = {}
           \/ view' = Nothing /\ missed' = Symbols
    BY <1>t, OccursTyped, EventsAre DEF Launch, account, TypeOK
  <1>2. held \in [Symbols -> Int] /\ pending \in [Symbols -> Nat] /\ view' \in [Symbols -> Int]
    BY <1>1, <1>t DEF TypeOK, Nothing
  <1>3. CASE ShortSymbols(view') = {}
    <2>1. main' = [pc |-> "started", todo |-> {}]
          /\ order' = [step |-> "none", symbol |-> "none", qty |-> 0, attempt |-> 0]
      BY <1>3 DEF Launch, At, NoOrder
    <2>2. missed' = Symbols \/ \A s \in Symbols : view'[s] = held[s] /\ held[s] >= 0
      BY <1>1, <1>2, <1>3 DEF ShortSymbols
    <2>3. TypeOK'
      BY <1>1, <1>2, <2>1, MonitorAssumption DEF TypeOK, Phases, MonitorAssumption
    <2>4. MonitorInv' /\ Listed' /\ Due' /\ Ordered'
      BY <2>1, <2>3 DEF MonitorInv, Listed, Due, Ordered
    <2>5. CoverOnce'
      BY <1>1, <1>2 DEF CoverOnce, Untouched
    <2>6. Known'
      <3>1. SUFFICES ASSUME NEW s \in Symbols, s \notin missed'
                     PROVE  view'[s] <= held'[s] /\ held'[s] + pending'[s] >= 0
        BY <1>1 DEF Known
      <3>2. view'[s] = held[s] /\ held[s] >= 0
        BY <2>2, <3>1
      <3>3. held[s] \in Int /\ pending[s] \in Nat /\ held' = held /\ pending' = pending
        BY <1>1, <1>2
      <3> QED BY <3>2, <3>3
    <2> QED BY <2>4, <2>5, <2>6 DEF IInv
  <1>4. CASE ShortSymbols(view') # {}
    <2>1. /\ Cover(ShortSymbols(view'), view')
          /\ view' = held /\ missed' = {}
      BY <1>1, <1>4 DEF Launch, ShortSymbols, Nothing
    <2> DEFINE shorts == {s \in Symbols : held[s] < 0}
    <2>2. ShortSymbols(view') = shorts
      BY <2>1 DEF ShortSymbols
    <2>3. PICK s \in shorts, q \in Nat :
            /\ main' = [pc |-> "covering", todo |-> shorts \ {s}]
            /\ order' = [step |-> "buy", symbol |-> s, qty |-> q, attempt |-> 1]
            /\ q = -held[s]
      BY <2>1, <2>2, <1>2, CoverStep
    <2>4. TypeOK'
      BY <1>1, <1>2, <2>1, <2>3, MonitorAssumption DEF TypeOK, Phases, MonitorAssumption
    <2>5. MonitorInv' /\ Listed'
      BY <2>3, <2>4 DEF MonitorInv, Listed
    <2>6. CoverOnce'
      BY <1>1, <1>2 DEF CoverOnce, Untouched
    <2>7. \A r \in Untouched' : pending[r] = 0
      BY <1>1, <1>2 DEF Untouched
    <2>8. Due'
      BY <1>1, <2>1, <2>3, <2>7 DEF Due
    <2>9. Ordered'
      BY <1>1, <1>2, <2>3, <2>7 DEF Ordered
    <2>10. Known'
      <3>1. SUFFICES ASSUME NEW r \in Symbols
                     PROVE  /\ view'[r] <= held'[r]
                            /\ \/ held'[r] + pending'[r] >= 0
                               \/ r \in main'.todo
                               \/ order'.step = "buy" /\ order'.symbol = r
        BY DEF Known
      <3>2. held[r] \in Int /\ pending[r] \in Nat
        BY <1>2
      <3>3. held[r] < 0 => r \in shorts
        OBVIOUS
      <3> QED BY <1>1, <2>1, <2>3, <3>2, <3>3
    <2> QED BY <2>5, <2>6, <2>8, <2>9, <2>10 DEF IInv
  <1> QED BY <1>3, <1>4

LEMMA CoverReturnedIInv == ASSUME IInv, CoverReturned PROVE IInv'
  <1>t. TypeOK
    BY DEF IInv, MonitorInv
  <1>1. /\ held' = held /\ pending' = pending /\ view' = view
        /\ touched' = touched /\ doubled' = doubled /\ missed' = missed /\ used' = used
        /\ main.pc = "covering" /\ order.step = "done"
    BY DEF CoverReturned, account, ghosts
  <1>2. CoverOnce' /\ Untouched' = Untouched
    BY <1>1 DEF IInv, CoverOnce, Untouched
  <1>3. CASE main.todo = {}
    <2>1. main' = [pc |-> "sleeping", todo |-> {}]
          /\ order' = [step |-> "none", symbol |-> "none", qty |-> 0, attempt |-> 0]
      BY <1>3 DEF CoverReturned, At, NoOrder
    <2>2. TypeOK'
      BY <1>t, <1>1, <2>1, MonitorAssumption DEF TypeOK, Phases, MonitorAssumption
    <2>3. MonitorInv' /\ Listed' /\ Due' /\ Ordered'
      BY <2>1, <2>2 DEF MonitorInv, Listed, Due, Ordered
    <2>4. Known'
      BY <1>1, <1>3, <2>1 DEF IInv, Known
    <2> QED BY <1>2, <2>3, <2>4 DEF IInv
  <1>4. CASE main.todo # {}
    <2>1. Cover(main.todo, view) /\ main.todo \in SUBSET Symbols /\ view \in [Symbols -> Int]
      BY <1>t, <1>4 DEF CoverReturned, TypeOK
    <2>2. \A r \in main.todo \intersect Untouched :
              held[r] < 0 /\ pending[r] = 0 /\ view[r] = held[r]
      BY <1>1 DEF IInv, Due
    <2>3. CASE /\ main' = [pc |-> "failed", todo |-> {}]
               /\ order' = [step |-> "none", symbol |-> "none", qty |-> 0, attempt |-> 0]
               /\ \E s \in main.todo : view[s] = 0
      <3>1. PICK s \in main.todo : view[s] = 0
        BY <2>3
      <3>2. s \notin Untouched
        BY <2>2, <3>1
      <3>3. touched \union doubled # {}
        BY <2>1, <3>2 DEF Untouched
      <3>4. TypeOK'
        BY <1>t, <1>1, <2>3, MonitorAssumption DEF TypeOK, Phases, MonitorAssumption
      <3>5. MonitorInv' /\ Listed' /\ Due' /\ Ordered' /\ Known'
        BY <1>1, <2>3, <3>3, <3>4 DEF MonitorInv, Listed, Due, Ordered, Known
      <3> QED BY <1>2, <3>5 DEF IInv
    <2>4. CASE \E s \in main.todo :
                /\ view[s] # 0
                /\ main' = [pc |-> "covering", todo |-> main.todo \ {s}]
                /\ \E q \in Nat :
                     /\ order' = [step |-> "buy", symbol |-> s, qty |-> q, attempt |-> 1]
                     /\ q >= -view[s]
                     /\ view[s] < 0 => q = -view[s]
      <3>1. PICK s \in main.todo, q \in Nat :
                /\ main' = [pc |-> "covering", todo |-> main.todo \ {s}]
                /\ order' = [step |-> "buy", symbol |-> s, qty |-> q, attempt |-> 1]
                /\ q >= -view[s]
                /\ view[s] < 0 => q = -view[s]
        BY <2>4
      <3>2. TypeOK'
        BY <1>t, <1>1, <2>1, <3>1, MonitorAssumption DEF TypeOK, Phases, MonitorAssumption
      <3>3. MonitorInv' /\ Listed'
        BY <2>1, <3>1, <3>2 DEF MonitorInv, Listed
      <3>4. Due'
        BY <1>1, <1>2, <2>2, <3>1 DEF Due
      <3>5. s \in Untouched => pending[s] = 0 /\ q <= -held[s]
        BY <1>t, <2>1, <2>2, <3>1 DEF TypeOK
      <3>6. s \notin touched \union missed => q >= -held[s]
        <4>1. SUFFICES ASSUME s \notin touched \union missed PROVE q >= -held[s]
          OBVIOUS
        <4>2. view[s] <= held[s]
          BY <1>1, <2>1, <4>1 DEF IInv, Known
        <4>3. view[s] \in Int /\ held[s] \in Int
          BY <1>t, <2>1 DEF TypeOK
        <4> QED BY <3>1, <4>2, <4>3
      <3>7. Ordered'
        BY <1>1, <1>2, <3>1, <3>5, <3>6 DEF Ordered
      <3>8. Known'
        BY <1>1, <3>1 DEF IInv, Known
      <3> QED BY <1>2, <3>3, <3>4, <3>7, <3>8 DEF IInv
    <2> QED BY <2>1, <2>3, <2>4, CoverStep
  <1> QED BY <1>3, <1>4

\* A poll only brings the monitor up to date.
LEMMA PolledKnown ==
    ASSUME IInv, Polled, UNCHANGED <<account, order, ghosts>>,
           main'.pc \in {main.pc, "started"}, main'.todo = main.todo,
           main.pc \in {"covering", "sleeping", "started"},
           main' \in [pc : Phases, todo : SUBSET Symbols]
    PROVE  /\ TypeOK' /\ CoverOnce' /\ Ordered' /\ Known'
           /\ main'.pc = main.pc => Due'
  <1>t. TypeOK
    BY DEF IInv, MonitorInv
  <1>1. /\ held' = held /\ pending' = pending /\ order' = order
        /\ touched' = touched /\ doubled' = doubled /\ missed' = missed
        /\ used' \in [Events -> Nat]
        /\ view' = held \/ view' = view
    BY <1>t, OccursTyped, EventsAre DEF Polled, PollFails, account, ghosts, TypeOK
  <1>2. TypeOK'
    BY <1>t, <1>1 DEF TypeOK
  <1>3. CoverOnce' /\ Untouched' = Untouched /\ Ordered'
    BY <1>1 DEF IInv, CoverOnce, Untouched, Ordered
  <1>4. Known'
    <2>1. SUFFICES ASSUME NEW s \in Symbols, s \notin touched \union missed
                   PROVE  /\ view'[s] <= held[s]
                          /\ \/ held[s] + pending[s] >= 0
                             \/ s \in main.todo
                             \/ order.step = "buy" /\ order.symbol = s
      BY <1>1 DEF Known
    <2>2. /\ view[s] <= held[s]
          /\ \/ held[s] + pending[s] >= 0
             \/ s \in main.todo
             \/ order.step = "buy" /\ order.symbol = s
      BY <2>1 DEF IInv, Known
    <2>3. held[s] \in Int /\ held[s] <= held[s]
      BY <1>t DEF TypeOK
    <2> QED BY <1>1, <2>2, <2>3
  <1>5. ASSUME main'.pc = main.pc PROVE Due'
    BY <1>1, <1>3, <1>5 DEF IInv, Due
  <1> QED BY <1>2, <1>3, <1>4, <1>5

LEMMA SleptIInv == ASSUME IInv, Slept PROVE IInv'
  <1>t. TypeOK /\ MonitorInv /\ Listed
    BY DEF IInv, MonitorInv
  <1>1. /\ main.pc = "sleeping" /\ main' = [pc |-> "started", todo |-> {}]
        /\ main.todo = {} /\ order' = order
    BY <1>t DEF Slept, At, Listed
  <1>2. order.step = "none"
    BY <1>t, <1>1 DEF MonitorInv, TypeOK
  <1>3. TypeOK' /\ CoverOnce' /\ Ordered' /\ Known'
    BY <1>1, PolledKnown DEF Slept, Phases
  <1>4. MonitorInv' /\ Listed' /\ Due'
    BY <1>1, <1>2, <1>3 DEF MonitorInv, Listed, Due
  <1> QED BY <1>3, <1>4 DEF IInv

LEMMA PollIInv == ASSUME IInv, Poll PROVE IInv'
  <1>t. TypeOK /\ MonitorInv /\ Listed
    BY DEF IInv, MonitorInv
  <1>1. TypeOK' /\ CoverOnce' /\ Ordered' /\ Known' /\ Due'
    BY <1>t, PolledKnown DEF Poll, TypeOK
  <1>2. MonitorInv' /\ Listed'
    BY <1>t, <1>1 DEF Poll, ghosts, MonitorInv, Listed
  <1> QED BY <1>1, <1>2 DEF IInv

LEMMA CrashIInv == ASSUME IInv, Crash PROVE IInv'
  <1>t. TypeOK
    BY DEF IInv, MonitorInv
  <1>1. /\ main' = [pc |-> "down", todo |-> {}]
        /\ order' = [step |-> "none", symbol |-> "none", qty |-> 0, attempt |-> 0]
        /\ held' = held /\ pending' = pending /\ view' = view
        /\ touched' = touched /\ doubled' = doubled /\ missed' = missed
        /\ used' \in [Events -> Nat]
    BY <1>t, OccursTyped, EventsAre DEF Crash, At, NoOrder, account, ghosts
  <1>2. TypeOK'
    BY <1>t, <1>1, MonitorAssumption DEF TypeOK, Phases, MonitorAssumption
  <1>3. CoverOnce'
    BY <1>1 DEF IInv, CoverOnce, Untouched
  <1>4. MonitorInv' /\ Listed' /\ Due' /\ Ordered' /\ Known'
    BY <1>1, <1>2 DEF MonitorInv, Listed, Due, Ordered, Known
  <1> QED BY <1>3, <1>4 DEF IInv

-----------------------------------------------------------------------------
(***************************************************************************)
(* The executor thread.                                                    *)
(***************************************************************************)

\* An order has been accepted, for the first time or once more.
LEMMA AcceptedIInv ==
    ASSUME IInv, order.step = "buy", Accepted,
           UNCHANGED <<held, view, main, touched, missed>>,
           used' \in [Events -> Nat],
           \/ /\ order'.step = "done"
              /\ doubled' = doubled
           \/ doubled' = doubled \union {order.symbol},
           order' \in [step : {"buy", "done"}, symbol : {order.symbol}, qty : {order.qty},
                       attempt : 0 .. Attempts]
    PROVE  IInv'
  <1>t. TypeOK /\ MonitorInv /\ Listed
    BY DEF IInv, MonitorInv
  <1> DEFINE o == order.symbol
  <1>1. /\ o \in Symbols /\ o \notin main.todo /\ order.qty \in Nat
        /\ order'.symbol = o /\ order'.qty = order.qty /\ order'.step \in {"buy", "done"}
        /\ main.pc = "covering"
    BY <1>t DEF MonitorInv, TypeOK
  <1>2. /\ held' = held /\ view' = view /\ main' = main /\ touched' = touched
        /\ missed' = missed /\ doubled \subseteq doubled'
        /\ doubled' \subseteq doubled \union {o}
    OBVIOUS
  <1>3. /\ held \in [Symbols -> Int] /\ pending \in [Symbols -> Nat]
        /\ pending' \in [Symbols -> Nat]
        /\ pending'[o] = pending[o] + order.qty
        /\ \A s \in Symbols : s # o => pending'[s] = pending[s]
    BY <1>t, <1>1 DEF Accepted, TypeOK
  <1>4. TypeOK'
    <2>1. order' \in [step : {"none", "buy", "done"}, symbol : Symbols \union {"none"},
                      qty : Nat, attempt : 0 .. Attempts]
      BY <1>1
    <2>2. doubled' \subseteq Symbols
      BY <1>t, <1>1, <1>2 DEF TypeOK
    <2> QED BY <1>t, <1>2, <1>3, <2>1, <2>2 DEF TypeOK
  <1>5. MonitorInv' /\ Listed'
    BY <1>t, <1>1, <1>2, <1>4 DEF MonitorInv, Listed
  <1>6. Untouched' \subseteq Untouched
    BY <1>2 DEF Untouched
  <1>7. o \in Untouched => pending[o] = 0 /\ order.qty <= -held[o]
    BY DEF IInv, Ordered
  <1>8. CoverOnce'
    <2>1. SUFFICES ASSUME NEW s \in Untouched', pending'[s] > 0
                   PROVE  held'[s] + pending'[s] <= 0
      BY DEF CoverOnce
    <2>2. s \in Untouched /\ s \in Symbols
      BY <1>6, <2>1 DEF Untouched
    <2>3. CASE s = o
      BY <1>1, <1>2, <1>3, <1>7, <2>2, <2>3
    <2>4. CASE s # o
      BY <1>2, <1>3, <2>1, <2>2, <2>4 DEF IInv, CoverOnce
    <2> QED BY <2>3, <2>4
  <1>9. Due'
    <2>1. \A s \in main.todo \intersect Untouched' :
              held[s] < 0 /\ pending[s] = 0 /\ view[s] = held[s]
      BY <1>1, <1>6 DEF IInv, Due
    <2>2. \A s \in main.todo : pending'[s] = pending[s]
      BY <1>t, <1>1, <1>3 DEF TypeOK
    <2> QED BY <1>2, <2>1, <2>2 DEF Due
  <1>10. Ordered'
    <2>1. order'.step = "buy" => o \notin Untouched'
      BY <1>1, <1>2 DEF Untouched
    <2>2. o \notin touched \union missed => order.qty >= -held[o]
      BY DEF IInv, Ordered
    <2> QED BY <1>1, <1>2, <2>1, <2>2 DEF Ordered
  <1>11. Known'
    <2>1. SUFFICES ASSUME NEW s \in Symbols, s \notin touched \union missed
                   PROVE  /\ view[s] <= held[s]
                          /\ held[s] + pending'[s] >= 0 \/ s \in main.todo
      BY <1>2 DEF Known
    <2>2. /\ view[s] <= held[s]
          /\ \/ held[s] + pending[s] >= 0
             \/ s \in main.todo
             \/ order.symbol = s
      BY <1>1, <2>1 DEF IInv, Known
    <2>3. CASE s = o
      <3>1. order.qty >= -held[s]
        BY <2>1, <2>3 DEF IInv, Ordered
      <3>2. held[s] + pending'[s] >= 0
        BY <1>1, <1>3, <2>3, <3>1
      <3> QED BY <2>2, <3>2
    <2>4. CASE s # o
      BY <1>3, <2>2, <2>4
    <2> QED BY <2>3, <2>4
  <1> QED BY <1>5, <1>8, <1>9, <1>10, <1>11 DEF IInv

LEMMA BuyIInv == ASSUME IInv, Buy PROVE IInv'
  <1>t. TypeOK
    BY DEF IInv, MonitorInv
  <1>1. order' = [order EXCEPT !.step = "done"] /\ order.step = "buy"
    BY DEF Buy
  <1>2. order' \in [step : {"buy", "done"}, symbol : {order.symbol}, qty : {order.qty},
                    attempt : 0 .. Attempts] /\ order'.step = "done"
    BY <1>t, <1>1 DEF TypeOK
  <1> QED BY <1>t, <1>2, AcceptedIInv DEF Buy, ghosts, TypeOK

LEMMA RetriedTyped ==
    ASSUME TypeOK, order.step = "buy", Retried
    PROVE  order' \in [step : {"buy", "done"}, symbol : {order.symbol}, qty : {order.qty},
                       attempt : 0 .. Attempts]
  <1>1. order.attempt \in 0 .. Attempts /\ Attempts \in Nat
    BY MonitorAssumption DEF MonitorAssumption, TypeOK
  <1>2. order.attempt < Attempts => order.attempt + 1 \in 0 .. Attempts
    BY <1>1
  <1> QED BY <1>1, <1>2 DEF Retried, TypeOK

LEMMA BuyLostIInv == ASSUME IInv, BuyLost PROVE IInv'
  <1>t. TypeOK
    BY DEF IInv, MonitorInv
  <1>1. used' \in [Events -> Nat]
    BY <1>t, OccursTyped, EventsAre DEF BuyLost
  <1> QED BY <1>t, <1>1, RetriedTyped, AcceptedIInv DEF BuyLost

LEMMA BuyFailsIInv == ASSUME IInv, BuyFails PROVE IInv'
  <1>t. TypeOK /\ MonitorInv /\ Listed
    BY DEF IInv, MonitorInv
  <1> DEFINE o == order.symbol
  <1>1. /\ held' = held /\ pending' = pending /\ view' = view /\ main' = main
        /\ touched' = touched /\ doubled' = doubled
        /\ used' \in [Events -> Nat]
        /\ order.step = "buy"
        /\ missed' = IF order'.step = "done" THEN missed \union {o} ELSE missed
    BY <1>t, OccursTyped, EventsAre DEF BuyFails, account
  <1>2. order' \in [step : {"buy", "done"}, symbol : {o}, qty : {order.qty},
                    attempt : 0 .. Attempts]
    BY <1>t, <1>1, RetriedTyped DEF BuyFails
  <1>3. o \in Symbols /\ o \notin main.todo /\ order.qty \in Nat
    BY <1>t, <1>1 DEF MonitorInv, TypeOK
  <1>4. /\ order'.step \in {"buy", "done"} /\ order'.symbol = o /\ order'.qty = order.qty
        /\ missed \subseteq missed' /\ missed' \subseteq missed \union {o}
    BY <1>1, <1>2
  <1>5. TypeOK'
    <2>1. order' \in [step : {"none", "buy", "done"}, symbol : Symbols \union {"none"},
                      qty : Nat, attempt : 0 .. Attempts]
      BY <1>2, <1>3
    <2> QED BY <1>t, <1>1, <1>3, <1>4, <2>1 DEF TypeOK
  <1>6. MonitorInv' /\ Listed'
    BY <1>t, <1>1, <1>3, <1>4, <1>5 DEF MonitorInv, Listed
  <1>7. CoverOnce' /\ Due' /\ Untouched' = Untouched
    BY <1>1 DEF IInv, CoverOnce, Due, Untouched
  <1>8. Ordered'
    BY <1>1, <1>4, <1>7 DEF IInv, Ordered
  <1>9. Known'
    BY <1>1, <1>4 DEF IInv, Known
  <1> QED BY <1>6, <1>7, <1>8, <1>9 DEF IInv

-----------------------------------------------------------------------------
(***************************************************************************)
(* The account.                                                            *)
(***************************************************************************)

LEMMA FillIInv == ASSUME IInv, NEW f \in Symbols, Fill(f) PROVE IInv'
  <1>t. TypeOK /\ MonitorInv /\ Listed
    BY DEF IInv, MonitorInv
  <1>1. /\ view' = view /\ main' = main /\ order' = order /\ used' = used
        /\ touched' = touched /\ doubled' = doubled /\ missed' = missed
    BY DEF Fill, ghosts
  <1>2. PICK n \in 1 .. pending[f] :
            /\ held' = [held EXCEPT ![f] = @ + n]
            /\ pending' = [pending EXCEPT ![f] = @ - n]
    BY DEF Fill
  <1>3. /\ held \in [Symbols -> Int] /\ pending \in [Symbols -> Nat]
        /\ view \in [Symbols -> Int] /\ n \in Nat /\ n > 0 /\ n <= pending[f]
    BY <1>t DEF TypeOK
  <1>4. /\ held' \in [Symbols -> Int] /\ pending' \in [Symbols -> Nat]
        /\ held'[f] = held[f] + n /\ pending'[f] = pending[f] - n
        /\ \A s \in Symbols : s # f => held'[s] = held[s] /\ pending'[s] = pending[s]
    BY <1>2, <1>3
  <1>5. TypeOK'
    BY <1>t, <1>1, <1>4 DEF TypeOK
  <1>6. MonitorInv' /\ Listed' /\ Untouched' = Untouched
    BY <1>t, <1>1, <1>5 DEF MonitorInv, Listed, Untouched
  <1>7. \A s \in Symbols : /\ held'[s] + pending'[s] = held[s] + pending[s]
                           /\ held'[s] >= held[s]
                           /\ pending'[s] <= pending[s]
                           /\ pending[s] = 0 => held'[s] = held[s] /\ pending'[s] = 0
    BY <1>3, <1>4
  <1>8. CoverOnce'
    <2>1. SUFFICES ASSUME NEW s \in Untouched, pending'[s] > 0
                   PROVE  held'[s] + pending'[s] <= 0
      BY <1>6 DEF CoverOnce
    <2>2. s \in Symbols /\ pending[s] > 0
      BY <1>3, <1>4, <1>7, <2>1 DEF Untouched
    <2>3. held[s] + pending[s] <= 0
      BY <2>1, <2>2 DEF IInv, CoverOnce
    <2> QED BY <1>7, <2>2, <2>3
  <1>9. Due'
    <2>1. SUFFICES ASSUME main.pc = "covering", NEW s \in main.todo \intersect Untouched
                   PROVE  held'[s] < 0 /\ pending'[s] = 0 /\ view[s] = held'[s]
      BY <1>1, <1>6 DEF Due
    <2>2. held[s] < 0 /\ pending[s] = 0 /\ view[s] = held[s] /\ s \in Symbols
      BY <2>1 DEF IInv, Due, Untouched
    <2> QED BY <1>7, <2>2
  <1>10. Ordered'
    <2>1. SUFFICES ASSUME order.step = "buy", NEW o \in Symbols, o = order.symbol
                   PROVE  /\ o \in Untouched => pending'[o] = 0 /\ order.qty <= -held'[o]
                          /\ o \notin touched \union missed => order.qty >= -held'[o]
      BY <1>t, <1>1, <1>6 DEF Ordered, MonitorInv
    <2>2. /\ o \in Untouched => pending[o] = 0 /\ order.qty <= -held[o]
          /\ o \notin touched \union missed => order.qty >= -held[o]
      BY <2>1 DEF IInv, Ordered
    <2>3. order.qty \in Nat /\ held[o] \in Int /\ held'[o] \in Int
      BY <1>t, <1>3, <1>4 DEF TypeOK
    <2> QED BY <1>7, <2>2, <2>3
  <1>11. Known'
    <2>1. SUFFICES ASSUME main.pc \in {"covering", "sleeping", "started"},
                          NEW s \in Symbols, s \notin touched \union missed
                   PROVE  /\ view[s] <= held'[s]
                          /\ \/ held'[s] + pending'[s] >= 0
                             \/ s \in main.todo
                             \/ order.step = "buy" /\ order.symbol = s
      BY <1>1 DEF Known
    <2>2. /\ view[s] <= held[s]
          /\ \/ held[s] + pending[s] >= 0
             \/ s \in main.todo
             \/ order.step = "buy" /\ order.symbol = s
      BY <2>1 DEF IInv, Known
    <2>3. view[s] \in Int /\ held[s] \in Int /\ held'[s] \in Int
      BY <1>3, <1>4
    <2>4. view[s] <= held'[s]
      BY <1>7, <2>2, <2>3
    <2> QED BY <1>7, <2>2, <2>4
  <1> QED BY <1>6, <1>8, <1>9, <1>10, <1>11 DEF IInv

LEMMA OutsideIInv == ASSUME IInv, NEW f \in Symbols, Outside(f) PROVE IInv'
  <1>t. TypeOK /\ MonitorInv /\ Listed
    BY DEF IInv, MonitorInv
  <1>1. /\ view' = view /\ main' = main /\ order' = order
        /\ touched' = touched \union {f} /\ doubled' = doubled /\ missed' = missed
        /\ used' \in [Events -> Nat]
    BY <1>t, OccursTyped, EventsAre DEF Outside
  <1>2. PICK n \in Lots, k \in 0 .. pending[f] :
            /\ held' = [held EXCEPT ![f] = n]
            /\ pending' = [pending EXCEPT ![f] = k]
    BY DEF Outside
  <1>3. n \in Int /\ k \in Nat
    BY <1>t, MonitorAssumption DEF MonitorAssumption, TypeOK
  <1>4. /\ held' \in [Symbols -> Int] /\ pending' \in [Symbols -> Nat]
        /\ \A s \in Symbols : s # f => held'[s] = held[s] /\ pending'[s] = pending[s]
    BY <1>t, <1>2, <1>3 DEF TypeOK
  <1>5. TypeOK'
    BY <1>t, <1>1, <1>4 DEF TypeOK
  <1>6. MonitorInv' /\ Listed'
    BY <1>t, <1>1, <1>5 DEF MonitorInv, Listed
  <1>7. Untouched' = Untouched \ {f} /\ Untouched \subseteq Symbols
    BY <1>1 DEF Untouched
  <1>8. CoverOnce'
    BY <1>4, <1>7 DEF IInv, CoverOnce
  <1>9. Due'
    BY <1>1, <1>4, <1>7 DEF IInv, Due
  <1>10. Ordered'
    <2>1. SUFFICES ASSUME order.step = "buy", NEW o \in Symbols, o = order.symbol
                   PROVE  /\ o \in Untouched' => pending'[o] = 0 /\ order.qty <= -held'[o]
                          /\ o \notin touched' \union missed => order.qty >= -held'[o]
      BY <1>t, <1>1 DEF Ordered, MonitorInv
    <2>2. CASE o = f
      BY <1>1, <1>7, <2>2
    <2>3. CASE o # f
      BY <1>1, <1>4, <1>7, <2>1, <2>3 DEF IInv, Ordered
    <2> QED BY <2>2, <2>3
  <1>11. Known'
    BY <1>1, <1>4 DEF IInv, Known
  <1> QED BY <1>6, <1>8, <1>9, <1>10, <1>11 DEF IInv

-----------------------------------------------------------------------------
(***************************************************************************)
(* The theorems.                                                           *)
(***************************************************************************)

LEMMA Inductive == Spec => []IInv
  <1>1. IInv /\ [Next]_vars => IInv'
    BY LaunchIInv, CoverReturnedIInv, SleptIInv, PollIInv, BuyIInv, BuyFailsIInv, BuyLostIInv,
       FillIInv, OutsideIInv, CrashIInv, StutterIInv DEF Next, Main, Thread
  <1> QED BY InitIInv, <1>1, PTL DEF Spec

\* The types; start-up's loop over the shorts (main.py) fails only when others have
\* acted; and buying back the inherited shorts never makes the account long.
THEOREM StartupCorrect == Spec => []StartupInv
  <1>1. IInv => StartupInv
    BY DEF IInv, StartupInv
  <1> QED BY Inductive, <1>1, PTL

\* When the engine starts every inherited short is dealt with, unless a call failed
\* or others have acted.
THEOREM StartedCorrect == Spec => []StartedCovered
  <1>1. IInv => StartedCovered
    <2>1. SUFFICES ASSUME IInv, main.pc = "started",
                          NEW s \in Symbols, s \notin touched \union missed
                   PROVE  held[s] + pending[s] >= 0
      BY ZenonT(30) DEF StartedCovered
    <2>2. main.todo = {} /\ order.step = "none"
      BY <2>1 DEF IInv, Listed, MonitorInv, TypeOK
    <2> QED BY <2>1, <2>2 DEF IInv, Known
  <1> QED BY Inductive, <1>1, PTL

===============================================================================
