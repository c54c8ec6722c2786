------------------------------ MODULE PDTGuard ------------------------------
(***************************************************************************)
(* The PDTGuard class, used by one task: the deque of day-trade dates, the *)
(* rolling window of business days, and the check before a same-day exit.  *)
(* LiveTrading has the guard among concurrent tasks and with sessions for  *)
(* dates; this module has the calendar.                                    *)
(*                                                                         *)
(* Dates are integers; date 0 is a Monday.                                 *)
(***************************************************************************)
EXTENDS Integers, Sequences, FiniteSets

CONSTANTS MaxDayTrades,    \* PDTGuard(max_day_trades)
          MaxLen,          \* the deque's maxlen
          LastDay,         \* bound: the last date
          MaxTrades        \* bound: day trades ever made

ASSUME GuardAssumption ==
    /\ MaxDayTrades \in Nat
    /\ MaxLen \in Nat \ {0}
    /\ MaxDayTrades <= MaxLen
    /\ LastDay \in Nat
    /\ MaxTrades \in Nat

VARIABLES today,        \* datetime.now(timezone.utc).date()
          dayTrades,    \* _day_trades, the dates
          history       \* ghost: the dates of all day trades

guardVars == <<today, dayTrades, history>>

-----------------------------------------------------------------------------
\* weekday() < 5
Business(d) == d % 7 < 5

\* Walking back, and forth, day by day to the next business day.
PrevBusiness(d) ==
    CHOOSE e \in d - 3 .. d - 1 : Business(e) /\ \A x \in e + 1 .. d - 1 : ~Business(x)
NextBusiness(d) ==
    CHOOSE e \in d + 1 .. d + 3 : Business(e) /\ \A x \in d + 1 .. e - 1 : ~Business(x)

\* The first of the five business days up to and including business day d.
FirstOfFive(d) == PrevBusiness(PrevBusiness(PrevBusiness(PrevBusiness(d))))

\* Definitions whose name ends in an underscore are deliberately wrong variants
\* of the definition that follows them, used to test the properties.

CalendarDaysAgo_(d) == d - 5
OneTooFew_(d)       == PrevBusiness(PrevBusiness(PrevBusiness(d)))

\* _get_5_business_days_ago.
BusinessDaysAgo(d) == PrevBusiness(FirstOfFive(d))

\* get_rolling_count.
InWindow     == {i \in DOMAIN dayTrades : dayTrades[i] >= BusinessDaysAgo(today)}
RollingCount == Cardinality(InWindow)

\* get_reset_date, when a day trade is in the window.
Oldest == CHOOSE d \in {dayTrades[i] : i \in InWindow} : \A i \in InWindow : d <= dayTrades[i]
ResetDate ==
    NextBusiness(NextBusiness(NextBusiness(NextBusiness(NextBusiness(Oldest)))))

\* can_exit, for a position entered today.
CanExit_ == RollingCount <= MaxDayTrades
CanExit  == RollingCount < MaxDayTrades

Appended_(q, d) == IF Len(q) < MaxLen THEN Append(q, d) ELSE q

\* append to a deque with a maximum length.
Appended(q, d) == IF Len(q) < MaxLen THEN Append(q, d) ELSE Append(Tail(q), d)

GuardInit ==
    /\ today = 0
    /\ dayTrades = <<>>
    /\ history = <<>>

\* A same-day exit that the guard permits; the market is open.
DayTrade ==
    /\ Business(today)
    /\ CanExit
    /\ Len(history) < MaxTrades
    /\ dayTrades' = Appended(dayTrades, today)
    /\ history' = Append(history, today)
    /\ UNCHANGED today

NextDay ==
    /\ today < LastDay
    /\ today' = today + 1
    /\ UNCHANGED <<dayTrades, history>>

GuardNext == DayTrade \/ NextDay

GuardSpec == GuardInit /\ [][GuardNext]_guardVars

-----------------------------------------------------------------------------
\* Every variable has its type.
GuardTypeOK ==
    /\ today \in Nat
    /\ dayTrades \in Seq(0 .. today)
    /\ history \in Seq(0 .. today)

\* The rule itself: no day trade is one too many among those of the five
\* business days that end with it, whatever the deque has forgotten since.
PdtRule ==
    \A i \in DOMAIN history :
        Cardinality({j \in 1 .. i : history[j] >= FirstOfFive(history[i])}) <= MaxDayTrades

\* The bounded deque decides like the full history would.
InWindowEver == {i \in DOMAIN history : history[i] >= BusinessDaysAgo(today)}
DecisionExact == CanExit <=> Cardinality(InWindowEver) < MaxDayTrades

\* get_rolling_count counts the day trades on or after the day "exactly 5 business
\* days before today" that _get_5_business_days_ago documents: at most five business
\* days lie between a counted trade and today, whatever weekends the walk crosses.
\* (With today's these are six business days, where the module's head has five; see
\* WindowLong in LimitProofs.)
WindowExact ==
    InWindow = {i \in DOMAIN dayTrades :
                   Cardinality({d \in dayTrades[i] .. today - 1 : Business(d)}) <= 5}

\* The deque holds the latest day trades, in order, and they are on business days.
Forgotten == Len(history) - Len(dayTrades)
GuardInv ==
    /\ GuardTypeOK
    /\ Len(dayTrades) = IF Len(history) <= MaxLen THEN Len(history) ELSE MaxLen
    /\ \A i \in DOMAIN dayTrades : dayTrades[i] = history[Forgotten + i]
    /\ \A i, j \in DOMAIN history : i <= j => history[i] <= history[j]
    /\ \A i \in DOMAIN dayTrades : Business(dayTrades[i])
    /\ PdtRule

=============================================================================
