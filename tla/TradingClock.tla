----------------------------- MODULE TradingClock -----------------------------
(***************************************************************************)
(* The trading-day clock (src/payoff/seed.py): how much market time is     *)
(* left to Expiry at a minute of a trading date.                           *)
(*                                                                         *)
(* Dates are numbered in calendar order.  Time is counted in minutes, a    *)
(* session being MINUTES_PER_SESSION of them, where the code has sessions  *)
(* less a fraction of one.                                                 *)
(***************************************************************************)
EXTENDS Integers, FiniteSets

CONSTANTS
  TradingDates,           \* trading_dates: the dates the dataset has bars for
  SESSIONS_WITHOUT_BARS,  \* sessions the clock counts that have none
  BARS_WITHOUT_SESSIONS,  \* dates with bars that the clock does not count
  Expiry,                 \* the series
  MINUTES_PER_SESSION

ASSUME CalendarAssumption ==
  /\ TradingDates \subseteq Nat /\ IsFiniteSet(TradingDates)
  /\ SESSIONS_WITHOUT_BARS \subseteq Nat /\ IsFiniteSet(SESSIONS_WITHOUT_BARS)
  /\ BARS_WITHOUT_SESSIONS \subseteq Nat
  /\ \A date \in TradingDates : date <= Expiry
  /\ Expiry \in TradingDates \ BARS_WITHOUT_SESSIONS
ASSUME SessionAssumption == MINUTES_PER_SESSION \in Nat \ {0}

\* SESSION_OPEN to SESSION_CLOSE, both included.
Minutes == 0..MINUTES_PER_SESSION

session_calendar == (TradingDates \cup SESSIONS_WITHOUT_BARS) \ BARS_WITHOUT_SESSIONS

\* The bug of leaving the session under way out of the count.
sessions_to_expiry_afterThisOne(date) ==
  Cardinality({session \in session_calendar : date < session /\ session <= Expiry})

\* The sessions that remain at the open of one, counting it; on a date the
\* clock does not count, those of the next that it does.
sessions_to_expiry(date) ==
  IF date \in session_calendar
  THEN Cardinality({session \in session_calendar : date <= session /\ session <= Expiry})
  ELSE Cardinality({session \in session_calendar : date < session /\ session <= Expiry})

dte_days(date, minute) == MINUTES_PER_SESSION * sessions_to_expiry(date) - minute

------------------------------------------------------------------------------
\* The minutes of trading that are left: every minute of a counted session
\* after this one, up to the Expiry's close.
MinutesLeft(date, minute) ==
  (({date} \cap session_calendar) \X ((minute + 1)..MINUTES_PER_SESSION))
    \cup ({session \in session_calendar : date < session /\ session <= Expiry}
            \X (1..MINUTES_PER_SESSION))
==============================================================================
