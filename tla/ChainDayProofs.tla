---------------------------- MODULE ChainDayProofs ----------------------------
(***************************************************************************)
(* Theorems about ChainDay and about Engine, which reads it, for every     *)
(* calendar, every set of strikes and every date's bars: the stored Chain  *)
(* is the as-of view, a measured Forward comes with a paired money, the    *)
(* clock counts the minutes of trading that are left, and the engine's     *)
(* answers of one moment agree with one another and with their models.     *)
(***************************************************************************)
EXTENDS Engine, FiniteSetTheorems, WellFoundedInduction, TLAPS

------------------------------------------------------------------------------
(* Facts about sets and sequences. *)

\* A set of naturals with a member has a least one.
LEMMA LeastMember ==
  ASSUME NEW S \in SUBSET Nat, S # {}
  PROVE  \E x \in S : \A y \in S : x <= y
<1>. DEFINE LessThan == {pair \in Nat \X Nat : pair[1] < pair[2]}
<1>1. PICK x \in S : \A y \in S : <<y, x>> \notin LessThan
  <2>1. IsWellFoundedOn(LessThan, Nat)
    BY NatLessThanWellFounded DEF OpToRel
  <2>. HIDE DEF LessThan
  <2>. QED
    BY <2>1, WFMin
<1>2. ASSUME NEW y \in S
      PROVE  x <= y
  <2>1. <<y, x>> \notin LessThan /\ y \in Nat /\ x \in Nat
    BY <1>1
  <2>. QED
    BY <2>1
<1>. QED
  BY <1>2

\* A bounded set of naturals with a member has a greatest one.
LEMMA GreatestMember ==
  ASSUME NEW S \in SUBSET Nat, S # {}, NEW n \in Nat, \A x \in S : x <= n
  PROVE  \E x \in S : \A y \in S : y <= x
<1>. DEFINE T == {n - x : x \in S}
<1>1. T \in SUBSET Nat /\ T # {}
  <2>1. \A x \in S : n - x \in Nat
    OBVIOUS
  <2>. QED
    BY <2>1
<1>2. PICK t \in T : \A u \in T : t <= u
  <2>. HIDE DEF T
  <2>. QED
    BY <1>1, LeastMember
<1>3. PICK x \in S : t = n - x
  BY <1>2
<1>4. \A y \in S : n - x <= n - y
  BY <1>2, <1>3
<1>5. ASSUME NEW y \in S
      PROVE  y <= x
  <2>1. x \in Nat /\ y \in Nat /\ n - x <= n - y
    BY <1>4
  <2>. QED
    BY <2>1
<1>. QED
  BY <1>5

------------------------------------------------------------------------------
(* The clock. *)

\* The sessions after a date, and so the calendar, are finitely many.
LEMMA SessionsAfterFinite ==
  ASSUME NEW date
  PROVE  IsFiniteSet({session \in session_calendar : date < session /\ session <= Expiry})
<1>1. IsFiniteSet(TradingDates \cup SESSIONS_WITHOUT_BARS)
  BY CalendarAssumption, FS_Union
<1>. QED
  BY <1>1, FS_Subset DEF session_calendar

\* On a date the clock counts, what it shows at a minute is the number of
\* minutes of trading left after it.
THEOREM ClockIsMinutesLeft ==
  ASSUME NEW date \in TradingDates, NEW minute \in Minutes, date \in session_calendar
  PROVE  dte_days(date, minute) = Cardinality(MinutesLeft(date, minute))
<1>. DEFINE after == {session \in session_calendar : date < session /\ session <= Expiry}
            rest == (minute + 1)..MINUTES_PER_SESSION
            whole == 1..MINUTES_PER_SESSION
<1>1. /\ date \in Nat /\ Expiry \in Nat /\ date <= Expiry
      /\ minute \in Nat /\ minute <= MINUTES_PER_SESSION /\ MINUTES_PER_SESSION \in Nat
      /\ session_calendar \subseteq Nat
  BY CalendarAssumption, SessionAssumption DEF Minutes, session_calendar
<1>2. IsFiniteSet(after) /\ Cardinality(after) \in Nat
  BY SessionsAfterFinite, FS_CardinalityType
<1>3. sessions_to_expiry(date) = Cardinality(after) + 1
  <2>1. {session \in session_calendar : date <= session /\ session <= Expiry} = after \cup {date}
    <3>1. ASSUME NEW session \in session_calendar
          PROVE  (date <= session /\ session <= Expiry)
                   <=> ((date < session /\ session <= Expiry) \/ session = date)
      <4>1. session \in Nat
        BY <1>1
      <4>. QED
        BY <1>1, <4>1
    <3>. QED
      BY <3>1
  <2>2. date \notin after
    BY <1>1
  <2>. QED
    BY <1>2, <2>1, <2>2, FS_AddElement DEF sessions_to_expiry
<1>4. /\ IsFiniteSet(rest) /\ Cardinality(rest) = MINUTES_PER_SESSION - minute
      /\ IsFiniteSet(whole) /\ Cardinality(whole) = MINUTES_PER_SESSION
  <2>1. minute + 1 \in Int /\ 1 \in Int /\ MINUTES_PER_SESSION \in Int
    BY <1>1
  <2>2. IsFiniteSet(rest) /\ Cardinality(rest) =
          IF minute + 1 > MINUTES_PER_SESSION THEN 0 ELSE MINUTES_PER_SESSION - (minute + 1) + 1
    BY <2>1, FS_Interval
  <2>3. IsFiniteSet(whole) /\ Cardinality(whole) =
          IF 1 > MINUTES_PER_SESSION THEN 0 ELSE MINUTES_PER_SESSION - 1 + 1
    BY <2>1, FS_Interval
  <2>. QED
    BY <1>1, <2>2, <2>3
<1>. HIDE DEF after, rest, whole
<1>5. IsFiniteSet({date}) /\ Cardinality({date}) = 1
  BY FS_Singleton
<1>6. /\ IsFiniteSet({date} \X rest)
      /\ Cardinality({date} \X rest) = 1 * (MINUTES_PER_SESSION - minute)
  BY <1>4, <1>5, FS_Product
<1>7. /\ IsFiniteSet(after \X whole)
      /\ Cardinality(after \X whole) = Cardinality(after) * MINUTES_PER_SESSION
  BY <1>2, <1>4, FS_Product
<1>8. ({date} \X rest) \cap (after \X whole) = {}
  <2>1. date \notin after
    BY <1>1 DEF after
  <2>. QED
    BY <2>1
<1>9. Cardinality({}) = 0
  BY FS_EmptySet
<1>10. Cardinality(({date} \X rest) \cup (after \X whole))
         = 1 * (MINUTES_PER_SESSION - minute) + Cardinality(after) * MINUTES_PER_SESSION - 0
  BY <1>6, <1>7, <1>8, <1>9, FS_Union
<1>11. MinutesLeft(date, minute) = ({date} \X rest) \cup (after \X whole)
  <2>1. {date} \cap session_calendar = {date}
    OBVIOUS
  <2>. QED
    BY <2>1 DEF MinutesLeft, after, rest, whole
<1>12. \A n \in Nat, m \in Nat, k \in Nat : m * (n + 1) - k = 1 * (m - k) + n * m - 0
  OBVIOUS
<1>. QED
  BY <1>1, <1>2, <1>3, <1>10, <1>11, <1>12 DEF dte_days

------------------------------------------------------------------------------
(* The invariant: what each stage has done is still so. *)

\* Every fit is one its minute's bars allow, and once the date is stored both
\* artifacts are those of its bars.
IInv ==
  /\ on \in TradingDates
  /\ stage \in {"bars", "fits", "stored"}
  /\ quoted \in SUBSET Bar
  /\ spot \in [moments -> Spots]
  /\ solvable \in SUBSET quoted
  /\ DOMAIN fits \subseteq moments /\ fits \in [DOMAIN fits -> ForwardFit]
  /\ stage = "bars" => DOMAIN fits = {}
  /\ stage # "bars" => moments # {}
  /\ \A minute \in DOMAIN fits : fits[minute] \in fit_forward(minute)
  /\ stage # "stored" => chain = {} /\ summary = <<>>
  /\ stage = "stored" =>
       /\ DOMAIN fits = moments
       /\ chain = carry_forward(solvable)
       /\ summary = summary_frame(chain)

\* A date no minute of which is known.
LEMMA EmptyFunction ==
  /\ DOMAIN <<>> = {}
  /\ \A S : <<>> \in [{} -> S]
BY SMT

\* A date starts with nothing of the last one's.
LEMMA InitIInv == Init => IInv
<1>. SUFFICES ASSUME Init
              PROVE  IInv
  OBVIOUS
<1>1. moments = {} /\ spot \in [moments -> Spots] /\ fits \in [DOMAIN fits -> ForwardFit]
  BY EmptyFunction DEF Init, moments
<1>. QED
  BY <1>1, EmptyFunction DEF Init, IInv

\* Every step keeps what the stages before it have done.
LEMMA NextIInv == IInv /\ [Next]_vars => IInv'
<1>. SUFFICES ASSUME IInv, [Next]_vars
              PROVE  IInv'
  OBVIOUS
<1>1. ASSUME NEW minute \in Minutes, Trade(minute)
      PROVE  IInv'
  <2>1. quoted' \in SUBSET Bar
    BY <1>1 DEF Trade, IInv, Bar
  <2>2. DOMAIN fits' = {}
    BY <1>1 DEF Trade, IInv
  <2>3. PICK level \in Spots :
          spot' = [at \in moments \cup {minute} |-> IF at = minute THEN level ELSE spot[at]]
    BY <1>1 DEF Trade
  <2>4. moments' = moments \cup {minute}
    <3>1. PICK contracts \in (SUBSET (Strikes \X Sides)) \ {{}} :
            quoted' = quoted \cup
              {[ts |-> minute, strike |-> c[1], option_type |-> c[2]] : c \in contracts}
      BY <1>1 DEF Trade
    <3>2. PICK c \in contracts : TRUE
      BY <3>1
    <3>. DEFINE bar == [ts |-> minute, strike |-> c[1], option_type |-> c[2]]
    <3>3. bar \in quoted' /\ bar.ts = minute
      BY <3>1, <3>2
    <3>4. \A b \in quoted' : b \in quoted \/ b.ts = minute
      BY <3>1
    <3>5. quoted \subseteq quoted'
      BY <3>1
    <3>. QED
      BY <3>3, <3>4, <3>5 DEF moments
  <2>5. spot' \in [moments' -> Spots]
    BY <2>3, <2>4 DEF IInv
  <2>6. solvable' \in SUBSET quoted'
    BY <1>1 DEF Trade, IInv
  <2>7. fits' \in [DOMAIN fits' -> ForwardFit]
    BY <1>1 DEF Trade, IInv
  <2>. QED
    BY <1>1, <2>1, <2>2, <2>5, <2>6, <2>7 DEF Trade, IInv
<1>2. ASSUME NEW minute \in Minutes, Fit(minute)
      PROVE  IInv'
  <2>1. PICK fit \in fit_forward(minute) :
          fits' = [at \in DOMAIN fits \cup {minute} |-> IF at = minute THEN fit ELSE fits[at]]
    BY <1>2 DEF Fit
  <2>2. DOMAIN fits' = DOMAIN fits \cup {minute} /\ moments' = moments
    BY <1>2, <2>1 DEF Fit, moments
  <2>3. \A at \in DOMAIN fits' : fit_forward(at)' = fit_forward(at)
    BY <1>2 DEF Fit, fit_forward, Bars, dte_days, sessions_to_expiry
  <2>4. \A at \in DOMAIN fits' : fits'[at] \in fit_forward(at)
    BY <2>1, <2>2 DEF IInv
  <2>5. \A at \in DOMAIN fits' : fits'[at] \in fit_forward(at)'
    BY <2>3, <2>4
  <2>6. fits' \in [DOMAIN fits' -> ForwardFit]
    BY <2>1, <2>2 DEF IInv, fit_forward
  <2>. QED
    BY <1>2, <2>2, <2>5, <2>6 DEF Fit, IInv
<1>3. ASSUME write_day
      PROVE  IInv'
  <2>1. PICK bars \in SUBSET quoted :
          /\ solvable' = bars
          /\ chain' = carry_forward(bars)
          /\ summary' = summary_frame(carry_forward(bars))
    BY <1>3 DEF write_day
  <2>2. UNCHANGED <<on, quoted, spot, fits>> /\ stage' = "stored"
    BY <1>3 DEF write_day
  <2>3. moments' = moments
    BY <2>2 DEF moments
  <2>4. carry_forward(solvable)' = carry_forward(bars)
    BY <2>1, <2>2, <2>3 DEF carry_forward, Row, InHand, solved_volatility, inverted, outOfMoney
  <2>5. summary_frame(chain)' = summary_frame(carry_forward(bars))
    <3>. DEFINE frame == carry_forward(bars)
    <3>1. chain' = frame
      BY <2>1
    <3>. HIDE DEF frame
    <3>2. summary_frame(chain)' = summary_frame(frame)
      BY <2>2, <3>1 DEF summary_frame, STRICT, at_the_money_strike, paired, quotedStrikes,
                        strike_volatility, dte_days, sessions_to_expiry
    <3>. QED
      BY <3>2 DEF frame
  <2>6. \A at \in DOMAIN fits : fit_forward(at)' = fit_forward(at)
    BY <2>2 DEF fit_forward, Bars, dte_days, sessions_to_expiry
  <2>. QED
    BY <1>3, <2>1, <2>2, <2>3, <2>4, <2>5, <2>6 DEF write_day, IInv
<1>4. ASSUME NextDate
      PROVE  IInv'
  <2>1. moments' = {} /\ spot' = <<>> /\ fits' = <<>>
    BY <1>4 DEF NextDate, moments
  <2>. QED
    BY <1>4, <2>1, EmptyFunction DEF NextDate, IInv
<1>5. ASSUME UNCHANGED vars
      PROVE  IInv'
  <2>1. moments' = moments /\ \A at : fit_forward(at)' = fit_forward(at)
    BY <1>5 DEF vars, moments, fit_forward, Bars, dte_days, sessions_to_expiry
  <2>2. carry_forward(solvable)' = carry_forward(solvable)
    BY <1>5, <2>1 DEF vars, carry_forward, Row, InHand, solved_volatility, inverted, outOfMoney
  <2>3. summary_frame(chain)' = summary_frame(chain)
    BY <1>5 DEF vars, summary_frame, STRICT, at_the_money_strike, paired, quotedStrikes,
                strike_volatility, dte_days, sessions_to_expiry
  <2>. QED
    BY <1>5, <2>1, <2>2, <2>3 DEF vars, IInv
<1>. QED
  BY <1>1, <1>2, <1>3, <1>4, <1>5 DEF Next

\* The invariant holds throughout.
LEMMA AlwaysIInv == Spec => []IInv
BY InitIInv, NextIInv, PTL DEF Spec

------------------------------------------------------------------------------
(* The stored Chain is the as-of view. *)

\* The rows of the stored Chain are, at each minute with a bar, one for each
\* bar in hand there, and every such minute has one stamped at it.
LEMMA StoredRows ==
  ASSUME IInv, stage = "stored"
  PROVE  /\ \A row \in chain : /\ row.timestamp_utc \in moments
                               /\ PrintedAs(row) \in InHand(row.timestamp_utc)
                               /\ row.forward = fits[row.timestamp_utc].forward
         /\ \A minute \in moments : \A bar \in InHand(minute) :
              \E row \in chain : row.timestamp_utc = minute /\ PrintedAs(row) = bar
         /\ \A bar \in quoted : bar \in InHand(bar.ts)
<1>1. chain = carry_forward(solvable) /\ quoted \in SUBSET Bar
  BY DEF IInv
<1>2. ASSUME NEW minute, NEW bar \in InHand(minute)
      PROVE  /\ PrintedAs(Row(minute, bar, solvable)) = bar
             /\ Row(minute, bar, solvable).timestamp_utc = minute
             /\ Row(minute, bar, solvable).forward = fits[minute].forward
  <2>1. bar \in Bar
    BY <1>1 DEF InHand
  <2>2. bar = [ts |-> bar.ts, strike |-> bar.strike, option_type |-> bar.option_type]
    BY <2>1 DEF Bar
  <2>. QED
    BY <2>2 DEF PrintedAs, Row
<1>3. ASSUME NEW row \in chain
      PROVE  \E minute \in moments : \E bar \in InHand(minute) : row = Row(minute, bar, solvable)
  BY <1>1 DEF carry_forward
<1>4. ASSUME NEW minute \in moments, NEW bar \in InHand(minute)
      PROVE  Row(minute, bar, solvable) \in chain
  BY <1>1 DEF carry_forward
<1>5. ASSUME NEW bar \in quoted
      PROVE  bar \in InHand(bar.ts)
  <2>1. bar.ts \in Int /\ \A later \in quoted : later.ts \in Int
    BY <1>1, SessionAssumption DEF Bar, Minutes
  <2>. QED
    BY <2>1 DEF InHand
<1>. QED
  BY <1>2, <1>3, <1>4, <1>5

\* What both lookups of a moment find: nothing before the first minute with a
\* bar, and after it the last such minute, the stored rows of which are all
\* that is served.
LEMMA LastMinute ==
  ASSUME IInv, stage = "stored", NEW moment \in Minutes
  PROVE  /\ DOMAIN summary = moments
         /\ \/ /\ minute_slice(moment) = {} /\ minute_summary(moment) = {}
               /\ \A minute \in moments : ~(minute <= moment)
            \/ \E last \in moments :
                 /\ last <= moment
                 /\ \A minute \in moments : minute <= moment <=> minute <= last
                 /\ minute_summary(moment) = {last}
                 /\ minute_slice(moment) = {row \in chain : row.timestamp_utc = last}
                 /\ minute_slice(moment) # {}
<1>. DEFINE before == {minute \in moments : minute <= moment}
<1>1. moments \subseteq Nat /\ moment \in Nat
  BY SessionAssumption DEF IInv, moments, Bar, Minutes
<1>2. DOMAIN summary = moments
  <2>1. DOMAIN summary = {row.timestamp_utc : row \in STRICT(chain)}
    BY DEF IInv, summary_frame
  <2>2. ASSUME NEW minute \in moments
        PROVE  \E row \in STRICT(chain) : row.timestamp_utc = minute
    <3>1. PICK bar \in quoted : bar.ts = minute
      BY DEF moments
    <3>2. PICK row \in chain : row.timestamp_utc = minute /\ PrintedAs(row) = bar
      BY <3>1, StoredRows
    <3>. QED
      BY <3>1, <3>2 DEF PrintedAs, STRICT
  <2>3. \A row \in STRICT(chain) : row.timestamp_utc \in moments
    BY StoredRows DEF STRICT
  <2>. QED
    BY <2>1, <2>2, <2>3
<1>3. CASE before = {}
  <2>1. minute_slice(moment) = {}
    BY <1>3, StoredRows DEF minute_slice
  <2>2. minute_summary(moment) = {}
    BY <1>2, <1>3 DEF minute_summary
  <2>. QED
    BY <1>2, <1>3, <2>1, <2>2
<1>4. CASE before # {}
  <2>1. PICK last \in before : \A minute \in before : minute <= last
    <3>1. before \in SUBSET Nat /\ \A minute \in before : minute <= moment
      BY <1>1
    <3>. HIDE DEF before
    <3>. QED
      BY <1>1, <1>4, <3>1, GreatestMember
  <2>2. last \in moments /\ last \in Nat /\ last <= moment
    BY <1>1, <2>1
  <2>3. \A minute \in moments : minute <= moment <=> minute <= last
    BY <1>1, <2>1, <2>2
  <2>4. \E row \in chain : row.timestamp_utc = last
    <3>1. PICK bar \in quoted : bar.ts = last
      BY <2>2 DEF moments
    <3>2. bar \in InHand(last)
      BY <3>1, StoredRows
    <3>. QED
      BY <2>2, <3>2, StoredRows
  <2>5. minute_slice(moment) = {row \in chain : row.timestamp_utc = last}
    <3>1. ASSUME NEW row \in chain, row.timestamp_utc = last
          PROVE  row \in minute_slice(moment)
      BY <1>1, <2>2, <2>3, <3>1, StoredRows DEF minute_slice
    <3>2. ASSUME NEW row \in minute_slice(moment)
          PROVE  row.timestamp_utc = last
      <4>1. /\ row.timestamp_utc \in moments /\ row.timestamp_utc \in Nat
            /\ row.timestamp_utc <= last
        BY <1>1, <2>3, StoredRows DEF minute_slice
      <4>2. last <= row.timestamp_utc
        BY <2>2, <2>4 DEF minute_slice
      <4>. QED
        BY <2>2, <4>1, <4>2
    <3>. QED
      BY <3>1, <3>2 DEF minute_slice
  <2>6. minute_summary(moment) = {last}
    <3>1. last \in minute_summary(moment)
      BY <1>2, <2>1, <2>2 DEF minute_summary
    <3>2. ASSUME NEW minute \in minute_summary(moment)
          PROVE  minute = last
      <4>1. minute \in moments /\ minute <= moment /\ last <= minute
        BY <1>2, <2>2 DEF minute_summary
      <4>. QED
        BY <1>1, <2>2, <2>3, <4>1
    <3>. QED
      BY <3>1, <3>2
  <2>. QED
    BY <1>2, <2>2, <2>3, <2>4, <2>5, <2>6
<1>. QED
  BY <1>3, <1>4

\* What is served at any moment is what had printed by then, every contract
\* at its last bar.
THEOREM AlwaysServesTheLastPrints == Spec => []ServesTheLastPrints
<1>1. ASSUME IInv, stage = "stored", NEW moment \in Minutes
      PROVE  {PrintedAs(row) : row \in minute_slice(moment)} = AsOf(moment)
  <2>1. moments \subseteq Nat /\ moment \in Nat /\ \A bar \in quoted : bar.ts \in moments
    BY <1>1, SessionAssumption DEF IInv, moments, Bar, Minutes
  <2>2. CASE minute_slice(moment) = {} /\ \A minute \in moments : ~(minute <= moment)
    <3>1. AsOf(moment) = {}
      BY <2>1, <2>2 DEF AsOf
    <3>. QED
      BY <2>2, <3>1
  <2>3. ASSUME NEW last \in moments,
               \A minute \in moments : minute <= moment <=> minute <= last,
               minute_slice(moment) = {row \in chain : row.timestamp_utc = last}
        PROVE  {PrintedAs(row) : row \in minute_slice(moment)} = AsOf(moment)
    <3>1. {PrintedAs(row) : row \in minute_slice(moment)} = InHand(last)
      BY <1>1, <2>3, StoredRows
    <3>2. ASSUME NEW bar \in quoted
          PROVE  bar \in InHand(last) <=> bar \in AsOf(moment)
      <4>1. last \in Nat /\ bar.ts \in Nat /\ \A other \in quoted : other.ts \in Nat
        BY <2>1, <2>3
      <4>2. \A other \in quoted : other.ts <= moment <=> other.ts <= last
        BY <2>1, <2>3
      <4>. QED
        BY <4>1, <4>2 DEF InHand, AsOf, SameContract
    <3>. QED
      BY <3>1, <3>2 DEF InHand, AsOf
  <2>. QED
    BY <1>1, <2>2, <2>3, LastMinute
<1>2. IInv => ServesTheLastPrints
  BY <1>1 DEF ServesTheLastPrints
<1>. QED
  BY <1>2, AlwaysIInv, PTL

------------------------------------------------------------------------------
(* The money. *)

\* Some strike of any is nearest a level.
LEMMA NearestMember ==
  ASSUME NEW strikes \in SUBSET Nat, strikes # {}, NEW level \in Nat
  PROVE  Nearest(strikes, level) # {} /\ Nearest(strikes, level) \subseteq strikes
<1>. DEFINE distances == {Away(strike, level) : strike \in strikes}
<1>1. distances \in SUBSET Nat /\ distances # {}
  BY DEF Away
<1>2. PICK least \in distances : \A other \in distances : least <= other
  <2>. HIDE DEF distances
  <2>. QED
    BY <1>1, LeastMember
<1>3. PICK strike \in strikes : least = Away(strike, level)
  BY <1>2
<1>4. strike \in Nearest(strikes, level)
  BY <1>2, <1>3 DEF Nearest
<1>. QED
  BY <1>4 DEF Nearest

\* Where some strike is paired, the money is one that is.
LEMMA MoneyIsPaired ==
  ASSUME NEW rows, paired(rows) # {}, NEW forward \in Nat
  PROVE  at_the_money_strike(rows, forward) \in paired(rows)
<1>. DEFINE nearest == Nearest(paired(rows), forward)
<1>1. paired(rows) \in SUBSET Nat
  BY MarketAssumption DEF paired
<1>2. nearest # {} /\ nearest \subseteq paired(rows)
  BY <1>1, NearestMember
<1>3. at_the_money_strike(rows, forward)
        = CHOOSE strike \in nearest : \A other \in nearest : strike <= other
  BY DEF at_the_money_strike
<1>. HIDE DEF nearest
<1>4. nearest \in SUBSET Nat
  BY <1>1, <1>2
<1>5. \E strike \in nearest : \A other \in nearest : strike <= other
  BY <1>2, <1>4, LeastMember
<1>. QED
  BY <1>2, <1>3, <1>5

\* A Forward measured off pairs says that its minute has some.
LEMMA MeasuredHasPairs ==
  ASSUME NEW minute, NEW fit \in fit_forward(minute), fit.method # "spot"
  PROVE  paired(Bars(minute)) # {}
<1>1. CASE fit.method = "parity_fit"
  <2>1. Cardinality(paired(Bars(minute))) >= MIN_PAIRS
    BY <1>1 DEF fit_forward
  <2>2. MIN_PAIRS \in Nat \ {0} /\ Cardinality({}) = 0
    BY MarketAssumption, FS_EmptySet
  <2>. QED
    BY <2>1, <2>2
<1>2. CASE fit.method = "single_strike_parity"
  BY <1>2 DEF fit_forward
<1>. QED
  BY <1>1, <1>2 DEF fit_forward, ForwardFit

\* On a date the clock counts, every header's time to Expiry is the minutes of
\* trading left after its minute.
THEOREM AlwaysClockCounts == Spec => []ClockCountsSessionMinutes
<1>1. ASSUME IInv, on \in session_calendar, NEW minute \in DOMAIN summary
      PROVE  summary[minute].dte_days = Cardinality(MinutesLeft(on, minute))
  <2>1. stage = "stored" /\ summary = summary_frame(chain) /\ on \in TradingDates
    BY <1>1, EmptyFunction DEF IInv
  <2>2. summary[minute].dte_days = dte_days(on, minute)
    BY <1>1, <2>1 DEF summary_frame
  <2>3. PICK row \in chain : row.timestamp_utc = minute
    BY <1>1, <2>1 DEF summary_frame, STRICT
  <2>4. minute \in Minutes
    BY <1>1, <2>1, <2>3, StoredRows DEF IInv, moments, Bar
  <2>. QED
    BY <1>1, <2>1, <2>2, <2>4, ClockIsMinutesLeft
<1>2. IInv => ClockCountsSessionMinutes
  BY <1>1 DEF ClockCountsSessionMinutes
<1>. QED
  BY <1>2, AlwaysIInv, PTL

------------------------------------------------------------------------------
(* The volatilities. *)

\* Of the bars of one strike and minute only one side is out of the money.
LEMMA OneSideOut ==
  ASSUME IInv, stage = "stored", NEW bar \in quoted, NEW other \in quoted,
         other.ts = bar.ts, other.strike = bar.strike
  PROVE  (outOfMoney(bar) <=> outOfMoney(other)) => other = bar
<1>1. /\ bar.ts \in DOMAIN fits /\ fits[bar.ts].forward \in Nat
      /\ bar.strike \in Nat /\ bar \in Bar /\ other \in Bar
  <2>1. bar.ts \in moments /\ DOMAIN fits = moments /\ bar \in Bar /\ other \in Bar
    BY DEF IInv, moments
  <2>2. fits[bar.ts] \in ForwardFit
    BY <2>1 DEF IInv
  <2>. QED
    BY <2>1, <2>2, MarketAssumption DEF ForwardFit, Bar
<1>2. /\ outOfMoney(bar) <=> IF bar.option_type = "CE" THEN bar.strike >= fits[bar.ts].forward
                                                     ELSE bar.strike < fits[bar.ts].forward
      /\ outOfMoney(other) <=> IF other.option_type = "CE" THEN bar.strike >= fits[bar.ts].forward
                                                         ELSE bar.strike < fits[bar.ts].forward
  BY DEF outOfMoney
<1>3. (outOfMoney(bar) <=> outOfMoney(other)) => other.option_type = bar.option_type
  BY <1>1, <1>2 DEF Bar, Sides
<1>4. other.option_type = bar.option_type => other = bar
  BY <1>1 DEF Bar
<1>. QED
  BY <1>3, <1>4

\* Newton is asked once for each strike and minute with a price it can invert,
\* whichever sides printed (chain.py, solved_volatility).
THEOREM AlwaysSolvedOnce == Spec => []SolvedOnce
<1>1. ASSUME IInv, stage = "stored", NEW bar \in solvable
      PROVE  Cardinality({other \in inverted(solvable) :
                            other.ts = bar.ts /\ other.strike = bar.strike}) = 1
  <2>. DEFINE here == {other \in solvable : other.ts = bar.ts /\ other.strike = bar.strike}
              invertible == {other \in inverted(solvable) :
                          other.ts = bar.ts /\ other.strike = bar.strike}
  <2>1. solvable \subseteq quoted /\ bar \in here
    BY <1>1 DEF IInv
  <2>2. \A x, y \in here : (outOfMoney(x) <=> outOfMoney(y)) => x = y
    BY <1>1, <2>1, OneSideOut
  <2>3. invertible = {x \in here : outOfMoney(x) \/ ~\E y \in here : outOfMoney(y)}
    BY DEF inverted
  <2>. HIDE DEF here, invertible
  <2>4. \E x \in here : invertible = {x}
    <3>1. CASE \E y \in here : outOfMoney(y)
      BY <2>2, <2>3, <3>1
    <3>2. CASE ~\E y \in here : outOfMoney(y)
      BY <2>1, <2>2, <2>3, <3>2
    <3>. QED
      BY <3>1, <3>2
  <2>5. Cardinality(invertible) = 1
    BY <2>4, FS_Singleton
  <2>. QED
    BY <2>5 DEF invertible
<1>2. IInv => SolvedOnce
  BY <1>1 DEF SolvedOnce
<1>. QED
  BY <1>2, AlwaysIInv, PTL

\* What a strike shows depends on when its rows were quoted, and on nothing
\* else of the minute they are served at.
LEMMA SameVolatility ==
  ASSUME NEW rows, NEW others,
         \A x \in rows : \E y \in others : y.quoted_at = x.quoted_at /\ y.iv = x.iv,
         \A y \in others : \E x \in rows : x.quoted_at = y.quoted_at /\ x.iv = y.iv,
         \A x, y \in others : x.quoted_at = y.quoted_at => x.iv = y.iv,
         \A y \in others : y.quoted_at \in Nat
  PROVE  strike_volatility(rows) = strike_volatility(others)
<1>. DEFINE freshest(of) ==
              {row \in of : /\ row.iv # NoVolatility
                            /\ \A other \in of : other.iv # NoVolatility
                                                   => other.quoted_at <= row.quoted_at}
            said(of) == IF freshest(of) = {} THEN NoVolatility
                        ELSE (CHOOSE row \in freshest(of) : TRUE).iv
<1>1. \A of : strike_volatility(of) = said(of)
  <2>. SUFFICES ASSUME NEW of
                PROVE  strike_volatility(of) = said(of)
    OBVIOUS
  <2>. DEFINE having == {row \in of : row.iv # NoVolatility}
              last == {row \in having : \A other \in having : other.quoted_at <= row.quoted_at}
  <2>1. last = freshest(of)
    OBVIOUS
  <2>2. strike_volatility(of) = IF last = {} THEN NoVolatility
                                ELSE (CHOOSE row \in last : TRUE).iv
    BY DEF strike_volatility
  <2>. HIDE DEF last, freshest
  <2>. QED
    BY <2>1, <2>2
<1>2. \A x \in freshest(rows) : \E y \in freshest(others) : y.iv = x.iv
  OBVIOUS
<1>3. \A y \in freshest(others) : \E x \in freshest(rows) : x.iv = y.iv
  OBVIOUS
<1>4. \A x, y \in freshest(others) : x.iv = y.iv
  <2>1. \A x, y \in freshest(others) : x \in others /\ y \in others /\ x.quoted_at = y.quoted_at
    OBVIOUS
  <2>. HIDE DEF freshest
  <2>. QED
    BY <2>1
<1>. HIDE DEF freshest
<1>5. said(rows) = said(others)
  <2>1. CASE freshest(rows) = {}
    BY <1>3, <2>1
  <2>2. CASE freshest(rows) # {}
    <3>1. PICK x \in freshest(rows) : x = CHOOSE row \in freshest(rows) : TRUE
      BY <2>2
    <3>2. freshest(others) # {}
      BY <1>2, <2>2
    <3>3. PICK y \in freshest(others) : y = CHOOSE row \in freshest(others) : TRUE
      BY <3>2
    <3>4. x.iv = y.iv
      BY <1>2, <1>4, <3>1, <3>3
    <3>. QED
      BY <2>2, <3>1, <3>2, <3>3, <3>4
  <2>. QED
    BY <2>1, <2>2
<1>. QED
  BY <1>1, <1>5

\* A strike's volatility on screen moves only where the strike has printed
\* (build_runtime.py, quoted_frame; chain.py, carry_forward).
THEOREM AlwaysMovesOnAPrint == Spec => []VolatilityMovesOnlyOnAPrint
<1>1. ASSUME IInv, stage = "stored", NEW minute \in moments, NEW strike \in Strikes
      PROVE  shownVolatility(minute, strike)
               = strike_volatility({Row(minute, bar, solvable) :
                                      bar \in {b \in InHand(minute) : b.strike = strike}})
  <2>. DEFINE at == {row \in minute_slice(minute) : row.strike = strike}
              rows == {Row(minute, bar, solvable) :
                         bar \in {b \in InHand(minute) : b.strike = strike}}
  <2>1. minute \in Nat /\ moments \subseteq Nat
    BY <1>1, SessionAssumption DEF IInv, moments, Bar, Minutes
  <2>2. minute_slice(minute) = {row \in chain : row.timestamp_utc = minute}
    <3>1. \E row \in chain : row.timestamp_utc = minute
      BY <1>1, StoredRows DEF moments
    <3>2. \A row \in chain : row.timestamp_utc \in moments
      BY <1>1, StoredRows
    <3>3. ASSUME NEW row \in chain
          PROVE  row \in minute_slice(minute) <=> row.timestamp_utc = minute
      <4>1. /\ row.timestamp_utc \in Nat
            /\ \A other \in chain : other.timestamp_utc \in Nat
        BY <2>1, <3>2
      <4>. QED
        BY <2>1, <3>1, <4>1 DEF minute_slice
    <3>. QED
      BY <3>3 DEF minute_slice
  <2>3. chain = UNION {{Row(m, bar, solvable) : bar \in InHand(m)} : m \in moments}
    BY <1>1 DEF IInv, carry_forward
  <2>4. \A m, bar : /\ Row(m, bar, solvable).timestamp_utc = m
                    /\ Row(m, bar, solvable).strike = bar.strike
    BY DEF Row
  <2>5. at = rows
    BY <2>2, <2>3, <2>4
  <2>. QED
    BY <2>5 DEF shownVolatility
<1>2. ASSUME IInv, stage = "stored", NEW earlier \in moments, NEW later \in moments,
             NEW strike \in Strikes, earlier < later,
             ~\E bar \in quoted : bar.strike = strike /\ earlier < bar.ts /\ bar.ts <= later
      PROVE  shownVolatility(earlier, strike) = shownVolatility(later, strike)
  <2>. DEFINE held == {bar \in InHand(later) : bar.strike = strike}
              before == {Row(earlier, bar, solvable) : bar \in held}
              after == {Row(later, bar, solvable) : bar \in held}
  <2>1. /\ earlier \in Nat /\ later \in Nat
        /\ \A bar \in quoted : bar.ts \in Nat
    BY <1>2, SessionAssumption DEF IInv, moments, Bar, Minutes
  <2>2. {bar \in InHand(earlier) : bar.strike = strike} = held
    BY <1>2, <2>1 DEF InHand
  <2>3. \A minute, bar : /\ Row(minute, bar, solvable).quoted_at = bar.ts
                         /\ Row(minute, bar, solvable).iv
                              = solved_volatility(solvable, bar.ts, bar.strike)
    BY DEF Row
  <2>4. \A bar \in held : bar.strike = strike /\ bar.ts \in Nat
    BY <2>1 DEF InHand
  <2>. HIDE DEF held
  <2>5. strike_volatility(before) = strike_volatility(after)
    <3>1. \A x \in before : \E y \in after : y.quoted_at = x.quoted_at /\ y.iv = x.iv
      BY <2>3
    <3>2. \A y \in after : \E x \in before : x.quoted_at = y.quoted_at /\ x.iv = y.iv
      BY <2>3
    <3>3. \A x, y \in after : x.quoted_at = y.quoted_at => x.iv = y.iv
      BY <2>3, <2>4
    <3>4. \A y \in after : y.quoted_at \in Nat
      BY <2>3, <2>4
    <3>. HIDE DEF before, after
    <3>. QED
      BY <3>1, <3>2, <3>3, <3>4, SameVolatility
  <2>. QED
    BY <1>1, <1>2, <2>2, <2>5 DEF held
<1>3. IInv => VolatilityMovesOnlyOnAPrint
  BY <1>2 DEF VolatilityMovesOnlyOnAPrint
<1>. QED
  BY <1>3, AlwaysIInv, PTL

------------------------------------------------------------------------------
(* The types. *)

\* A volatility is a bar that was inverted, or null.
LEMMA SolvedType ==
  ASSUME NEW bars \in SUBSET Bar, NEW minute, NEW strike
  PROVE  solved_volatility(bars, minute, strike) \in Volatility
<1>. DEFINE at == {bar \in inverted(bars) : bar.ts = minute /\ bar.strike = strike}
<1>1. at \subseteq Bar
  BY DEF inverted
<1>2. solved_volatility(bars, minute, strike)
        = IF at = {} THEN NoVolatility ELSE CHOOSE bar \in at : TRUE
  BY DEF solved_volatility
<1>. HIDE DEF at
<1>. QED
  BY <1>1, <1>2 DEF Volatility

\* A stored Chain is of chain rows.
LEMMA ChainType ==
  ASSUME IInv, stage = "stored"
  PROVE  chain \in SUBSET ChainRow
<1>1. ASSUME NEW minute \in moments, NEW bar \in InHand(minute)
      PROVE  Row(minute, bar, solvable) \in ChainRow
  <2>1. /\ bar \in Bar /\ minute \in Minutes /\ solvable \in SUBSET Bar
        /\ fits[minute] \in ForwardFit
    BY DEF IInv, InHand, moments, Bar
  <2>2. solved_volatility(solvable, bar.ts, bar.strike) \in Volatility
    BY <2>1, SolvedType
  <2>. QED
    BY <2>1, <2>2 DEF Row, ChainRow, Bar, ForwardFit
<1>2. chain = UNION {{Row(m, bar, solvable) : bar \in InHand(m)} : m \in moments}
  BY DEF IInv, carry_forward
<1>. QED
  BY <1>1, <1>2

\* What a strike shows is the volatility of one of its rows, or null.
LEMMA ShownType ==
  ASSUME NEW rows \in SUBSET ChainRow
  PROVE  strike_volatility(rows) \in Volatility
<1>. DEFINE having == {row \in rows : row.iv # NoVolatility}
            freshest == {row \in having : \A other \in having : other.quoted_at <= row.quoted_at}
<1>1. freshest \subseteq ChainRow
  OBVIOUS
<1>2. strike_volatility(rows) = IF freshest = {} THEN NoVolatility
                                ELSE (CHOOSE row \in freshest : TRUE).iv
  BY DEF strike_volatility
<1>. HIDE DEF freshest
<1>. QED
  BY <1>1, <1>2 DEF Volatility, ChainRow

\* The Expiry's own session is counted on every date, so the time left is never
\* below zero.
LEMMA ClockType ==
  ASSUME NEW date \in TradingDates, NEW minute \in Minutes
  PROVE  dte_days(date, minute) \in Nat
<1>. DEFINE counted == {session \in session_calendar : date <= session /\ session <= Expiry}
            after == {session \in session_calendar : date < session /\ session <= Expiry}
<1>1. /\ date \in Nat /\ Expiry \in Nat /\ date <= Expiry
      /\ Expiry \in session_calendar
  BY CalendarAssumption DEF session_calendar
<1>2. /\ date \in session_calendar => Expiry \in counted
      /\ date \notin session_calendar => Expiry \in after
  BY <1>1
<1>3. IsFiniteSet(counted) /\ IsFiniteSet(after)
  <2>1. IsFiniteSet(TradingDates \cup SESSIONS_WITHOUT_BARS)
    BY CalendarAssumption, FS_Union
  <2>. QED
    BY <2>1, FS_Subset DEF session_calendar
<1>4. sessions_to_expiry(date)
        = IF date \in session_calendar THEN Cardinality(counted) ELSE Cardinality(after)
  BY DEF sessions_to_expiry
<1>. HIDE DEF counted, after
<1>5. sessions_to_expiry(date) \in Nat \ {0}
  BY <1>2, <1>3, <1>4, FS_CardinalityType, FS_EmptySet
<1>6. MINUTES_PER_SESSION \in Nat /\ minute \in Nat /\ minute <= MINUTES_PER_SESSION
  BY SessionAssumption DEF Minutes
<1>7. \A m \in Nat, s \in Nat \ {0}, k \in Nat : k <= m => m * s - k \in Nat
  <2>1. \A m \in Nat, t \in Nat : m * t \in Nat
    OBVIOUS
  <2>2. \A m \in Nat, s \in Nat \ {0} : m * s = m * (s - 1) + m
    OBVIOUS
  <2>3. \A s \in Nat \ {0} : s - 1 \in Nat
    OBVIOUS
  <2>4. ASSUME NEW m \in Nat, NEW s \in Nat \ {0}, NEW k \in Nat, k <= m
        PROVE  m * s - k \in Nat
    <3>. DEFINE t == m * (s - 1)
    <3>1. t \in Nat /\ m * s = t + m
      BY <2>1, <2>2, <2>3
    <3>. HIDE DEF t
    <3>. QED
      BY <2>4, <3>1
  <2>. QED
    BY <2>4
<1>. QED
  BY <1>5, <1>6, <1>7 DEF dte_days

\* The money is a strike of the rows it is taken from.
LEMMA MoneyIsQuoted ==
  ASSUME NEW rows \in SUBSET ChainRow, rows # {}, NEW forward \in Nat
  PROVE  at_the_money_strike(rows, forward) \in quotedStrikes(rows)
<1>. DEFINE candidates == IF paired(rows) # {} THEN paired(rows) ELSE quotedStrikes(rows)
            nearest == Nearest(candidates, forward)
<1>1. candidates \in SUBSET quotedStrikes(rows) /\ candidates # {}
  BY DEF paired, quotedStrikes, Sides
<1>2. quotedStrikes(rows) \in SUBSET Nat
  BY MarketAssumption DEF quotedStrikes, ChainRow
<1>3. at_the_money_strike(rows, forward)
        = CHOOSE strike \in nearest : \A other \in nearest : strike <= other
  BY DEF at_the_money_strike
<1>. HIDE DEF candidates
<1>4. nearest # {} /\ nearest \subseteq candidates
  BY <1>1, <1>2, NearestMember
<1>. HIDE DEF nearest
<1>5. nearest \in SUBSET Nat
  BY <1>1, <1>2, <1>4
<1>6. \E strike \in nearest : \A other \in nearest : strike <= other
  BY <1>4, <1>5, LeastMember
<1>. QED
  BY <1>1, <1>3, <1>4, <1>6

\* The money of every header traded in its very minute: on both sides wherever
\* the Forward was measured or any strike traded both.
THEOREM AlwaysMoneyOfTheMinute == Spec => []MoneyIsOfTheMinute
<1>1. ASSUME IInv, stage = "stored", NEW minute \in DOMAIN summary
      PROVE  LET money == summary[minute].atm_strike
             IN  /\ printed(money, minute) # {}
                 /\ \/ summary[minute].method # "spot"
                    \/ \E strike \in Strikes : printed(strike, minute) = Sides
                    => printed(money, minute) = Sides
  <2>. DEFINE rows == {row \in STRICT(chain) : row.timestamp_utc = minute}
              forward == (CHOOSE row \in rows : TRUE).forward
              money == at_the_money_strike(rows, forward)
  <2>1. summary = summary_frame(chain) /\ DOMAIN fits = moments
    BY <1>1 DEF IInv
  <2>2. \E row \in STRICT(chain) : row.timestamp_utc = minute
    BY <1>1, <2>1 DEF summary_frame
  <2>3. summary[minute].method = fits[minute].method /\ summary[minute].atm_strike = money
    BY <1>1, <2>1 DEF summary_frame
  <2>4. minute \in moments
    BY <1>1, <2>2, StoredRows DEF STRICT
  <2>5. fits[minute] \in fit_forward(minute)
    BY <1>1, <2>1, <2>4 DEF IInv
  <2>6. fits[minute].method # "spot" => paired(Bars(minute)) # {}
    BY <2>5, MeasuredHasPairs
  <2>7. ASSUME NEW row \in rows
        PROVE  row.option_type \in printed(row.strike, minute)
    <3>1. row \in chain /\ row.timestamp_utc = minute /\ row.quoted_at = minute
      BY <2>7 DEF STRICT
    <3>2. PrintedAs(row) \in quoted
      BY <1>1, <3>1, StoredRows DEF InHand
    <3>3. row.option_type \in Sides
      BY <1>1, <3>1, ChainType DEF ChainRow
    <3>. QED
      BY <3>1, <3>2, <3>3 DEF PrintedAs, printed
  <2>8. ASSUME NEW bar \in Bars(minute)
        PROVE  \E row \in rows : row.strike = bar.strike /\ row.option_type = bar.option_type
    <3>1. bar \in quoted /\ bar.ts = minute
      BY DEF Bars
    <3>2. PICK row \in chain : row.timestamp_utc = minute /\ PrintedAs(row) = bar
      BY <1>1, <2>4, <3>1, StoredRows
    <3>3. row.quoted_at = minute /\ row.strike = bar.strike /\ row.option_type = bar.option_type
      BY <3>1, <3>2 DEF PrintedAs
    <3>. QED
      BY <3>2, <3>3 DEF STRICT
  <2>9. rows \in SUBSET ChainRow /\ rows # {}
    BY <1>1, <2>2, ChainType DEF STRICT
  <2>. HIDE DEF rows
  <2>10. forward \in Nat
    BY <2>9, MarketAssumption DEF ChainRow
  <2>. HIDE DEF forward
  <2>11. money \in quotedStrikes(rows)
    BY <2>9, <2>10, MoneyIsQuoted
  <2>12. paired(rows) # {} => money \in paired(rows)
    BY <2>10, MoneyIsPaired
  <2>. HIDE DEF money
  <2>13. printed(money, minute) # {}
    BY <2>7, <2>11 DEF quotedStrikes
  <2>14. money \in paired(rows) => printed(money, minute) = Sides
    <3>1. ASSUME money \in paired(rows), NEW side \in Sides
          PROVE  side \in printed(money, minute)
      <4>1. PICK row \in rows : row.strike = money /\ row.option_type = side
        BY <3>1 DEF paired
      <4>. QED
        BY <2>7, <4>1
    <3>. QED
      BY <3>1 DEF printed
  <2>15. paired(Bars(minute)) # {} => paired(rows) # {}
    BY <2>8 DEF paired
  <2>16. ASSUME NEW strike \in Strikes, printed(strike, minute) = Sides
         PROVE  paired(Bars(minute)) # {}
    <3>1. ASSUME NEW side \in Sides
          PROVE  \E bar \in Bars(minute) : bar.strike = strike /\ bar.option_type = side
      <4>. DEFINE bar == [ts |-> minute, strike |-> strike, option_type |-> side]
      <4>1. bar \in quoted
        BY <2>16 DEF printed
      <4>2. bar \in Bars(minute)
        BY <4>1 DEF Bars
      <4>. QED
        BY <4>2
    <3>2. strike \in paired(Bars(minute))
      BY <3>1 DEF paired
    <3>. QED
      BY <3>2
  <2>. QED
    BY <2>3, <2>6, <2>12, <2>13, <2>14, <2>15, <2>16
<1>2. IInv => MoneyIsOfTheMinute
  BY <1>1 DEF MoneyIsOfTheMinute
<1>. QED
  BY <1>2, AlwaysIInv, PTL

\* A stored Summary is of headers, for minutes that have a bar.
LEMMA SummaryType ==
  ASSUME IInv, stage = "stored"
  PROVE  DOMAIN summary \subseteq moments /\ summary \in [DOMAIN summary -> Header]
<1>1. /\ summary = summary_frame(chain)
      /\ DOMAIN summary = {row.timestamp_utc : row \in STRICT(chain)}
  BY DEF IInv, summary_frame
<1>2. DOMAIN summary \subseteq moments
  BY <1>1, StoredRows DEF STRICT
<1>3. ASSUME NEW minute \in DOMAIN summary
      PROVE  summary[minute] \in Header
  <2>. DEFINE rows == {row \in STRICT(chain) : row.timestamp_utc = minute}
              forward == (CHOOSE row \in rows : TRUE).forward
              money == at_the_money_strike(rows, forward)
              shown == strike_volatility({row \in chain : row.timestamp_utc = minute /\ row.strike = money})
  <2>1. chain \in SUBSET ChainRow
    BY ChainType
  <2>2. rows \in SUBSET ChainRow /\ rows # {}
    BY <1>1, <2>1 DEF STRICT
  <2>3. forward \in Levels \cup Spots /\ forward \in Nat
    <3>. HIDE DEF rows
    <3>. QED
      BY <2>2, MarketAssumption DEF ChainRow
  <2>4. summary[minute] = [forward |-> forward, method |-> fits[minute].method,
                           dte_days |-> dte_days(on, minute), pairs |-> Cardinality(paired(rows)),
                           atm_strike |-> money, atm_iv |-> shown]
    BY <1>1 DEF summary_frame
  <2>5. fits[minute].method \in {"parity_fit", "single_strike_parity", "spot"}
    <3>1. fits[minute] \in ForwardFit
      BY <1>2 DEF IInv
    <3>. QED
      BY <3>1 DEF ForwardFit
  <2>6. minute \in Minutes
    BY <1>2 DEF IInv, moments, Bar
  <2>7. dte_days(on, minute) \in Nat
    BY <2>6, ClockType DEF IInv
  <2>8. Cardinality(paired(rows)) \in Nat
    <3>1. paired(rows) \subseteq Strikes
      BY DEF paired
    <3>. QED
      BY <3>1, MarketAssumption, FS_Subset, FS_CardinalityType
  <2>. HIDE DEF rows, forward
  <2>9. money \in Strikes
    BY <2>2, <2>3, MoneyIsQuoted DEF quotedStrikes, ChainRow
  <2>10. shown \in Volatility
    BY <2>1, ShownType
  <2>. HIDE DEF money, shown
  <2>. QED
    BY <2>3, <2>4, <2>5, <2>7, <2>8, <2>9, <2>10 DEF Header
<1>4. summary = [minute \in DOMAIN summary |-> summary[minute]]
  BY <1>1 DEF summary_frame
<1>. QED
  BY <1>2, <1>3, <1>4

\* The bars, the fits and the two artifacts stay of their types.
THEOREM TypeCorrect == Spec => []TypeOK
<1>1. ASSUME IInv
      PROVE  TypeOK
  <2>1. CASE stage = "stored"
    BY <1>1, <2>1, ChainType, SummaryType DEF IInv, TypeOK
  <2>2. CASE stage # "stored"
    <3>1. chain = {} /\ DOMAIN summary = {} /\ summary \in [DOMAIN summary -> Header]
      BY <1>1, <2>2, EmptyFunction DEF IInv
    <3>. QED
      BY <1>1, <3>1 DEF IInv, TypeOK
  <2>. QED
    BY <2>1, <2>2
<1>. QED
  BY <1>1, AlwaysIInv, PTL

------------------------------------------------------------------------------
(* What the engine answers: the facts its reads share. *)

\* The quote a row of a moment's minute is answered as: its own contract, print
\* and age, and its strike's volatility.
Quote(moment, row) ==
  [strike |-> row.strike, option_type |-> row.option_type, last |-> PrintedAs(row),
   strike_iv |-> shownVolatility(moment, row.strike), age_minutes |-> moment - row.quoted_at,
   delta |-> delta(row.strike, row.option_type, forward_at(moment),
                   shownVolatility(moment, row.strike))]

\* The two lookups fail together, and what is quoted are the minute's rows.
LEMMA SnapshotIsTheMinute ==
  ASSUME IInv, stage = "stored", NEW moment \in Minutes
  PROVE  /\ snapshot(moment) = {Quote(moment, row) : row \in minute_slice(moment)}
         /\ minute_slice(moment) = {} <=> minute_summary(moment) = {}
<1>1. minute_slice(moment) = {} <=> minute_summary(moment) = {}
  BY LastMinute
<1>2. rowsAt(moment) = minute_slice(moment)
  BY <1>1 DEF rowsAt
<1>3. snapshot(moment) = {Quote(moment, row) : row \in minute_slice(moment)}
  BY <1>2 DEF snapshot, Quote, shownVolatility
<1>. QED
  BY <1>1, <1>3

\* Where a moment is answered, one header answers it, of a minute not after it
\* and of the types the engine reads it at.
LEMMA AnsweringMinute ==
  ASSUME IInv, stage = "stored", NEW moment \in Minutes, minute_summary(moment) # {}
  PROVE  /\ theMinute(moment) \in moments
         /\ theMinute(moment) <= moment
         /\ minute_summary(moment) = {theMinute(moment)}
         /\ minute_slice(moment) = {row \in chain : row.timestamp_utc = theMinute(moment)}
         /\ minute_slice(moment) # {}
         /\ \A minute \in moments : minute <= moment <=> minute <= theMinute(moment)
         /\ forward_at(moment) \in Header
         /\ spot_at(moment) \in Spots
<1>1. PICK last \in moments :
        /\ last <= moment
        /\ \A minute \in moments : minute <= moment <=> minute <= last
        /\ minute_summary(moment) = {last}
        /\ minute_slice(moment) = {row \in chain : row.timestamp_utc = last}
        /\ minute_slice(moment) # {}
  BY LastMinute
<1>2. theMinute(moment) = last
  BY <1>1 DEF theMinute
<1>3. summary[last] \in Header
  <2>1. last \in DOMAIN summary
    BY <1>1, LastMinute
  <2>. QED
    BY <2>1, SummaryType
<1>4. spot[last] \in Spots
  BY <1>1 DEF IInv
<1>. QED
  BY <1>1, <1>2, <1>3, <1>4 DEF forward_at, spot_at

\* The header's money is a strike of its minute's rows, and its volatility the
\* one that strike shows there.
LEMMA HeaderMoney ==
  ASSUME IInv, stage = "stored", NEW moment \in Minutes, minute_summary(moment) # {}
  PROVE  /\ \E row \in minute_slice(moment) : row.strike = at_the_money(moment)
         /\ at_the_money_volatility(moment) = shownVolatility(moment, at_the_money(moment))
<1>. DEFINE last == theMinute(moment)
            rows == {row \in STRICT(chain) : row.timestamp_utc = last}
            forward == (CHOOSE row \in rows : TRUE).forward
            money == at_the_money_strike(rows, forward)
            shown == strike_volatility({row \in chain : row.timestamp_utc = last /\ row.strike = money})
<1>1. /\ last \in DOMAIN summary
      /\ minute_slice(moment) = {row \in chain : row.timestamp_utc = last}
  BY AnsweringMinute, LastMinute
<1>2. summary = summary_frame(chain) /\ \E row \in STRICT(chain) : row.timestamp_utc = last
  <2>1. summary = summary_frame(chain)
    BY DEF IInv
  <2>2. DOMAIN summary_frame(chain) = {row.timestamp_utc : row \in STRICT(chain)}
    BY DEF summary_frame
  <2>. HIDE DEF last
  <2>. QED
    BY <1>1, <2>1, <2>2
<1>3. summary[last].atm_strike = money /\ summary[last].atm_iv = shown
  BY <1>2 DEF summary_frame
<1>4. rows \in SUBSET ChainRow /\ rows # {} /\ rows \subseteq minute_slice(moment)
  BY <1>1, <1>2, ChainType DEF STRICT
<1>5. forward \in Nat
  <2>. HIDE DEF rows
  <2>. QED
    BY <1>4, MarketAssumption DEF ChainRow
<1>6. shown = shownVolatility(moment, money)
  <2>1. {row \in chain : row.timestamp_utc = last /\ row.strike = money}
          = {row \in minute_slice(moment) : row.strike = money}
    BY <1>1
  <2>. QED
    BY <2>1 DEF shownVolatility
<1>. HIDE DEF rows, forward
<1>7. money \in quotedStrikes(rows)
  BY <1>4, <1>5, MoneyIsQuoted
<1>. HIDE DEF money, shown
<1>. QED
  BY <1>3, <1>4, <1>6, <1>7 DEF quotedStrikes, at_the_money, at_the_money_volatility, forward_at

------------------------------------------------------------------------------
(* The header and the table. *)

\* A row of the table is of a quoted strike and shows its volatility.
LEMMA TableRow ==
  ASSUME IInv, stage = "stored", NEW moment \in Minutes, NEW row \in minute_slice(moment)
  PROVE  /\ row.strike \in quotedStrikes(snapshot(moment))
         /\ chainRow(snapshot(moment), row.strike).strike = row.strike
         /\ chainRow(snapshot(moment), row.strike).iv = shownVolatility(moment, row.strike)
<1>. DEFINE quotes == snapshot(moment)
            one == CHOOSE q \in quotes : q.strike = row.strike
<1>1. quotes = {Quote(moment, other) : other \in minute_slice(moment)}
  BY SnapshotIsTheMinute
<1>2. \A q \in quotes : q.strike_iv = shownVolatility(moment, q.strike)
  BY <1>1 DEF Quote
<1>3. Quote(moment, row) \in quotes /\ Quote(moment, row).strike = row.strike
  BY <1>1 DEF Quote
<1>4. /\ chainRow(quotes, row.strike).strike = row.strike
      /\ chainRow(quotes, row.strike).iv = one.strike_iv
  BY DEF chainRow
<1>. HIDE DEF quotes
<1>5. one \in quotes /\ one.strike = row.strike
  BY <1>3
<1>6. one.strike_iv = shownVolatility(moment, row.strike)
  BY <1>2, <1>5
<1>7. row.strike \in quotedStrikes(quotes)
  BY <1>3 DEF quotedStrikes
<1>. QED
  BY <1>4, <1>6, <1>7 DEF quotes

\* The header and the table of one moment are of one minute: refused together,
\* or of one Spot, Forward and rung with the header's money a row of the table
\* (api.py, read_summary, read_chain; build_runtime.py, summary_frame).
THEOREM AlwaysHeaderIsTheTables == Spec => []HeaderIsTheTables
<1>1. ASSUME IInv, stage = "stored", NEW moment \in Minutes, NEW label \in Labels
      PROVE  LET header == read_summary(moment, label)
                 table == read_chain(moment, label)
             IN  /\ header.raised = table.raised
                 /\ header.raised = "none" =>
                      /\ header.spot = table.spot /\ header.forward = table.forward
                      /\ header.forward_method = table.forward_method
                      /\ \E row \in table.rows :
                           row.strike = header.atm_strike /\ row.iv = header.atm_iv
  <2>. DEFINE problem == refusal(label, minute_summary(moment))
  <2>1. problem = refusal(label, snapshot(moment))
    BY <1>1, SnapshotIsTheMinute DEF refusal
  <2>2. CASE problem # "none"
    BY <2>1, <2>2 DEF read_summary, read_chain
  <2>3. CASE problem = "none"
    <3>1. /\ read_summary(moment, label)
               = [raised |-> problem, moment |-> moment, expiry |-> Expiry, spot |-> spot_at(moment),
                  forward |-> forward_at(moment).forward, forward_method |-> forward_at(moment).method,
                  atm_strike |-> at_the_money(moment), atm_iv |-> at_the_money_volatility(moment)]
          /\ read_chain(moment, label)
               = [raised |-> problem, moment |-> moment, expiry |-> Expiry, spot |-> spot_at(moment),
                  forward |-> forward_at(moment).forward, forward_method |-> forward_at(moment).method,
                  rows |-> {chainRow(snapshot(moment), strike) :
                              strike \in quotedStrikes(snapshot(moment))}]
      BY <2>1, <2>3 DEF read_summary, read_chain
    <3>2. minute_summary(moment) # {}
      BY <2>3 DEF refusal
    <3>3. PICK row \in minute_slice(moment) : row.strike = at_the_money(moment)
      BY <1>1, <3>2, HeaderMoney
    <3>4. LET shown == chainRow(snapshot(moment), row.strike)
          IN  /\ shown \in read_chain(moment, label).rows
              /\ shown.strike = at_the_money(moment)
              /\ shown.iv = at_the_money_volatility(moment)
      BY <1>1, <3>1, <3>2, <3>3, TableRow, HeaderMoney
    <3>. QED
      BY <2>3, <3>1, <3>4
  <2>. QED
    BY <2>2, <2>3
<1>2. IInv => HeaderIsTheTables
  BY <1>1 DEF HeaderIsTheTables
<1>. QED
  BY <1>2, AlwaysIInv, PTL

------------------------------------------------------------------------------
(* A call's delta and its put's. *)

\* A side is priced where its strike has a volatility, while time is left.
LEMMA DeltaWhereVolatility ==
  ASSUME NEW strike, NEW side, NEW fit, fit.dte_days \in Nat, fit.dte_days > 0, NEW iv
  PROVE  delta(strike, side, fit, iv) = {} <=> iv = NoVolatility
BY DEF delta, black76_greeks

\* Two sides of one strike are asked of one Forward, one clock and one
\* volatility.
LEMMA DeltaBothSides ==
  ASSUME NEW strike, NEW side, NEW other, NEW fit, NEW iv
  PROVE  {[exposure EXCEPT !.option_type = "CE"] : exposure \in delta(strike, side, fit, iv)}
           = {[exposure EXCEPT !.option_type = "CE"] : exposure \in delta(strike, other, fit, iv)}
<1>1. \A volatility :
        [asked(strike, side, fit, volatility) EXCEPT !.option_type = "CE"]
          = [asked(strike, other, fit, volatility) EXCEPT !.option_type = "CE"]
  BY DEF asked
<1>2. \A one : delta(strike, one, fit, iv)
                 = IF fit.dte_days <= 0 THEN {asked(strike, one, fit, NoVolatility)}
                   ELSE IF iv = NoVolatility THEN {}
                   ELSE IF fit.dte_days > 0 THEN {asked(strike, one, fit, iv)} ELSE {}
  BY DEF delta, expiry_delta, black76_greeks
<1>. QED
  BY <1>1, <1>2

\* However far apart the two sides of a strike last printed, both are priced at
\* one Forward, one clock and one volatility (chain.py, _snapshot).
THEOREM AlwaysDeltasArePairs == Spec => []DeltasArePairs
<1>1. ASSUME IInv, stage = "stored", NEW moment \in Minutes,
             NEW quote \in snapshot(moment)
      PROVE  /\ \A other \in snapshot(moment) :
                  quote.strike = other.strike =>
                    {[exposure EXCEPT !.option_type = "CE"] : exposure \in quote.delta}
                      = {[exposure EXCEPT !.option_type = "CE"] : exposure \in other.delta}
             /\ timeLeft(moment) => ((quote.delta = {}) <=> (quote.strike_iv = NoVolatility))
  <2>1. \A q \in snapshot(moment) :
          /\ q.strike_iv = shownVolatility(moment, q.strike)
          /\ q.delta = delta(q.strike, q.option_type, forward_at(moment), q.strike_iv)
    BY <1>1, SnapshotIsTheMinute DEF Quote
  <2>2. minute_summary(moment) # {}
    BY <1>1, SnapshotIsTheMinute
  <2>3. timeLeft(moment) => /\ forward_at(moment).dte_days > 0
                            /\ forward_at(moment).dte_days \in Nat
    <3>1. forward_at(moment) \in Header /\ minute_summary(moment) = {theMinute(moment)}
      BY <1>1, <2>2, AnsweringMinute
    <3>. QED
      BY <3>1 DEF timeLeft, forward_at, Header
  <2>4. timeLeft(moment) => ((quote.delta = {}) <=> (quote.strike_iv = NoVolatility))
    BY <2>1, <2>3, DeltaWhereVolatility
  <2>5. ASSUME NEW other \in snapshot(moment), quote.strike = other.strike
        PROVE  {[exposure EXCEPT !.option_type = "CE"] : exposure \in quote.delta}
                 = {[exposure EXCEPT !.option_type = "CE"] : exposure \in other.delta}
    <3>1. /\ quote.delta = delta(quote.strike, quote.option_type, forward_at(moment), quote.strike_iv)
          /\ other.delta = delta(quote.strike, other.option_type, forward_at(moment), quote.strike_iv)
      BY <2>1, <2>5
    <3>. QED
      BY <3>1, DeltaBothSides
  <2>. QED
    BY <2>4, <2>5
<1>2. IInv => DeltasArePairs
  BY <1>1 DEF DeltasArePairs
<1>. QED
  BY <1>2, AlwaysIInv, PTL

------------------------------------------------------------------------------
(* The session. *)

\* The engine's Min and Max of a bounded set of strikes or minutes are members,
\* and bound it.
LEMMA Extremes ==
  ASSUME NEW S \in SUBSET Nat, S # {}, NEW n \in Nat, \A x \in S : x <= n
  PROVE  /\ Min(S) \in S /\ \A y \in S : Min(S) <= y
         /\ Max(S) \in S /\ \A y \in S : y <= Max(S)
<1>1. \E x \in S : \A y \in S : x <= y
  BY LeastMember
<1>2. \E x \in S : \A y \in S : x >= y
  <2>1. PICK x \in S : \A y \in S : y <= x
    BY GreatestMember
  <2>. QED
    BY <2>1
<1>3. \A y \in S : Max(S) >= y /\ y \in Nat /\ Max(S) \in S
  BY <1>2 DEF Max
<1>. QED
  BY <1>1, <1>3 DEF Min

\* A finite set of naturals is bounded.
LEMMA FiniteBounded ==
  ASSUME NEW S \in SUBSET Nat, IsFiniteSet(S)
  PROVE  \E n \in Nat : \A x \in S : x <= n
<1>. DEFINE unbounded == {T \in SUBSET S : \A n \in Nat : ~\A x \in T : x <= n}
            sizes == {Cardinality(T) : T \in unbounded}
<1>1. SUFFICES ASSUME unbounded # {}
               PROVE  FALSE
  OBVIOUS
<1>2. \A T \in SUBSET S : IsFiniteSet(T) /\ Cardinality(T) \in Nat
  BY FS_Subset, FS_CardinalityType
<1>3. sizes \in SUBSET Nat /\ sizes # {}
  BY <1>1, <1>2
<1>4. PICK T \in unbounded : \A U \in unbounded : Cardinality(T) <= Cardinality(U)
  <2>1. PICK least \in sizes : \A size \in sizes : least <= size
    <3>. HIDE DEF sizes
    <3>. QED
      BY <1>3, LeastMember
  <2>. QED
    BY <2>1
<1>5. PICK x \in T : TRUE
  OBVIOUS
<1>. DEFINE U == T \ {x}
<1>6. Cardinality(U) = Cardinality(T) - 1
  BY <1>2, <1>4, <1>5, FS_RemoveElement
<1>7. U \notin unbounded
  BY <1>2, <1>4, <1>6
<1>8. PICK n \in Nat : \A y \in U : y <= n
  BY <1>4, <1>7
<1>9. x \in Nat /\ \A y \in T : y \in Nat
  BY <1>4, <1>5
<1>10. n + x \in Nat /\ \A y \in T : y <= n + x
  BY <1>8, <1>9
<1>. QED
  BY <1>4, <1>10

\* A contract that has traded by a minute is in hand at it.
LEMMA ContractInHand ==
  ASSUME IInv, stage = "stored", NEW bar \in quoted, NEW minute \in moments, bar.ts <= minute
  PROVE  \E other \in InHand(minute) : SameContract(other, bar)
<1>. DEFINE prints == {other.ts : other \in {b \in quoted : SameContract(b, bar) /\ b.ts <= minute}}
<1>1. minute \in Nat /\ \A other \in quoted : other.ts \in Nat
  BY SessionAssumption DEF IInv, moments, Bar, Minutes
<1>2. prints \in SUBSET Nat /\ prints # {} /\ \A ts \in prints : ts <= minute
  BY <1>1 DEF SameContract
<1>3. PICK last \in prints : \A ts \in prints : ts <= last
  <2>. HIDE DEF prints
  <2>. QED
    BY <1>1, <1>2, GreatestMember
<1>4. PICK other \in quoted : SameContract(other, bar) /\ other.ts <= minute /\ other.ts = last
  BY <1>3
<1>5. ASSUME NEW later \in quoted, other.ts < later.ts, later.ts <= minute,
             later.strike = other.strike, later.option_type = other.option_type
      PROVE  FALSE
  <2>1. SameContract(later, bar)
    BY <1>4, <1>5 DEF SameContract
  <2>2. later.ts \in prints
    BY <1>5, <2>1
  <2>3. later.ts <= last /\ last < later.ts /\ later.ts \in Nat /\ last \in Nat
    BY <1>1, <1>3, <1>4, <1>5, <2>2
  <2>. QED
    BY <2>3
<1>6. other \in InHand(minute)
  BY <1>4, <1>5 DEF InHand
<1>. QED
  BY <1>4, <1>6

\* Every stop of the time control is answered, of its own minute, and the table
\* lists the strikes of its rows.
LEMMA StopIsServed ==
  ASSUME IInv, stage = "stored", NEW minute \in moments
  PROVE  /\ read_summary(minute, Expiry).raised = "none"
         /\ read_chain(minute, Expiry).raised = "none"
         /\ {row.strike : row \in read_chain(minute, Expiry).rows}
              = {row.strike : row \in {r \in chain : r.timestamp_utc = minute}}
         /\ \E row \in chain : row.timestamp_utc = minute
<1>. DEFINE quotes == snapshot(minute)
<1>1. minute \in Minutes /\ moments \subseteq Nat
  BY SessionAssumption DEF IInv, moments, Bar, Minutes
<1>2. minute_summary(minute) # {}
  <2>1. minute <= minute
    BY <1>1
  <2>. QED
    BY <1>1, <2>1, LastMinute
<1>3. theMinute(minute) = minute
  <2>1. /\ theMinute(minute) \in moments
        /\ theMinute(minute) <= minute
        /\ \A other \in moments : other <= minute <=> other <= theMinute(minute)
    BY <1>1, <1>2, AnsweringMinute
  <2>2. minute <= theMinute(minute) /\ theMinute(minute) \in Nat /\ minute \in Nat
    <3>1. theMinute(minute) \in Nat
      BY <1>1, <2>1
    <3>2. minute \in Nat /\ minute <= minute
      BY <1>1
    <3>. QED
      BY <2>1, <3>1, <3>2
  <2>. QED
    BY <2>1, <2>2
<1>4. /\ minute_slice(minute) = {row \in chain : row.timestamp_utc = minute}
      /\ minute_slice(minute) # {}
  BY <1>1, <1>2, <1>3, AnsweringMinute
<1>5. require(Expiry) = "none"
  BY LabelsAssumption DEF require, readable, traded
<1>6. /\ quotes = {Quote(minute, row) : row \in minute_slice(minute)}
      /\ quotes # {}
  BY <1>1, <1>4, SnapshotIsTheMinute
<1>7. refusal(Expiry, quotes) = "none" /\ refusal(Expiry, minute_summary(minute)) = "none"
  BY <1>2, <1>5, <1>6 DEF refusal
<1>8. quotedStrikes(quotes) = {row.strike : row \in minute_slice(minute)}
  <2>1. \A row : Quote(minute, row).strike = row.strike
    BY DEF Quote
  <2>. HIDE DEF quotes
  <2>. QED
    BY <1>6, <2>1 DEF quotedStrikes
<1>9. /\ read_chain(minute, Expiry).raised = "none"
      /\ read_chain(minute, Expiry).rows = {chainRow(quotes, strike) : strike \in quotedStrikes(quotes)}
  BY <1>7 DEF read_chain
<1>10. read_summary(minute, Expiry).raised = "none"
  BY <1>7 DEF read_summary
<1>11. \A strike : chainRow(quotes, strike).strike = strike
  BY DEF chainRow
<1>12. {row.strike : row \in read_chain(minute, Expiry).rows} = quotedStrikes(quotes)
  <2>. HIDE DEF quotes
  <2>. QED
    BY <1>9, <1>11
<1>13. {row.strike : row \in minute_slice(minute)}
         = {row.strike : row \in {r \in chain : r.timestamp_utc = minute}}
  BY <1>4
<1>. QED
  BY <1>4, <1>8, <1>9, <1>10, <1>12, <1>13

\* What /session lists is served at every stop of it, inside the range it
\* gives, and the last stop shows both ends of that range (api.py,
\* read_session; chain.py, strike_bounds).
THEOREM AlwaysSessionIsServed == Spec => []SessionIsServed
<1>1. ASSUME IInv, stage = "stored", NEW session \in {read_session(label) : label \in Labels}
      PROVE  LET tables == [moment \in session.moments |-> read_chain(moment, session.expiry)]
                 shown == [moment \in session.moments |-> {row.strike : row \in tables[moment].rows}]
             IN  /\ \A moment \in session.moments :
                      /\ tables[moment].raised = "none"
                      /\ read_summary(moment, session.expiry).raised = "none"
                      /\ shown[moment] # {}
                      /\ \A strike \in shown[moment] :
                           session.strike_min <= strike /\ strike <= session.strike_max
                 /\ {session.strike_min, session.strike_max} \subseteq shown[Max(session.moments)]
  <2>. DEFINE strikes == {row.strike : row \in chain}
              listed(minute) == {row.strike : row \in {r \in chain : r.timestamp_utc = minute}}
              last == Max(moments)
  <2>1. /\ session.expiry = Expiry /\ session.moments = moments
        /\ session.strike_min = Min(strikes) /\ session.strike_max = Max(strikes)
    <3>. PICK label \in Labels : session = read_session(label)
      OBVIOUS
    <3>1. resolve(label) = Expiry
      BY DEF resolve, traded
    <3>2. stops = moments
      <4>1. 0 \in Minutes
        BY SessionAssumption DEF Minutes
      <4>. QED
        BY <1>1, <4>1, LastMinute DEF stops
    <3>. QED
      BY <3>1, <3>2 DEF read_session, strike_bounds
  <2>2. /\ moments \in SUBSET Nat /\ moments # {}
        /\ MINUTES_PER_SESSION \in Nat /\ \A minute \in moments : minute <= MINUTES_PER_SESSION
    BY <1>1, SessionAssumption DEF IInv, moments, Bar, Minutes
  <2>3. last \in moments /\ \A minute \in moments : minute <= last
    BY <2>2, Extremes
  <2>4. strikes \in SUBSET Nat /\ strikes # {} /\ \E n \in Nat : \A strike \in strikes : strike <= n
    <3>1. strikes \in SUBSET Strikes
      BY <1>1, ChainType DEF ChainRow
    <3>2. strikes # {}
      BY <1>1, <2>3, StopIsServed
    <3>3. IsFiniteSet(strikes) /\ strikes \in SUBSET Nat
      BY <3>1, MarketAssumption, FS_Subset
    <3>. HIDE DEF strikes
    <3>. QED
      BY <3>2, <3>3, FiniteBounded
  <2>5. /\ Min(strikes) \in strikes /\ \A strike \in strikes : Min(strikes) <= strike
        /\ Max(strikes) \in strikes /\ \A strike \in strikes : strike <= Max(strikes)
    <3>. HIDE DEF strikes
    <3>. QED
      BY <2>4, Extremes
  <2>6. \A minute \in moments : listed(minute) \subseteq strikes
    OBVIOUS
  <2>7. strikes \subseteq listed(last)
    <3>1. ASSUME NEW row \in chain
          PROVE  \E other \in chain : other.timestamp_utc = last /\ other.strike = row.strike
      <4>1. PrintedAs(row) \in quoted /\ PrintedAs(row).ts \in moments /\ PrintedAs(row).strike = row.strike
        BY <1>1, StoredRows DEF InHand, PrintedAs, moments
      <4>2. PICK bar \in InHand(last) : SameContract(bar, PrintedAs(row))
        BY <1>1, <2>3, <4>1, ContractInHand
      <4>3. PICK other \in chain : other.timestamp_utc = last /\ PrintedAs(other) = bar
        BY <1>1, <2>3, <4>2, StoredRows
      <4>4. other.strike = bar.strike /\ bar.strike = row.strike
        BY <4>1, <4>2, <4>3 DEF PrintedAs, SameContract
      <4>. QED
        BY <4>3, <4>4
    <3>. QED
      BY <3>1
  <2>8. \A minute \in moments :
          /\ read_summary(minute, Expiry).raised = "none"
          /\ read_chain(minute, Expiry).raised = "none"
          /\ {row.strike : row \in read_chain(minute, Expiry).rows} = listed(minute)
          /\ listed(minute) # {}
    BY <1>1, StopIsServed
  <2>. HIDE DEF strikes, listed, last
  <2>9. \A minute \in session.moments :
          /\ read_summary(minute, session.expiry).raised = "none"
          /\ read_chain(minute, session.expiry).raised = "none"
          /\ {row.strike : row \in read_chain(minute, session.expiry).rows} = listed(minute)
          /\ listed(minute) # {}
          /\ \A strike \in listed(minute) :
               session.strike_min <= strike /\ strike <= session.strike_max
    BY <2>1, <2>5, <2>6, <2>8
  <2>10. /\ Max(session.moments) \in session.moments
         /\ {session.strike_min, session.strike_max} \subseteq listed(Max(session.moments))
    BY <2>1, <2>3, <2>5, <2>7 DEF last
  <2>. QED
    BY <2>9, <2>10
<1>2. IInv => SessionIsServed
  BY <1>1 DEF SessionIsServed
<1>. QED
  BY <1>2, AlwaysIInv, PTL

------------------------------------------------------------------------------
(* The analysis. *)

\* A read is refused for what its label is before what it finds, and is
\* answered for the date's Expiry wherever something is stored.
LEMMA Refusals ==
  ASSUME NEW label, NEW found
  PROVE  /\ refusal(label, found)
              \in {"none", "UnreadableExpiry", "UnknownExpiry", "StrikeNotQuoted"}
         /\ refusal(label, found) = "none" <=> (label = Expiry /\ found # {})
BY LabelsAssumption DEF refusal, require, readable, traded

\* A Leg is met where its contract is quoted at a strike with a volatility.
LEMMA Meets ==
  ASSUME NEW request, NEW quotes
  PROVE  /\ meets(request, quotes)
              \in {"none", "UnreadableExpiry", "UnknownExpiry", "StrikeNotQuoted", "NotPriceable"}
         /\ meets(request, quotes) = "none"
              <=> /\ request.expiry = Expiry
                  /\ quoteOf(request, quotes) # {}
                  /\ \A q \in quoteOf(request, quotes) : q.strike_iv # NoVolatility
<1>1. quoteOf(request, quotes) # {} => quotes # {}
  BY DEF quoteOf
<1>. QED
  BY <1>1, Refusals DEF meets

\* A Strategy is resolved where each of its Legs is met; else what it ends in
\* is what one of them met.
LEMMA Unresolved ==
  ASSUME NEW n \in Nat, NEW requests, DOMAIN requests = 1..n, NEW quotes
  PROVE  /\ unresolved(requests, quotes) = "none"
              <=> \A i \in 1..n : meets(requests[i], quotes) = "none"
         /\ unresolved(requests, quotes) # "none"
              => \E i \in 1..n : unresolved(requests, quotes) = meets(requests[i], quotes)
<1>. DEFINE refused == {i \in 1..n : meets(requests[i], quotes) # "none"}
<1>1. unresolved(requests, quotes)
        = IF refused = {} THEN "none" ELSE meets(requests[Min(refused)], quotes)
  BY DEF unresolved
<1>2. refused # {} => Min(refused) \in refused
  <2>1. refused \in SUBSET Nat /\ \A i \in refused : i <= n
    OBVIOUS
  <2>. HIDE DEF refused
  <2>. QED
    BY <2>1, Extremes
<1>. QED
  BY <1>1, <1>2

\* The Legs of a Strategy of one Expiry span one Expiry.
LEMMA SoleExpiry ==
  ASSUME NEW n \in Nat, NEW requests, DOMAIN requests = 1..n,
         \A i \in 1..n : requests[i].expiry = Expiry
  PROVE  sole_expiry(requests) = "none"
<1>. DEFINE spanned == {requests[i].expiry : i \in DOMAIN requests}
<1>1. spanned = {} \/ spanned = {Expiry}
  OBVIOUS
<1>2. Cardinality({}) = 0 /\ Cardinality({Expiry}) = 1
  BY FS_EmptySet, FS_Singleton
<1>3. NotALabel \notin spanned
  BY <1>1, LabelsAssumption
<1>4. ~(Cardinality(spanned) > 1)
  <2>. HIDE DEF spanned
  <2>1. Cardinality(spanned) = 0 \/ Cardinality(spanned) = 1
    BY <1>1, <1>2
  <2>. QED
    BY <2>1
<1>. QED
  BY <1>3, <1>4 DEF sole_expiry

\* While time is left, a question whose Legs are all met is answered, each Leg
\* at the delta its contract shows.
LEMMA AnalysisOfTheMet ==
  ASSUME IInv, stage = "stored", NEW moment \in Minutes, timeLeft(moment),
         minute_summary(moment) # {},
         NEW n \in Nat, NEW requests, DOMAIN requests = 1..n,
         \A i \in 1..n : meets(requests[i], snapshot(moment)) = "none"
  PROVE  LET rows == leg_greeks(resolve_legs(requests, snapshot(moment)), forward_at(moment))
         IN  /\ analyse(requests, moment, snapshot(moment))
                  = [raised |-> "none", moment |-> moment, spot |-> spot_at(moment),
                     forward |-> forward_at(moment).forward, greeks |-> rows,
                     total_greeks |-> total_greeks(rows)]
             /\ rows = [i \in 1..n |-> rows[i]]
             /\ \A i \in 1..n :
                  /\ rows[i].scale = requests[i].direction * requests[i].quantity
                  /\ rows[i] = [of |-> rows[i].of, scale |-> rows[i].scale]
                  /\ \E exposure : rows[i].of = {exposure}
             /\ \A i \in 1..n : \A quote \in quoteOf(requests[i], snapshot(moment)) :
                  rows[i].of = quote.delta
<1>. DEFINE quotes == snapshot(moment)
            fit == forward_at(moment)
            legs == resolve_legs(requests, quotes)
            rows == leg_greeks(legs, fit)
            quote(i) == CHOOSE q \in quoteOf(requests[i], quotes) : TRUE
<1>1. fit.dte_days \in Nat /\ fit.dte_days > 0
  <2>1. fit \in Header /\ minute_summary(moment) = {theMinute(moment)}
    BY AnsweringMinute
  <2>. QED
    BY <2>1 DEF timeLeft, forward_at, Header
<1>2. \A q \in quotes :
        /\ q.strike_iv = shownVolatility(moment, q.strike)
        /\ q.delta = delta(q.strike, q.option_type, fit, q.strike_iv)
  BY SnapshotIsTheMinute DEF Quote
<1>. HIDE DEF quotes, fit
<1>3. /\ sole_expiry(requests) = "none"
      /\ unresolved(requests, quotes) = "none"
      /\ refusal(Expiry, minute_summary(moment)) = "none"
  <2>1. \A i \in 1..n : requests[i].expiry = Expiry
    BY Meets DEF quotes
  <2>. QED
    BY <2>1, SoleExpiry, Unresolved, Refusals DEF quotes
<1>4. /\ DOMAIN legs = 1..n
      /\ \A i \in 1..n : legs[i] = [strike |-> quote(i).strike, option_type |-> quote(i).option_type,
                                    scale |-> requests[i].direction * requests[i].quantity,
                                    entry_premium |-> quote(i).last, iv |-> quote(i).strike_iv]
  BY DEF resolve_legs
<1>5. /\ DOMAIN rows = 1..n /\ rows = [i \in 1..n |-> rows[i]]
      /\ \A i \in 1..n :
           rows[i] = [of |-> black76_greeks(quote(i).strike, quote(i).option_type, fit, quote(i).strike_iv),
                      scale |-> requests[i].direction * requests[i].quantity]
  <2>. HIDE DEF legs, quote
  <2>. QED
    BY <1>4 DEF leg_greeks
<1>6. \A i \in 1..n :
        rows[i].of = {asked(quote(i).strike, quote(i).option_type, fit, quote(i).strike_iv)}
  <2>. HIDE DEF rows, quote
  <2>. QED
    BY <1>1, <1>5 DEF black76_greeks
<1>7. ASSUME NEW i \in 1..n, NEW q \in quoteOf(requests[i], quotes)
      PROVE  rows[i].of = q.delta
  <2>1. quote(i) \in quoteOf(requests[i], quotes)
    BY <1>7
  <2>2. /\ q.strike = quote(i).strike /\ q.option_type = quote(i).option_type
        /\ q \in quotes /\ quote(i) \in quotes
    BY <1>7, <2>1 DEF quoteOf
  <2>3. q.strike_iv = quote(i).strike_iv /\ q.strike_iv # NoVolatility
    <3>1. \A other \in quoteOf(requests[i], quotes) : other.strike_iv # NoVolatility
      BY Meets DEF quotes
    <3>. QED
      BY <1>2, <1>7, <2>2, <3>1
  <2>4. q.delta = {asked(q.strike, q.option_type, fit, q.strike_iv)}
    <3>1. ~(fit.dte_days <= 0)
      BY <1>1
    <3>2. delta(q.strike, q.option_type, fit, q.strike_iv)
            = {asked(q.strike, q.option_type, fit, q.strike_iv)}
      BY <1>1, <2>3, <3>1 DEF delta, black76_greeks
    <3>. QED
      BY <1>2, <2>2, <3>2
  <2>. HIDE DEF rows, quote
  <2>. QED
    BY <1>6, <2>2, <2>3, <2>4
<1>8. analyse(requests, moment, quotes)
        = [raised |-> "none", moment |-> moment, spot |-> spot_at(moment),
           forward |-> fit.forward, greeks |-> rows, total_greeks |-> total_greeks(rows)]
  <2>1. ~\E i \in DOMAIN rows : rows[i].of = {}
    <3>. HIDE DEF rows
    <3>. QED
      BY <1>5, <1>6
  <2>. QED
    BY <1>3, <2>1 DEF analyse, fit
<1>. HIDE DEF rows, quote
<1>9. \A i \in 1..n :
        /\ rows[i].scale = requests[i].direction * requests[i].quantity
        /\ rows[i] = [of |-> rows[i].of, scale |-> rows[i].scale]
        /\ \E exposure : rows[i].of = {exposure}
  <2>1. \A i \in 1..n : \E exposure : rows[i].of = {exposure}
    BY <1>6, Zenon
  <2>2. \A i \in 1..n : /\ rows[i].scale = requests[i].direction * requests[i].quantity
                        /\ rows[i] = [of |-> rows[i].of, scale |-> rows[i].scale]
    BY <1>5
  <2>. QED
    BY <2>1, <2>2
<1>10. \A i \in 1..n : \A q \in quoteOf(requests[i], quotes) : rows[i].of = q.delta
  BY <1>7
<1>11. rows = [i \in 1..n |-> rows[i]]
  BY <1>5
<1>. QED
  BY <1>8, <1>9, <1>10, <1>11 DEF rows, legs, quotes, fit

\* What a question ends in, where some Leg is not met or nothing is stored.
LEMMA AnalysisOfTheUnmet ==
  ASSUME NEW moment, NEW n \in Nat, NEW requests, DOMAIN requests = 1..n, NEW quotes,
         sole_expiry(requests) = "none",
         \/ minute_summary(moment) = {}
         \/ \E i \in 1..n : meets(requests[i], quotes) # "none"
  PROVE  /\ analyse(requests, moment, quotes) = [raised |-> analyse(requests, moment, quotes).raised]
         /\ analyse(requests, moment, quotes).raised
              \in {"UnreadableExpiry", "UnknownExpiry", "StrikeNotQuoted", "NotPriceable"}
<1>. DEFINE problem == IF unresolved(requests, quotes) # "none" THEN unresolved(requests, quotes)
                       ELSE refusal(Expiry, minute_summary(moment))
<1>1. problem \in {"UnreadableExpiry", "UnknownExpiry", "StrikeNotQuoted", "NotPriceable"}
  <2>1. CASE unresolved(requests, quotes) # "none"
    BY <2>1, Unresolved, Meets
  <2>2. CASE unresolved(requests, quotes) = "none"
    <3>1. minute_summary(moment) = {}
      BY <2>2, Unresolved
    <3>. QED
      BY <2>2, <3>1, Refusals
  <2>. QED
    BY <2>1, <2>2
<1>2. analyse(requests, moment, quotes) = [raised |-> problem]
  BY <1>1 DEF analyse
<1>. QED
  BY <1>1, <1>2

\* While time is left a Strategy of long Legs is answered exactly where the
\* Chain offers each of its contracts.
LEMMA OfferedIsPriced ==
  ASSUME IInv, stage = "stored", NEW moment \in Minutes, timeLeft(moment),
         NEW n \in Nat, NEW legs \in [1..n -> {Buy(contract) : contract \in Strikes \X Sides}]
  PROVE  /\ analyse(legs, moment, snapshot(moment)).raised = "none"
              <=> /\ minute_summary(moment) # {}
                  /\ \A i \in 1..n : <<legs[i].strike, legs[i].option_type>>
                                       \in offered(snapshot(moment))
         /\ \A i \in 1..n : meets(legs[i], snapshot(moment)) = "none"
              <=> <<legs[i].strike, legs[i].option_type>> \in offered(snapshot(moment))
<1>. DEFINE quotes == snapshot(moment)
<1>1. /\ DOMAIN legs = 1..n
      /\ \A i \in 1..n : legs[i].expiry = Expiry
  BY DEF Buy
<1>2. \A q, other \in quotes : q.strike = other.strike => q.strike_iv = other.strike_iv
  BY SnapshotIsTheMinute DEF Quote
<1>. HIDE DEF quotes
<1>3. ASSUME NEW i \in 1..n
      PROVE  meets(legs[i], quotes) = "none"
               <=> <<legs[i].strike, legs[i].option_type>> \in offered(quotes)
  <2>1. meets(legs[i], quotes) = "none"
          <=> /\ quoteOf(legs[i], quotes) # {}
              /\ \A q \in quoteOf(legs[i], quotes) : q.strike_iv # NoVolatility
    BY <1>1, Meets
  <2>2. quoteOf(legs[i], quotes)
          = {q \in quotes : q.strike = legs[i].strike /\ q.option_type = legs[i].option_type}
    BY DEF quoteOf
  <2>3. <<legs[i].strike, legs[i].option_type>> \in offered(quotes)
          <=> \E q \in quotes : /\ q.strike_iv # NoVolatility
                                /\ q.strike = legs[i].strike /\ q.option_type = legs[i].option_type
    BY DEF offered
  <2>. QED
    BY <1>2, <2>1, <2>2, <2>3
<1>4. sole_expiry(legs) = "none"
  BY <1>1, SoleExpiry
<1>5. CASE minute_summary(moment) # {} /\ \A i \in 1..n : meets(legs[i], quotes) = "none"
  <2>1. analyse(legs, moment, quotes).raised = "none"
    BY <1>1, <1>5, AnalysisOfTheMet DEF quotes
  <2>. QED
    BY <1>3, <1>5, <2>1 DEF quotes
<1>6. CASE ~(minute_summary(moment) # {} /\ \A i \in 1..n : meets(legs[i], quotes) = "none")
  <2>1. analyse(legs, moment, quotes).raised # "none"
    BY <1>1, <1>4, <1>6, AnalysisOfTheUnmet
  <2>. QED
    BY <1>3, <1>6, <2>1 DEF quotes
<1>. QED
  BY <1>5, <1>6

\* What the table offers is what the analysis accepts.
LEMMA OffersAccepted ==
  ASSUME IInv, stage = "stored", NEW moment \in Minutes, timeLeft(moment)
  PROVE  offered(snapshot(moment)) = accepted(moment, snapshot(moment))
<1>. DEFINE quotes == snapshot(moment)
<1>1. quotes # {} => minute_summary(moment) # {}
  BY SnapshotIsTheMinute
<1>2. ASSUME NEW contract \in Strikes \X Sides
      PROVE  contract \in offered(quotes) <=> contract \in accepted(moment, quotes)
  <2>1. <<Buy(contract)>> \in [1..1 -> {Buy(c) : c \in Strikes \X Sides}]
    OBVIOUS
  <2>2. /\ <<Buy(contract)>>[1].strike = contract[1]
        /\ <<Buy(contract)>>[1].option_type = contract[2]
        /\ contract = <<contract[1], contract[2]>>
    BY DEF Buy
  <2>3. analyse(<<Buy(contract)>>, moment, quotes).raised = "none"
          <=> minute_summary(moment) # {} /\ contract \in offered(quotes)
    <3>. DEFINE legs == <<Buy(contract)>>
    <3>1. 1..1 = {1} /\ 1 \in Nat
      OBVIOUS
    <3>2. analyse(legs, moment, quotes).raised = "none"
            <=> /\ minute_summary(moment) # {}
                /\ \A i \in 1..1 : <<legs[i].strike, legs[i].option_type>> \in offered(quotes)
      BY <2>1, <3>1, OfferedIsPriced
    <3>. HIDE DEF quotes
    <3>3. <<legs[1].strike, legs[1].option_type>> = contract
      BY <2>2
    <3>. HIDE DEF legs
    <3>. QED
      BY <3>1, <3>2, <3>3 DEF legs
  <2>4. offered(quotes) # {} => quotes # {}
    BY DEF offered
  <2>. HIDE DEF quotes
  <2>. QED
    BY <1>1, <2>3, <2>4 DEF accepted
<1>3. offered(quotes) \subseteq Strikes \X Sides
  <2>1. \A row \in minute_slice(moment) : row.strike \in Strikes /\ row.option_type \in Sides
    BY ChainType DEF minute_slice, ChainRow
  <2>2. \A q \in quotes : q.strike \in Strikes /\ q.option_type \in Sides
    BY <2>1, SnapshotIsTheMinute DEF Quote
  <2>. HIDE DEF quotes
  <2>. QED
    BY <2>2 DEF offered
<1>. QED
  BY <1>2, <1>3 DEF accepted

\* While time is left an analysis is of the Chain on screen: what the table
\* offers is what is priced, at that table's Forward and Spot and each Leg at
\* the delta its row shows (strategy.py, resolve_legs, leg_greeks).
THEOREM AlwaysAnalysisIsOfTheChain == Spec => []AnalysisIsOfTheChain
<1>1. ASSUME IInv, stage = "stored", NEW moment \in Minutes, timeLeft(moment),
             minute_summary(moment) # {}, NEW legs \in Strategies
      PROVE  LET answer == analyse(legs, moment, snapshot(moment))
             IN  IF \A i \in DOMAIN legs : <<legs[i].strike, legs[i].option_type>>
                                             \in accepted(moment, snapshot(moment))
                 THEN /\ answer.forward = forward_at(moment).forward
                      /\ answer.spot = spot_at(moment)
                      /\ \A i \in DOMAIN legs :
                           \A quote \in quoteOf(legs[i], snapshot(moment)) :
                             answer.greeks[i].of = quote.delta
                 ELSE answer.raised # "none"
  <2>. DEFINE quotes == snapshot(moment)
              answer == analyse(legs, moment, quotes)
              priced == \A i \in DOMAIN legs : <<legs[i].strike, legs[i].option_type>>
                                                 \in accepted(moment, quotes)
  <2>1. PICK n \in Nat : legs \in [1..n -> {Buy(contract) : contract \in Strikes \X Sides}]
    BY <1>1, QuestionAssumption DEF Strategies
  <2>2. DOMAIN legs = 1..n
    BY <2>1
  <2>3. offered(quotes) = accepted(moment, quotes)
    BY <1>1, OffersAccepted
  <2>4. /\ answer.raised = "none"
             <=> \A i \in 1..n : <<legs[i].strike, legs[i].option_type>> \in offered(quotes)
        /\ \A i \in 1..n : meets(legs[i], quotes) = "none"
             <=> <<legs[i].strike, legs[i].option_type>> \in offered(quotes)
    BY <1>1, <2>1, OfferedIsPriced
  <2>5. CASE priced
    <3>1. \A i \in 1..n : meets(legs[i], quotes) = "none"
      BY <2>2, <2>3, <2>4, <2>5
    <3>. DEFINE rows == leg_greeks(resolve_legs(legs, quotes), forward_at(moment))
    <3>2. answer = [raised |-> "none", moment |-> moment, spot |-> spot_at(moment),
                    forward |-> forward_at(moment).forward, greeks |-> rows,
                    total_greeks |-> total_greeks(rows)]
      BY <1>1, <2>1, <2>2, <3>1, AnalysisOfTheMet
    <3>3. \A i \in 1..n : \A quote \in quoteOf(legs[i], quotes) : rows[i].of = quote.delta
      BY <1>1, <2>1, <2>2, <3>1, AnalysisOfTheMet
    <3>. HIDE DEF quotes, answer, rows, priced
    <3>4. /\ answer.forward = forward_at(moment).forward
          /\ answer.spot = spot_at(moment)
          /\ \A i \in DOMAIN legs : \A quote \in quoteOf(legs[i], quotes) :
               answer.greeks[i].of = quote.delta
      BY <2>2, <3>2, <3>3
    <3>. QED
      BY <2>5, <3>4 DEF priced, answer, quotes
  <2>6. CASE ~priced
    <3>1. answer.raised # "none"
      BY <2>2, <2>3, <2>4, <2>6
    <3>. QED
      BY <2>6, <3>1
  <2>. QED
    BY <2>5, <2>6
<1>2. IInv => AnalysisIsOfTheChain
  BY <1>1, OffersAccepted DEF AnalysisIsOfTheChain, OffersAreAccepted
<1>. QED
  BY <1>2, AlwaysIInv, PTL

------------------------------------------------------------------------------
(* The response models. *)

\* What a row is answered as is a quote of the Chain: of a bar, of a natural
\* age, at a clock not below zero.
LEMMA QuoteType ==
  ASSUME IInv, stage = "stored", NEW moment \in Minutes, NEW quote \in snapshot(moment)
  PROVE  quote \in [strike : Strikes, option_type : Sides, last : Bar, strike_iv : Volatility,
                    age_minutes : Nat, delta : SUBSET Exposure]
<1>1. PICK row \in minute_slice(moment) : quote = Quote(moment, row)
  BY SnapshotIsTheMinute
<1>2. minute_summary(moment) # {}
  BY SnapshotIsTheMinute
<1>3. /\ minute_slice(moment) = {r \in chain : r.timestamp_utc = theMinute(moment)}
      /\ theMinute(moment) <= moment /\ theMinute(moment) \in moments
      /\ forward_at(moment) \in Header
  BY <1>2, AnsweringMinute
<1>4. /\ row \in ChainRow /\ row.timestamp_utc = theMinute(moment)
      /\ PrintedAs(row) \in InHand(theMinute(moment))
  BY <1>3, ChainType, StoredRows
<1>5. PrintedAs(row) \in Bar /\ PrintedAs(row).ts <= theMinute(moment)
  BY <1>4 DEF IInv, InHand
<1>6. moment - row.quoted_at \in Nat
  <2>1. row.quoted_at <= theMinute(moment)
    BY <1>5 DEF PrintedAs
  <2>2. theMinute(moment) \in Nat /\ row.quoted_at \in Nat /\ moment \in Nat
    BY <1>3, <1>4, SessionAssumption DEF IInv, moments, Bar, ChainRow, Minutes
  <2>. QED
    BY <1>3, <2>1, <2>2
<1>7. shownVolatility(moment, row.strike) \in Volatility
  <2>1. {r \in minute_slice(moment) : r.strike = row.strike} \in SUBSET ChainRow
    BY ChainType DEF minute_slice
  <2>. QED
    BY <2>1, ShownType DEF shownVolatility
<1>8. \A iv \in Volatility :
        asked(row.strike, row.option_type, forward_at(moment), iv) \in Exposure
  BY <1>3, <1>4 DEF asked, Exposure, ForwardLevels, Header, ChainRow
<1>9. NoVolatility \in Volatility
  BY DEF Volatility
<1>10. \A iv \in Volatility :
         delta(row.strike, row.option_type, forward_at(moment), iv) \in SUBSET Exposure
  BY <1>8, <1>9 DEF delta, expiry_delta, black76_greeks
<1>11. delta(row.strike, row.option_type, forward_at(moment), shownVolatility(moment, row.strike))
         \in SUBSET Exposure
  BY <1>7, <1>10
<1>12. row.strike \in Strikes /\ row.option_type \in Sides
  BY <1>4 DEF ChainRow
<1>. QED
  BY <1>1, <1>5, <1>6, <1>7, <1>11, <1>12 DEF Quote

\* The table is a response of its model.
LEMMA ChainResponseType ==
  ASSUME IInv, stage = "stored", NEW moment \in Minutes, NEW label
  PROVE  read_chain(moment, label) \in ChainResponse \cup Refusal
<1>. DEFINE quotes == snapshot(moment)
            problem == refusal(label, quotes)
<1>1. CASE problem # "none"
  <2>1. problem \in DOMAIN Handled
    BY <1>1, Refusals DEF Handled
  <2>. QED
    BY <1>1, <2>1 DEF read_chain, Refusal
<1>2. CASE problem = "none"
  <2>1. minute_summary(moment) # {}
    BY <1>2, Refusals, SnapshotIsTheMinute
  <2>2. forward_at(moment) \in Header /\ spot_at(moment) \in Spots
    BY <2>1, AnsweringMinute
  <2>3. \A q \in quotes : /\ q \in [strike : Strikes, option_type : Sides, last : Bar,
                                    strike_iv : Volatility, age_minutes : Nat,
                                    delta : SUBSET Exposure]
                          /\ [last |-> q.last, age_minutes |-> q.age_minutes, delta |-> q.delta]
                               \in ChainQuote
    BY QuoteType DEF ChainQuote
  <2>4. ASSUME NEW strike \in quotedStrikes(quotes)
        PROVE  chainRow(quotes, strike) \in StrikeRow
    <3>. DEFINE side(type) == {[last |-> q.last, age_minutes |-> q.age_minutes, delta |-> q.delta] :
                                 q \in {q \in quotes : q.strike = strike /\ q.option_type = type}}
                one == CHOOSE q \in quotes : q.strike = strike
    <3>. HIDE DEF quotes
    <3>1. \A type : side(type) \in SUBSET ChainQuote
      BY <2>3
    <3>2. one \in quotes /\ one.strike = strike
      BY <2>4 DEF quotedStrikes
    <3>3. one.strike_iv \in Volatility /\ strike \in Strikes
      BY <2>3, <3>2
    <3>4. chainRow(quotes, strike) = [strike |-> strike, call |-> side("CE"), put |-> side("PE"),
                                      iv |-> one.strike_iv]
      BY DEF chainRow
    <3>. HIDE DEF side, one
    <3>. QED
      BY <3>1, <3>3, <3>4 DEF StrikeRow
  <2>. DEFINE rows == {chainRow(quotes, strike) : strike \in quotedStrikes(quotes)}
  <2>5. rows \in SUBSET StrikeRow
    BY <2>4
  <2>6. read_chain(moment, label)
          = [raised |-> "none", moment |-> moment, expiry |-> Expiry, spot |-> spot_at(moment),
             forward |-> forward_at(moment).forward, forward_method |-> forward_at(moment).method,
             rows |-> rows]
    BY <1>2 DEF read_chain
  <2>. HIDE DEF rows
  <2>7. forward_at(moment).forward \in ForwardLevels /\ forward_at(moment).method \in ForwardMethod
    BY <2>2 DEF Header, ForwardLevels, ForwardMethod
  <2>. QED
    BY <2>2, <2>5, <2>6, <2>7 DEF ChainResponse
<1>. QED
  BY <1>1, <1>2

\* So are the header, a Preset and the session.
LEMMA HeaderResponseType ==
  ASSUME IInv, stage = "stored", NEW moment \in Minutes, NEW label
  PROVE  /\ read_summary(moment, label) \in SummaryResponse \cup Refusal
         /\ build_preset(moment, label) \in PresetResponse \cup Refusal
<1>. DEFINE problem == refusal(label, minute_summary(moment))
<1>1. CASE problem # "none"
  <2>1. problem \in DOMAIN Handled
    BY <1>1, Refusals DEF Handled
  <2>. QED
    BY <1>1, <2>1 DEF read_summary, build_preset, Refusal
<1>2. CASE problem = "none"
  <2>1. minute_summary(moment) # {}
    BY <1>2, Refusals
  <2>2. forward_at(moment) \in Header /\ spot_at(moment) \in Spots
    BY <2>1, AnsweringMinute
  <2>3. /\ forward_at(moment).forward \in ForwardLevels
        /\ forward_at(moment).method \in ForwardMethod
        /\ at_the_money(moment) \in Strikes /\ at_the_money_volatility(moment) \in Volatility
    BY <2>2 DEF Header, ForwardLevels, ForwardMethod, at_the_money, at_the_money_volatility
  <2>4. read_summary(moment, label) \in SummaryResponse
    BY <1>2, <2>2, <2>3 DEF read_summary, SummaryResponse
  <2>. DEFINE leg(side) == [strike |-> at_the_money(moment), option_type |-> side,
                            expiry |-> Expiry, direction |-> 1, quantity |-> 1]
  <2>5. leg("CE") \in LegRequest /\ leg("PE") \in LegRequest
    BY <2>3 DEF LegRequest, Sides, Labels
  <2>6. build_preset(moment, label) = [raised |-> "none", legs |-> <<leg("CE"), leg("PE")>>]
    BY <1>2 DEF build_preset
  <2>. HIDE DEF leg
  <2>7. build_preset(moment, label) \in PresetResponse
    BY <2>5, <2>6 DEF PresetResponse
  <2>. QED
    BY <2>4, <2>7
<1>. QED
  BY <1>1, <1>2

LEMMA SessionResponseType ==
  ASSUME IInv, stage = "stored", NEW label
  PROVE  read_session(label) \in SessionResponse
<1>. DEFINE strikes == {row.strike : row \in chain}
<1>1. strikes \in SUBSET Strikes /\ strikes # {}
  <2>1. PICK minute \in moments : TRUE
    BY DEF IInv
  <2>2. \E row \in chain : row.timestamp_utc = minute
    BY StopIsServed
  <2>. QED
    BY <2>2, ChainType DEF ChainRow
<1>2. Min(strikes) \in Strikes /\ Max(strikes) \in Strikes
  <2>. HIDE DEF strikes
  <2>1. IsFiniteSet(strikes) /\ strikes \in SUBSET Nat
    BY <1>1, MarketAssumption, FS_Subset
  <2>2. PICK n \in Nat : \A strike \in strikes : strike <= n
    BY <2>1, FiniteBounded
  <2>. QED
    BY <1>1, <2>1, <2>2, Extremes
<1>3. stops \in (SUBSET Minutes) \ {{}}
  <2>1. moments \in SUBSET Minutes /\ moments # {}
    BY DEF IInv, moments, Bar
  <2>2. stops = moments
    BY <2>1, LastMinute DEF stops
  <2>. QED
    BY <2>1, <2>2
<1>4. resolve(label) = Expiry
  BY DEF resolve, traded
<1>. QED
  BY <1>2, <1>3, <1>4 DEF read_session, strike_bounds, SessionResponse

\* The totals of one Leg are that Leg's.
LEMMA TotalOfOne ==
  ASSUME NEW rows, DOMAIN rows = {1}, rows[1].scale \in Int, rows[1].of \in SUBSET Exposure
  PROVE  total_greeks(rows) \in SUBSET LegGreeks
<1>. DEFINE sum(f) == [s \in SUBSET {1} |->
                         IF s = {} THEN 0
                         ELSE LET x == CHOOSE x \in s : TRUE IN rows[x].scale + f[s \ {x}]]
            iter == CHOOSE f : f = sum(f)
            one == [s \in SUBSET {1} |-> IF s = {} THEN 0 ELSE rows[1].scale]
<1>1. one = sum(one)
  <2>1. SUBSET {1} = {{}, {1}}
    OBVIOUS
  <2>2. (CHOOSE x \in {1} : TRUE) = 1
    OBVIOUS
  <2>3. one[{1} \ {1}] = 0 /\ one[{}] = 0 /\ one[{1}] = rows[1].scale
    BY <2>1
  <2>4. ASSUME NEW s \in SUBSET {1}
        PROVE  one[s] = IF s = {} THEN 0
                        ELSE LET x == CHOOSE x \in s : TRUE IN rows[x].scale + one[s \ {x}]
    <3>1. CASE s = {}
      BY <3>1
    <3>2. CASE s = {1}
      <4>. HIDE DEF one
      <4>1. s # {} /\ s \ {1} = {}
        BY <3>2
      <4>. QED
        BY <2>2, <2>3, <3>2, <4>1
    <3>. QED
      BY <2>1, <3>1, <3>2
  <2>. QED
    BY <2>4
<1>. HIDE DEF one
<1>2. iter = sum(iter)
  BY <1>1, Zenon
<1>. HIDE DEF iter
<1>3. iter[{}] = 0
  BY <1>2
<1>4. iter[{1}] = rows[1].scale + iter[{}]
  <2>1. (CHOOSE x \in {1} : TRUE) = 1 /\ {1} \ {1} = {}
    OBVIOUS
  <2>. QED
    BY <1>2, <2>1
<1>5. iter[{1}] = rows[1].scale
  BY <1>3, <1>4
<1>. DEFINE summed(S) == MapThenSumSet(LAMBDA i : rows[i].scale, S)
<1>6. summed({1}) = rows[1].scale
  BY <1>5 DEF MapThenSumSet, MapThenFoldSet, iter
<1>7. total_greeks(rows)
        = {[of |-> {exposure}, scale |-> summed({i \in DOMAIN rows : exposure \in rows[i].of})]
             : exposure \in UNION {rows[i].of : i \in DOMAIN rows}}
  BY DEF total_greeks, MapThenSumSet, MapThenFoldSet
<1>. HIDE DEF summed
<1>8. UNION {rows[i].of : i \in DOMAIN rows} = rows[1].of
  OBVIOUS
<1>9. ASSUME NEW exposure \in rows[1].of
      PROVE  [of |-> {exposure}, scale |-> summed({i \in DOMAIN rows : exposure \in rows[i].of})]
               \in LegGreeks
  <2>1. {i \in DOMAIN rows : exposure \in rows[i].of} = {1}
    BY <1>9
  <2>. QED
    BY <1>6, <2>1 DEF LegGreeks
<1>10. ASSUME NEW greeks \in total_greeks(rows)
       PROVE  greeks \in LegGreeks
  <2>1. PICK exposure \in rows[1].of :
          greeks = [of |-> {exposure},
                    scale |-> summed({i \in DOMAIN rows : exposure \in rows[i].of})]
    BY <1>7, <1>8
  <2>. QED
    BY <1>9, <2>1
<1>. QED
  BY <1>10

\* The Greeks of a Strategy whose Legs are met are of their model.
LEMMA MetLegsType ==
  ASSUME IInv, stage = "stored", NEW moment \in Minutes, timeLeft(moment),
         minute_summary(moment) # {},
         NEW n \in Nat, NEW requests \in [1..n -> LegRequest],
         \A i \in 1..n : meets(requests[i], snapshot(moment)) = "none"
  PROVE  leg_greeks(resolve_legs(requests, snapshot(moment)), forward_at(moment))
           \in [1..n -> LegGreeks]
<1>. DEFINE quotes == snapshot(moment)
            rows == leg_greeks(resolve_legs(requests, quotes), forward_at(moment))
<1>1. DOMAIN requests = 1..n
  OBVIOUS
<1>2. rows = [i \in 1..n |-> rows[i]]
  BY <1>1, AnalysisOfTheMet
<1>3. \A i \in 1..n : /\ rows[i].scale = requests[i].direction * requests[i].quantity
                      /\ rows[i] = [of |-> rows[i].of, scale |-> rows[i].scale]
  BY <1>1, AnalysisOfTheMet
<1>4. \A i \in 1..n : rows[i] = [of |-> rows[i].of, scale |-> rows[i].scale]
  <2>. HIDE DEF rows
  <2>. QED
    BY <1>3
<1>5. \A i \in 1..n : rows[i].scale = requests[i].direction * requests[i].quantity
  <2>. HIDE DEF rows
  <2>. QED
    BY <1>3
<1>6. \A i \in 1..n : \A quote \in quoteOf(requests[i], quotes) : rows[i].of = quote.delta
  BY <1>1, AnalysisOfTheMet
<1>7. ASSUME NEW i \in 1..n
      PROVE  rows[i] \in LegGreeks
  <2>1. PICK quote \in quoteOf(requests[i], quotes) : TRUE
    BY Meets
  <2>2. quote.delta \in SUBSET Exposure
    BY <2>1, QuoteType DEF quoteOf
  <2>3. requests[i].direction \in {1, -1} /\ requests[i].quantity \in {1}
    BY DEF LegRequest
  <2>. HIDE DEF rows, quotes
  <2>4. rows[i].of \in SUBSET Exposure
    BY <1>6, <2>1, <2>2
  <2>5. rows[i].scale \in Int
    <3>. DEFINE direction == requests[i].direction
                quantity == requests[i].quantity
    <3>1. rows[i].scale = direction * quantity
      BY <1>5
    <3>2. direction \in Int /\ quantity \in Int
      BY <2>3
    <3>. HIDE DEF direction, quantity
    <3>. QED
      BY <3>1, <3>2
  <2>6. rows[i] = [of |-> rows[i].of, scale |-> rows[i].scale]
    BY <1>4
  <2>. QED
    BY <2>4, <2>5, <2>6 DEF LegGreeks
<1>. HIDE DEF rows
<1>8. rows \in [1..n -> LegGreeks]
  BY <1>2, <1>7
<1>. QED
  BY <1>8 DEF rows

\* A question of one Leg is answered by its model, or refused by an exception
\* that has a handler.
LEMMA AnalysisResponseType ==
  ASSUME IInv, stage = "stored", NEW moment \in Minutes, timeLeft(moment),
         NEW request \in LegRequest
  PROVE  analyse(<<request>>, moment, snapshot(moment)) \in AnalysisResponse \cup Refusal
<1>. DEFINE quotes == snapshot(moment)
            requests == <<request>>
            answer == analyse(requests, moment, quotes)
<1>1. /\ DOMAIN requests = 1..1 /\ 1..1 = {1} /\ 1 \in Nat
      /\ requests[1] = request
  OBVIOUS
<1>2. sole_expiry(requests) = IF request.expiry = NotALabel THEN "UnreadableExpiry" ELSE "none"
  <2>1. {requests[i].expiry : i \in DOMAIN requests} = {request.expiry}
    OBVIOUS
  <2>2. Cardinality({request.expiry}) = 1
    BY FS_Singleton
  <2>. HIDE DEF requests
  <2>3. sole_expiry(requests)
          = CASE NotALabel \in {request.expiry} -> "UnreadableExpiry"
              [] NotALabel \notin {request.expiry} /\ Cardinality({request.expiry}) > 1 -> "MixedExpiry"
              [] OTHER -> "none"
    BY <2>1 DEF sole_expiry
  <2>4. ~(Cardinality({request.expiry}) > 1)
    BY <2>2
  <2>. QED
    BY <2>3, <2>4
<1>3. DOMAIN Handled = {"UnknownExpiry", "StrikeNotQuoted", "NotPriceable", "UnreadableExpiry",
                        "MixedExpiry"}
  BY DEF Handled
<1>4. CASE sole_expiry(requests) # "none"
  <2>1. answer = [raised |-> "UnreadableExpiry"]
    <3>. HIDE DEF requests, quotes
    <3>. QED
      BY <1>2, <1>4 DEF analyse
  <2>. QED
    BY <1>3, <2>1 DEF Refusal
<1>5. CASE /\ sole_expiry(requests) = "none"
           /\ minute_summary(moment) = {} \/ meets(request, quotes) # "none"
  <2>1. /\ answer = [raised |-> answer.raised]
        /\ answer.raised \in {"UnreadableExpiry", "UnknownExpiry", "StrikeNotQuoted", "NotPriceable"}
    <3>. HIDE DEF requests, quotes
    <3>. QED
      BY <1>1, <1>5, AnalysisOfTheUnmet
  <2>. HIDE DEF answer
  <2>2. answer \in Refusal
    BY <1>3, <2>1 DEF Refusal
  <2>. QED
    BY <2>2 DEF answer, requests, quotes
<1>6. CASE minute_summary(moment) # {} /\ meets(request, quotes) = "none"
  <2>. DEFINE rows == leg_greeks(resolve_legs(requests, quotes), forward_at(moment))
  <2>1. \A i \in 1..1 : meets(requests[i], quotes) = "none"
    BY <1>1, <1>6
  <2>2. answer = [raised |-> "none", moment |-> moment, spot |-> spot_at(moment),
                  forward |-> forward_at(moment).forward, greeks |-> rows,
                  total_greeks |-> total_greeks(rows)]
    BY <1>1, <1>6, <2>1, AnalysisOfTheMet
  <2>3. requests \in [1..1 -> LegRequest]
    OBVIOUS
  <2>4. rows \in [1..1 -> LegGreeks]
    BY <1>1, <1>6, <2>1, <2>3, MetLegsType
  <2>. HIDE DEF rows, quotes, requests, answer
  <2>5. rows[1] \in LegGreeks
    BY <1>1, <2>4
  <2>6. rows[1].of \in SUBSET Exposure /\ rows[1].scale \in Int
    BY <2>5 DEF LegGreeks
  <2>7. DOMAIN rows = {1} /\ rows = <<rows[1]>>
    BY <1>1, <2>4
  <2>8. rows \in Seq(LegGreeks)
    <3>1. \A greeks \in LegGreeks : <<greeks>> \in Seq(LegGreeks)
      OBVIOUS
    <3>. QED
      BY <2>5, <2>7, <3>1
  <2>9. total_greeks(rows) \in SUBSET LegGreeks
    BY <2>6, <2>7, TotalOfOne
  <2>10. forward_at(moment).forward \in ForwardLevels /\ spot_at(moment) \in Spots
    <3>1. forward_at(moment) \in Header /\ spot_at(moment) \in Spots
      BY <1>6, AnsweringMinute
    <3>. QED
      BY <3>1 DEF Header, ForwardLevels
  <2>11. answer \in AnalysisResponse
    BY <2>2, <2>8, <2>9, <2>10 DEF AnalysisResponse
  <2>. QED
    BY <2>11 DEF answer, requests, quotes
<1>. QED
  BY <1>4, <1>5, <1>6

\* No read of a stored date breaks on its own response model, and while time is
\* left no question about a Leg ends in an exception without a handler (api.py,
\* models.py).
THEOREM AlwaysFitsTheModels == Spec => []AnswersFitTheirModels
<1>1. IInv => AnswersFitTheirModels
  BY ChainResponseType, HeaderResponseType, SessionResponseType, AnalysisResponseType
     DEF AnswersFitTheirModels
<1>. QED
  BY <1>1, AlwaysIInv, PTL
==============================================================================
