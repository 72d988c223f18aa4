--------------------------- MODULE CurtailmentProofs ---------------------------
(***************************************************************************)
(* An hour is decided once, and by the prices of its own day, for any feed *)
(* and any number of hours, prices, thresholds and relays.                 *)
(***************************************************************************)
EXTENDS CurtailmentProperties, TLAPS

\* What the next poll would decide, from the curve in memory.
Verdict ==
  IF hour \notin DOMAIN prices THEN Unpriced
  ELSE IF prices[hour] > config.threshold THEN "PAUSE" ELSE "MINE"

\* While a poll is under way the date it read is that of today, or midnight has passed.
DateRead == at \in {"fetch", "decide"} => today = "today" \/ turned

\* What was decided for this hour rests on a curve of today that no poll fetches again,
\* and would be decided again.
SettledByCurve ==
  settled # Null => at # "fetch" /\ prices_date = "today" /\ settled = Verdict

CurtailmentInv ==
  /\ CurtailmentTypeOK
  /\ at \in {"fetch", "decide"} => today # Null
  /\ DateRead /\ PricesOfTheDay /\ SettledByCurve

-----------------------------------------------------------------------------
LEMMA FixedCurve ==
  ASSUME NEW price \in Prices
  PROVE  [h \in 0..Hours - 1 |-> price] \in Curves \ {NoPrices}
<1>1. 0..Hours - 1 \in (SUBSET (0..Hours - 1)) \ {{}}
  <2>1. 0 \in 0..Hours - 1
    BY HoursAssumption
  <2> QED BY <2>1
<1>2. [h \in 0..Hours - 1 |-> price] \in [0..Hours - 1 -> Prices]
  OBVIOUS
<1>3. [h \in 0..Hours - 1 |-> price] # NoPrices
  <2>1. DOMAIN [h \in 0..Hours - 1 |-> price] # DOMAIN NoPrices
    BY <1>1 DEF NoPrices
  <2> QED BY <2>1
<1> QED BY <1>1, <1>2, <1>3 DEF Curves

LEMMA CurtailmentInitial == Init => CurtailmentInv
<1> SUFFICES ASSUME Init PROVE CurtailmentInv
  OBVIOUS
<1>1. CurtailmentTypeOK
  BY HoursAssumption DEF Init, CurtailmentTypeOK
<1> QED BY <1>1 DEF Init, CurtailmentInv, DateRead, PricesOfTheDay, SettledByCurve

\* A process that starts or ends remembers no curve and has settled nothing.
LEMMA ClearedKeeps ==
  ASSUME CurtailmentInv, Cleared, hour' = hour, off' = off, config' \in Configs
  PROVE  CurtailmentInv'
<1>1. CurtailmentTypeOK'
  BY DEF CurtailmentInv, CurtailmentTypeOK, Cleared, NoPrices, Curves
<1> QED BY <1>1 DEF CurtailmentInv, Cleared, DateRead, PricesOfTheDay, SettledByCurve

\* Nothing that was settled is fetched over, for the curve it rests on is still kept.
LEMMA PollKeeps == CurtailmentInv /\ Poll => CurtailmentInv'
<1> SUFFICES ASSUME CurtailmentInv, Poll PROVE CurtailmentInv'
  OBVIOUS
<1>1. CurtailmentTypeOK'
  BY DEF CurtailmentInv, CurtailmentTypeOK, Poll, memory, NoPrices, Curves, Configs
<1>2. (at \in {"fetch", "decide"} => today # Null)' /\ DateRead'
  BY NullAssumption DEF Poll, DateRead
<1>3. PricesOfTheDay'
  BY DEF PricesOfTheDay, Poll, Cached, memory
<1>4. SettledByCurve'
  <2>1. settled # Null => Cached
    BY NullAssumption DEF CurtailmentInv, CurtailmentTypeOK, SettledByCurve, Cached
  <2> QED BY <2>1 DEF CurtailmentInv, SettledByCurve, Poll, memory, Verdict
<1> QED BY <1>1, <1>2, <1>3, <1>4 DEF CurtailmentInv

\* Whatever was fetched is dated by the day the poll read.
LEMMA FetchedKeeps ==
  ASSUME CurtailmentInv, NEW curve \in Curves \cup {NoPrices}, Fetched(curve)
  PROVE  CurtailmentInv'
<1>1. CurtailmentTypeOK'
  BY DEF CurtailmentInv, CurtailmentTypeOK, Fetched
<1>2. (at \in {"fetch", "decide"} => today # Null)' /\ DateRead'
  BY DEF CurtailmentInv, Fetched, DateRead
<1>3. PricesOfTheDay'
  BY DEF CurtailmentInv, PricesOfTheDay, DateRead, Fetched
<1>4. SettledByCurve'
  BY DEF CurtailmentInv, SettledByCurve, Fetched
<1> QED BY <1>1, <1>2, <1>3, <1>4 DEF CurtailmentInv

LEMMA DecideKeeps == CurtailmentInv /\ Decide => CurtailmentInv'
<1> SUFFICES ASSUME CurtailmentInv, Decide PROVE CurtailmentInv'
  OBVIOUS
<1>1. decision' = Verdict /\ decision' \in {"MINE", "PAUSE"} /\ Verdict' = Verdict
  BY DEF Decide, Decided, Verdict, Unpriced
<1>2. CurtailmentTypeOK'
  BY <1>1 DEF CurtailmentInv, CurtailmentTypeOK, Decide, Decided
<1>3. SettledByCurve'
  BY <1>1 DEF SettledByCurve, Decide, Decided
<1> QED BY <1>2, <1>3 DEF CurtailmentInv, DateRead, PricesOfTheDay, Decide, Decided

\* The relays: nothing that is decided depends on them.
LEMMA ActKeeps ==
  ASSUME CurtailmentInv, at = "act", at' \in {"act", "idle"},
         off' \subseteq Wired, todo' \subseteq Wired,
         UNCHANGED <<hour, config, prices, prices_date, today, turned, settled>>
  PROVE  CurtailmentInv'
<1>1. CurtailmentTypeOK'
  BY DEF CurtailmentInv, CurtailmentTypeOK
<1>2. SettledByCurve'
  BY DEF CurtailmentInv, SettledByCurve, Verdict
<1> QED BY <1>1, <1>2 DEF CurtailmentInv, DateRead, PricesOfTheDay

LEMMA TickKeeps == CurtailmentInv /\ Tick => CurtailmentInv'
<1> SUFFICES ASSUME CurtailmentInv, Tick PROVE CurtailmentInv'
  OBVIOUS
<1>1. hour' \in 0..Hours - 1
  BY HoursAssumption DEF Tick, CurtailmentInv, CurtailmentTypeOK
<1>2. /\ prices_date' \in {prices_date, Past(prices_date)}
      /\ today' \in {today, Past(today)}
  BY DEF Tick
<1>3. CurtailmentTypeOK'
  BY <1>1, <1>2, NullAssumption DEF CurtailmentInv, CurtailmentTypeOK, Tick, Past
<1>4. (at \in {"fetch", "decide"} => today # Null)'
  BY <1>2, NullAssumption DEF CurtailmentInv, Tick, Past
<1>5. DateRead' /\ PricesOfTheDay' /\ SettledByCurve'
  BY DEF CurtailmentInv, Tick, DateRead, PricesOfTheDay, SettledByCurve
<1> QED BY <1>3, <1>4, <1>5 DEF CurtailmentInv

\* The console changes a fixed price, which the curve in memory outlives, or the threshold.
LEMMA ConfigureKeeps ==
  ASSUME CurtailmentInv, NEW fixed \in Prices, NEW threshold \in Thresholds,
         Configure(fixed, threshold)
  PROVE  CurtailmentInv'
<1>1. config' \in Configs
  BY DEF Configure, CurtailmentInv, CurtailmentTypeOK, Configs
<1>2. CurtailmentTypeOK'
  BY <1>1 DEF CurtailmentInv, CurtailmentTypeOK, Configure, memory, poll
<1>3. SettledByCurve'
  <2>1. config'.threshold = threshold
    BY DEF Configure, CurtailmentInv, CurtailmentTypeOK, Configs
  <2> QED BY <2>1 DEF CurtailmentInv, SettledByCurve, Verdict, Configure, memory, poll
<1> QED BY <1>2, <1>3 DEF CurtailmentInv, DateRead, PricesOfTheDay, Configure, memory, poll

LEMMA CurtailmentStep == CurtailmentInv /\ [Next]_vars => CurtailmentInv'
<1> SUFFICES ASSUME CurtailmentInv, [Next]_vars PROVE CurtailmentInv'
  OBVIOUS
<1>1. ASSUME NEW conf \in Configs, Start(conf) PROVE CurtailmentInv'
  BY <1>1, ClearedKeeps DEF Start
<1>2. CASE Stop
  BY <1>2, ClearedKeeps DEF Stop, CurtailmentInv, CurtailmentTypeOK
<1>3. CASE Disabled
  <2>1. CurtailmentTypeOK'
    BY <1>3 DEF Disabled, Decided, CurtailmentInv, CurtailmentTypeOK
  <2> QED BY <1>3, <2>1 DEF Disabled, Decided, CurtailmentInv, DateRead, PricesOfTheDay, SettledByCurve
<1>4. CASE Poll
  BY <1>4, PollKeeps
<1>5. CASE FetchFixed
  <2>1. config.fixed \in Prices
    BY DEF CurtailmentInv, CurtailmentTypeOK, Configs
  <2> QED BY <1>5, <2>1, FixedCurve, FetchedKeeps DEF FetchFixed
<1>6. CASE FetchUrl
  BY <1>6, FetchedKeeps DEF FetchUrl
<1>7. CASE FetchFails
  BY <1>7, FetchedKeeps DEF FetchFails, Failed
<1>8. CASE FetchRaises
  <2>1. CurtailmentTypeOK'
    BY <1>8 DEF FetchRaises, memory, CurtailmentInv, CurtailmentTypeOK
  <2> QED BY <1>8, <2>1 DEF FetchRaises, memory, CurtailmentInv, DateRead, PricesOfTheDay, SettledByCurve
<1>9. CASE Decide
  BY <1>9, DecideKeeps
<1>10. CASE Done
  BY <1>10, ActKeeps DEF Done, memory, CurtailmentInv, CurtailmentTypeOK
<1>11. ASSUME NEW m \in Wired, Relay(m) \/ RelayFails(m) PROVE CurtailmentInv'
  BY <1>11, ActKeeps DEF Relay, RelayFails, memory, CurtailmentInv, CurtailmentTypeOK
<1>12. CASE Tick
  BY <1>12, TickKeeps
<1>13. ASSUME NEW fixed \in Prices, NEW threshold \in Thresholds, Configure(fixed, threshold)
       PROVE  CurtailmentInv'
  BY <1>13, ConfigureKeeps
<1>14. CASE FeedDies \/ UNCHANGED vars
  <2>1. UNCHANGED <<hour, config, prices, prices_date, off, at, today, todo, turned, settled>>
    BY <1>14 DEF FeedDies, vars, memory, poll
  <2>2. CurtailmentTypeOK'
    BY <2>1 DEF CurtailmentInv, CurtailmentTypeOK
  <2> QED BY <2>1, <2>2 DEF CurtailmentInv, DateRead, PricesOfTheDay, SettledByCurve, Verdict
<1> QED
  BY <1>1, <1>2, <1>3, <1>4, <1>5, <1>6, <1>7, <1>8, <1>9, <1>10, <1>11, <1>12, <1>13, <1>14
  DEF Next, PollStep

\* What is settled for an hour is decided again by every poll of the hour.
LEMMA SettledStays ==
  CurtailmentInv /\ [Next]_vars => (settled # Null /\ settled' # Null => settled' = settled)
<1> SUFFICES ASSUME CurtailmentInv, [Next]_vars, settled # Null, settled' # Null
             PROVE  settled' = settled
  OBVIOUS
<1>1. CASE Decide
  BY <1>1 DEF CurtailmentInv, SettledByCurve, Verdict, Decide, Decided
<1>2. CASE ~ Decide
  BY <1>2 DEF Next, PollStep, Start, Stop, Cleared, Disabled, Poll, FetchFixed, FetchUrl,
    FetchFails, Failed, FetchRaises, Fetched, Done, Relay, RelayFails, Configure, Tick,
    FeedDies, vars
<1> QED BY <1>1, <1>2

-----------------------------------------------------------------------------
LEMMA CurtailmentInvariant == Spec => []CurtailmentInv
BY CurtailmentInitial, CurtailmentStep, PTL DEF Spec

\* For any hours, prices, thresholds and relays, fetch_prices never leaves a date without a
\* curve or a curve without a date, whatever answer failed.
THEOREM CurtailmentTypeCorrect == Spec => []CurtailmentTypeOK
<1>1. CurtailmentInv => CurtailmentTypeOK
  BY DEF CurtailmentInv
<1> QED BY <1>1, CurtailmentInvariant, PTL

\* decide never rests on the curve of another day, unless midnight passed within the poll.
THEOREM NoOldPrices == Spec => []PricesOfTheDay
<1>1. CurtailmentInv => PricesOfTheDay
  BY DEF CurtailmentInv
<1> QED BY <1>1, CurtailmentInvariant, PTL

\* However the feed revises its prices, fails or ends, and whatever fixed price is set
\* meanwhile, the polls of one hour agree until the threshold or the process changes.
THEOREM HoursAreDecidedOnce == Spec => HourDecidedOnce
BY CurtailmentInvariant, SettledStays, PTL DEF Spec, HourDecidedOnce
=============================================================================
