----------------------------- MODULE Curtailment ------------------------------
(***************************************************************************)
(* When the farm is paused, after src/hashguard/pricing.py: the price      *)
(* curve kept for a day, the decision of each poll and the relays it is    *)
(* sent to, while the hour goes on and the console turns the knobs.        *)
(*                                                                         *)
(* A price is what it is compared with: the network cost, the break-even   *)
(* and the margin together are one threshold.  Dates are told apart as     *)
(* today and earlier, for nothing else is asked of them.                   *)
(***************************************************************************)
EXTENDS Integers, FiniteSets, Functions, PythonNone

CONSTANTS
  Hours,        \* number of hours in a day
  Prices,       \* of the feed, and those the console may set
  Thresholds,   \* the highest prices at which mining pays
  Wired         \* machines with a relay webhook

ASSUME HoursAssumption == Hours \in Nat \ {0}
ASSUME NullAssumption == Null \notin {"today", "earlier", "MINE", "PAUSE"}

VARIABLES
  hour,         \* the local hour
  feed,         \* "up", or "down" for good
  up, config,   \* enabled, mode, price_source of the file; fixed price and threshold
  prices, prices_date, decision,   \* the attributes of Curtailment
  off,          \* the machines switched off at their relay
  at,           \* the poll: "idle", "fetch", "decide", "act"
  today,        \* the date fetch_prices read
  todo,         \* the relays still to be called
  turned,       \* auxiliary: midnight has passed since the poll began
  settled       \* auxiliary: what was decided for this hour, from today's prices

memory == <<prices, prices_date, decision>>
poll == <<at, today, todo>>
vars == <<hour, feed, up, config, memory, off, poll, turned, settled>>

NoPrices == [h \in {} |-> 0]
Configs == [enabled : BOOLEAN, mode : {"advisory", "webhook"}, price_source : {"fixed", "url"},
            fixed : Prices, threshold : Thresholds]

Init ==
  /\ hour = 0 /\ feed = "up" /\ up = FALSE /\ config \in Configs /\ off = {}
  /\ prices = NoPrices /\ prices_date = Null /\ decision = "MINE"
  /\ at = "idle" /\ today = Null /\ todo = {} /\ turned = FALSE /\ settled = Null

Cleared ==
  /\ prices' = NoPrices /\ prices_date' = Null /\ decision' = "MINE"
  /\ at' = "idle" /\ today' = Null /\ todo' = {} /\ turned' = FALSE /\ settled' = Null

\* The file may have been edited; fixed price and threshold are the console's as well.
Start(conf) ==
  /\ ~ up /\ up' = TRUE /\ config' = conf
  /\ Cleared
  /\ UNCHANGED <<hour, feed, off>>

\* At any moment, and no relay is called on the way out.
Stop == up /\ up' = FALSE /\ Cleared /\ UNCHANGED <<hour, feed, config, off>>

-----------------------------------------------------------------------------
(* decide(), then act(), under the lock.                                   *)

Decided(action) ==
  /\ decision' = action
  /\ at' = "act" /\ todo' = IF config.mode = "webhook" THEN Wired ELSE {}

Disabled ==
  /\ up /\ at = "idle" /\ ~ config.enabled
  /\ Decided("MINE") /\ settled' = Null
  /\ UNCHANGED <<hour, feed, up, config, prices, prices_date, off, today, turned>>

\* Mutations: the curve is fetched at every poll; the date is not asked.
NeverCached == FALSE
CachedForEver == prices # NoPrices

Cached == prices_date = "today" /\ prices # NoPrices

\* fetch_prices reads the date; a curve of that date is kept.
Poll ==
  /\ up /\ at = "idle" /\ config.enabled
  /\ at' = IF Cached THEN "decide" ELSE "fetch"
  /\ today' = "today" /\ turned' = FALSE
  /\ UNCHANGED <<hour, feed, up, config, memory, off, todo, settled>>

Fetched(curve) ==
  /\ at = "fetch" /\ at' = "decide"
  /\ prices' = curve /\ prices_date' = IF curve = NoPrices THEN Null ELSE today
  /\ UNCHANGED <<hour, feed, up, config, decision, off, today, todo, turned, settled>>

Curves == UNION {[hours -> Prices] : hours \in (SUBSET (0..Hours - 1)) \ {{}}}

FetchFixed == config.price_source = "fixed" /\ Fetched([h \in 0..Hours - 1 |-> config.fixed])

FetchUrl == config.price_source = "url" /\ feed = "up" /\ \E curve \in Curves : Fetched(curve)

\* Mutations: the curve there was is kept; the date is set though there is no curve.
FailedKeeping ==
  /\ at = "fetch" /\ at' = "decide"
  /\ UNCHANGED <<hour, feed, up, config, memory, off, today, todo, turned, settled>>
FailedDated ==
  /\ at = "fetch" /\ at' = "decide" /\ prices' = NoPrices /\ prices_date' = today
  /\ UNCHANGED <<hour, feed, up, config, decision, off, today, todo, turned, settled>>

Failed == Fetched(NoPrices)

\* No answer, an answer refused, or one without a usable hour.
FetchFails == config.price_source = "url" /\ Failed

\* An exception that fetch_prices does not expect (an hour that is infinite): poll_loop
\* goes to the next poll, and the decision and the relays stay as they are.
FetchRaises ==
  /\ config.price_source = "url" /\ feed = "up"
  /\ at = "fetch" /\ at' = "idle"
  /\ UNCHANGED <<hour, feed, up, config, memory, off, today, todo, turned, settled>>

\* Mutation: an hour without a price leaves the decision as it was.
UnpricedAsBefore == decision

Unpriced == "MINE"

\* The hour is read after the fetch; an hour without a price is mined.
Decide ==
  /\ at = "decide"
  /\ Decided(IF hour \notin DOMAIN prices THEN Unpriced
             ELSE IF prices[hour] > config.threshold THEN "PAUSE" ELSE "MINE")
  /\ settled' = IF prices_date = "today" THEN decision' ELSE Null
  /\ UNCHANGED <<hour, feed, up, config, prices, prices_date, off, today, turned>>

Relay(m) ==
  /\ at = "act" /\ m \in todo /\ todo' = todo \ {m}
  /\ off' = IF decision = "PAUSE" THEN off \cup {m} ELSE off \ {m}
  /\ UNCHANGED <<hour, feed, up, config, memory, at, today, turned, settled>>

\* A relay that does not answer leaves its machine as it is.
RelayFails(m) ==
  /\ at = "act" /\ m \in todo /\ todo' = todo \ {m}
  /\ UNCHANGED <<hour, feed, up, config, memory, off, at, today, turned, settled>>

Done ==
  /\ at = "act" /\ todo = {} /\ at' = "idle"
  /\ UNCHANGED <<hour, feed, up, config, memory, off, today, todo, turned, settled>>

-----------------------------------------------------------------------------
(* What goes on meanwhile.                                                 *)

\* The console waits for the lock.
Configure(fixed, threshold) ==
  /\ up /\ at = "idle"
  /\ config' = [config EXCEPT !.fixed = fixed, !.threshold = threshold]
  /\ config' # config
  /\ settled' = IF config.threshold = threshold THEN settled ELSE Null
  /\ UNCHANGED <<hour, feed, up, memory, off, poll, turned>>

Past(date) == IF date = "today" THEN "earlier" ELSE date

Tick ==
  /\ hour' = (hour + 1) % Hours
  /\ settled' = Null
  /\ IF hour' = 0
     THEN prices_date' = Past(prices_date) /\ today' = Past(today) /\ turned' = TRUE
     ELSE UNCHANGED <<prices_date, today, turned>>
  /\ UNCHANGED <<feed, up, config, prices, decision, off, at, todo>>

FeedDies == feed = "up" /\ feed' = "down" /\ UNCHANGED <<hour, up, config, memory, off, poll, turned, settled>>

PollStep == Disabled \/ Poll \/ FetchFixed \/ FetchUrl \/ FetchFails \/ FetchRaises \/ Decide \/ Done

Next ==
  \/ \E conf \in Configs : Start(conf)
  \/ Stop \/ PollStep \/ Tick \/ FeedDies
  \/ \E m \in Wired : Relay(m) \/ RelayFails(m)
  \/ \E fixed \in Prices, threshold \in Thresholds : Configure(fixed, threshold)

\* poll_loop runs as long as the process; the clock goes on; a relay that is called again
\* and again answers some time.
Fairness ==
  /\ WF_vars(PollStep) /\ WF_vars(Tick)
  /\ \A m \in Wired : WF_vars(Relay(m) \/ RelayFails(m)) /\ SF_vars(Relay(m))

Spec == Init /\ [][Next]_vars /\ Fairness
=============================================================================
