------------------------ MODULE CurtailmentProperties -------------------------
(***************************************************************************)
(* What a farm may expect of the relays: no old price stops it, an hour is *)
(* decided once, and without prices it comes back.                         *)
(***************************************************************************)
EXTENDS Curtailment

\* A curve has a date and no date is without a curve, whatever fetch failed.
CurtailmentTypeOK ==
  /\ hour \in 0..Hours - 1 /\ config \in Configs
  /\ prices = NoPrices \/ prices \in Curves
  /\ prices_date \in {Null, "today", "earlier"} /\ today \in {Null, "today", "earlier"}
  /\ prices = NoPrices <=> prices_date = Null
  /\ off \subseteq Wired /\ todo \subseteq Wired
  /\ settled \in {Null, "MINE", "PAUSE"}

\* No decision rests on the prices of another day, whatever fetch fails after midnight,
\* unless that midnight passed within the poll itself.
PricesOfTheDay == at = "decide" /\ prices # NoPrices => prices_date = "today" \/ turned

\* An hour is decided once: as long as the hour lasts and neither the threshold nor the
\* process changes, no later poll turns the relays the other way, though the feed revise
\* its prices, go down, or the console set another one.
HourDecidedOnce ==
  [][settled # Null /\ settled' # Null => settled' = settled]_vars

\* "Mining fails open": when the feed is gone for good, the machines the agent can switch
\* come on again and stay on, those whose relay missed some calls included.
FeedDownMeansOn ==
  <>[](up /\ config.enabled /\ config.mode = "webhook" /\ config.price_source = "url" /\ feed = "down")
    => <>[](off = {})

\* A fixed price set at the console is the one decided by in the end (the next day), as
\* long as the agent runs.
EditedPriceArrives ==
  \A price \in Prices :
    <>[](up /\ config.enabled /\ config.price_source = "fixed" /\ config.fixed = price)
      => <>[](\A h \in DOMAIN prices : prices[h] = price)
=============================================================================
