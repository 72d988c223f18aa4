-------------------------------- MODULE Alerts --------------------------------
(***************************************************************************)
(* QTMPEngine of src/hashguard/qtmp.py: every poll is folded into the      *)
(* series of each board and machine, and what stands out raises alerts.    *)
(*                                                                         *)
(* The statistics are left out: a poll gives each board and each trend of  *)
(* a machine its score, in the half sigmas of the thresholds, after the    *)
(* corrections for the sample and for the size of the farm.  A series is   *)
(* its length.                                                             *)
(***************************************************************************)
EXTENDS Integers, Sequences, SequencesExt, FiniteSets

CONSTANTS
  Boards, Machines,
  Trends,        \* metrics of a machine: "fan", "hw_errors"
  Scores,        \* how far a board or a trend stands out
  TrendSamples,  \* the samples of a trend before it is judged: 10
  MaxAlerts,     \* maxlen of the deque of alerts: 200
  MaxPersistence,  \* the largest qtmp.persistence: higher counts are not told apart
  MaxRaised      \* bound: alerts raised

ASSUME FarmAssumption ==
  IsFiniteSet(Boards) /\ IsFiniteSet(Machines) /\ Trends \subseteq {"fan", "hw_errors"}

ASSUME AlertsAssumption == MaxAlerts \in Nat /\ MaxPersistence \in Nat /\ MaxRaised \in Nat

VARIABLES
  window,     \* qtmp.window when the engine was made
  samples,    \* the length of each series
  breaches,   \* _breaches: how often each board has been below the threshold
  alerts,     \* the deque
  raised,     \* alerts raised so far; the id of the last one
  verdicts,   \* auxiliary: how each board was judged, its last judgements first
  streak,     \* auxiliary: the polls in a row, up to the last, that judged a board below
  standing    \* auxiliary: what the last poll found, as far as it was not resolved since

engine == <<window, samples, breaches, alerts, raised, verdicts, streak, standing>>

Series == Boards \cup (Trends \X Machines)

NewEngine(size) ==
  /\ window' = size
  /\ samples' = [s \in Series |-> 0]
  /\ breaches' = [b \in Boards |-> 0]
  /\ alerts' = <<>>
  /\ verdicts' = [b \in Boards |-> <<>>]
  /\ streak' = [b \in Boards |-> 0]
  /\ standing' = {}

-----------------------------------------------------------------------------
(* update(), with the thresholds then in force.                            *)

\* One sample more of what answered (a fan each); the oldest falls out of the window.
Fold(answered) ==
  [s \in Series |-> IF s \in answered /\ samples[s] < window THEN samples[s] + 1 ELSE samples[s]]

\* The boards that answered and have enough samples, if there are enough siblings of them.
Judged(thresholds, answered) ==
  LET ready == {b \in Boards \cap answered : Fold(answered)[b] >= thresholds["min_samples"]} IN
  IF Cardinality(ready) >= thresholds["min_siblings"] THEN ready ELSE {}

Below(thresholds, score, b) == score[b] > thresholds["z_alert"]

OneMore(count) == IF count < MaxPersistence THEN count + 1 ELSE count

\* Mutation: a poll within the threshold does not start the count again.
NeverReset(thresholds, judged, score) ==
  [b \in Boards |-> IF b \in judged /\ Below(thresholds, score, b) THEN OneMore(breaches[b]) ELSE breaches[b]]

\* A board that is not judged keeps its count.
Breaches(thresholds, judged, score) ==
  [b \in Boards |-> IF b \notin judged THEN breaches[b]
                    ELSE IF Below(thresholds, score, b) THEN OneMore(breaches[b]) ELSE 0]

BoardAlerts(thresholds, judged, score) ==
  {[metric |-> "hashrate", target |-> b,
    severity |-> IF score[b] > thresholds["z_critical"] THEN "CRITICAL" ELSE "ALERT"] :
     b \in {c \in judged : /\ Below(thresholds, score, c)
                           /\ Breaches(thresholds, judged, score)[c] >= thresholds["persistence"]}}

\* Every trend with enough samples is judged, whether or not its machine answered.
TrendAlerts(thresholds, answered, score) ==
  {[metric |-> trend[1], target |-> trend[2], severity |-> "ALERT"] :
     trend \in {t \in Trends \X Machines :
       /\ Fold(answered)[t] >= TrendSamples
       /\ score[t] > thresholds[IF t[1] = "fan" THEN "fan_temp_alert" ELSE "hw_err_slope_alert"]}}

\* Mutations: whatever is raised is new; an alert is not raised again once resolved.
AlwaysNew(alert) == FALSE
EverRaised(alert) ==
  \E i \in DOMAIN alerts : alerts[i].metric = alert.metric /\ alerts[i].target = alert.target

IsOpen(alert) ==
  \E i \in DOMAIN alerts :
    alerts[i].open /\ alerts[i].metric = alert.metric /\ alerts[i].target = alert.target

\* Those without an open alert for the same thing; the deque drops its oldest entries.
Extend(found) ==
  LET fresh == SetToSeq({alert \in found : ~ IsOpen(alert)})
      numbered == [i \in DOMAIN fresh |->
        [metric |-> fresh[i].metric, target |-> fresh[i].target, severity |-> fresh[i].severity,
         id |-> raised + i, open |-> TRUE]]
      all == alerts \o numbered IN
  /\ raised + Len(fresh) <= MaxRaised
  /\ raised' = raised + Len(fresh)
  /\ alerts' = IF Len(all) > MaxAlerts THEN SubSeq(all, Len(all) - MaxAlerts + 1, Len(all)) ELSE all

\* What came before a judgement within the threshold no longer matters.
Latest(below, history) ==
  IF ~ below THEN <<FALSE>> ELSE SubSeq(<<TRUE>> \o history, 1, Min({MaxPersistence, Len(history) + 1}))

update(thresholds, answered, score) ==
  LET judged == Judged(thresholds, answered)
      found == BoardAlerts(thresholds, judged, score) \cup TrendAlerts(thresholds, answered, score) IN
  /\ samples' = Fold(answered)
  /\ breaches' = Breaches(thresholds, judged, score)
  /\ Extend(found)
  /\ verdicts' = [b \in Boards |-> IF b \in judged
                                   THEN Latest(Below(thresholds, score, b), verdicts[b])
                                   ELSE verdicts[b]]
  /\ streak' = [b \in Boards |-> IF b \in judged /\ Below(thresholds, score, b)
                                 THEN OneMore(streak[b]) ELSE 0]
  /\ standing' = {[metric |-> alert.metric, target |-> alert.target] : alert \in found}
  /\ UNCHANGED window
=============================================================================
