-------------------------- MODULE ConsoleProperties ---------------------------
(***************************************************************************)
(* What an operator may rely on: settings and token outlive the process,   *)
(* labels count once, and the alerts shown are those the polls justify.    *)
(***************************************************************************)
EXTENDS Console

\* A running configuration has every path and a token; what the console was told is a
\* knob of the console, whatever paths its patches named.
ConsoleTypeOK ==
  /\ Up => DOMAIN live = Paths /\ live["api_token"] # NoToken
  /\ file # Null /\ file # Torn => DOMAIN file \subseteq Paths
  /\ labels \in [Metrics -> Nat]
  /\ window \in Nat /\ samples \in [Series -> Nat]
  /\ breaches \in [Boards -> 0..MaxPersistence] /\ streak \in [Boards -> 0..MaxPersistence]
  /\ Len(alerts) <= MaxAlerts /\ raised \in 0..MaxRaised
  /\ DOMAIN told \subseteq CONSOLE_WRITABLE \cup {"api_token"}

-----------------------------------------------------------------------------
\* What the console was told is set, and the token it was given, is what the agent runs
\* with, after any stop, crash or failed save: a start takes it from the file or is
\* refused.  (Until the operator edits the file, and but for what the labels moved.)
ToldSurvives == Up => \A path \in DOMAIN told : live[path] = told[path]

\* What load() would refuse of the configuration that runs are thresholds that labels moved,
\* whatever was patched, edited by hand or lost on the way.  (Those, feedback() clamps to
\* limits of its own; once a patch has saved one, the next start is refused.)
OnlyLabelsOvershoot ==
  Up => problems(live) \subseteq {METRIC_TO_THRESHOLD[metric] : metric \in {m \in Metrics : labels[m] > 0}}

-----------------------------------------------------------------------------
Labelled(counts) == counts["hashrate"] + counts["fan"] + counts["hw_errors"]

\* However often a label is sent, and whatever a crash or a failed save leaves of the
\* state file, no more labels are counted than alerts were raised.  (Of all metrics
\* together: a label counted twice shows once every alert has been labelled.)
LabelsAreOfAlerts ==
  /\ Labelled(labels) <= raised
  /\ stored # Null /\ stored # Torn => Labelled(stored) <= raised

\* A board or machine has one open alert of a metric at most, whatever was raised,
\* resolved or evicted before.
OneOpenAlert ==
  \A i, j \in DOMAIN alerts :
    /\ alerts[i].open /\ alerts[j].open
    /\ alerts[i].metric = alerts[j].metric /\ alerts[i].target = alerts[j].target
    => i = j

\* A board is raised only after it was below the threshold at each of its last
\* qtmp.persistence judgements, that number being the one then set.  (The code counts
\* judgements; qtmp.py and config.py say polls: PollsAreConsecutive.)
RaisedAfterPersistence ==
  [][\A i \in DOMAIN alerts' :
       alerts'[i].id > raised /\ alerts'[i].metric = "hashrate" =>
         LET history == verdicts'[alerts'[i].target] IN
         /\ Len(history) >= live["persistence"]
         /\ \A k \in 1..live["persistence"] : history[k]]_vars

\* A board that a poll raises was below its siblings for as many consecutive polls as the
\* text of the alert says, qtmp.persistence or more (qtmp.py:33-35, 179, 238-240;
\* config.py:55).  It was not if a poll in between did not reach it, or found too few
\* siblings: update() judges nobody then, and keeps the counts.
PollsAreConsecutive ==
  \A found \in standing :
    found.metric = "hashrate" => breaches[found.target] <= streak[found.target]

\* What the last poll found is open in the list until it is resolved, though alerts were
\* resolved or evicted before: only a list that is full may lack it.
FoundIsShown ==
  Len(alerts) < MaxAlerts =>
    \A found \in standing :
      \E i \in DOMAIN alerts :
        alerts[i].open /\ alerts[i].metric = found.metric /\ alerts[i].target = found.target
=============================================================================
