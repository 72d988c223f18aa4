------------------------------- MODULE Console --------------------------------
(***************************************************************************)
(* The agent as the console sees it: an engine that raises alerts by the   *)
(* thresholds of the live configuration, an operator who changes those     *)
(* thresholds and resolves the alerts, whose labels move the thresholds    *)
(* again, and a process that stops and starts from its files.              *)
(*                                                                         *)
(* Polls and requests take turns under AgentState.lock (api.py, agent.py). *)
(***************************************************************************)
EXTENDS Settings, Alerts

CONSTANTS
  Patches,     \* what clients of POST /config send, stale pages and foreign paths included
  Edits        \* what the operator leaves in the file by hand

ASSUME EditsAssumption ==
  \A content \in Edits : DOMAIN content \subseteq Paths /\ content \in [DOMAIN content -> Int]

VARIABLE told   \* auxiliary: what the console was last told is set

vars == <<settings, engine, told>>

Init ==
  /\ file = Null
  /\ live = Null /\ labels = NoLabels /\ stored = Null /\ tokens = 0 /\ edits = 0
  /\ window = 0 /\ samples = [s \in Series |-> 0] /\ breaches = [b \in Boards |-> 0]
  /\ alerts = <<>> /\ raised = 0 /\ verdicts = [b \in Boards |-> <<>>]
  /\ streak = [b \in Boards |-> 0] /\ standing = {}
  /\ told = <<>>

\* build_state: the window is read once, the other thresholds at every poll.  A token
\* that was made is printed; one that was there is known.
Start ==
  /\ StartAgent /\ NewEngine(live'["window"])
  /\ told' = Overriding(told, [api_token |-> live'["api_token"]])
  /\ UNCHANGED raised

StartFails == StartInterrupted /\ UNCHANGED <<engine, told>>

\* The series, the counts and the alerts are in memory only.
EngineGone == NewEngine(0) /\ UNCHANGED raised

Stop == StopAgent /\ EngineGone /\ UNCHANGED told

Poll(answered, score) == Up /\ update(live, answered, score) /\ UNCHANGED <<settings, told>>

Without(paths) == [path \in DOMAIN told \ paths |-> told[path]]

Configure(patch) ==
  /\ Patch(patch)
  /\ told' = Overriding([path \in Applied(patch) |-> patch[path]], told)
  /\ UNCHANGED engine

\* A console without an answer does not know what became of the paths it sent.
ConfigureFails(patch) ==
  /\ \/ PatchUnsaved(patch) /\ UNCHANGED engine
     \/ PatchCrashes(patch) /\ EngineGone
  /\ told' = Without(DOMAIN patch)

EditByHand(content) == HandEdit(content) /\ told' = <<>> /\ UNCHANGED engine

\* Mutation: an alert may be resolved again.
ResolvedAgain(i, id) == alerts[i].id = id

\* POST /feedback: an id that is gone, or an alert already resolved, changes nothing.
Resolvable(i, id) == alerts[i].id = id /\ alerts[i].open

\* The answer names the threshold; it lasts as long as the process.
Resolved(i) ==
  /\ feedback(alerts[i].metric)
  /\ alerts' = [alerts EXCEPT ![i].open = FALSE]
  /\ standing' = standing \ {[metric |-> alerts[i].metric, target |-> alerts[i].target]}
  /\ UNCHANGED <<file, tokens, window, samples, breaches, raised, verdicts, streak>>

Feedback(id) ==
  /\ Up
  /\ \E i \in DOMAIN alerts :
       /\ Resolvable(i, id)
       /\ \/ Resolved(i)
          \/ FeedbackCrashes(alerts[i].metric) /\ EngineGone
       /\ told' = Without({METRIC_TO_THRESHOLD[alerts[i].metric]})

Next ==
  \/ Start \/ StartFails \/ Stop
  \/ \E answered \in SUBSET Series :
       \E score \in [(answered \cap Boards) \cup (Trends \X Machines) -> Scores] : Poll(answered, score)
  \/ \E patch \in Patches : Configure(patch) \/ ConfigureFails(patch)
  \/ \E content \in Edits : EditByHand(content)
  \/ \E id \in 1..raised : Feedback(id)

Spec == Init /\ [][Next]_vars
=============================================================================
