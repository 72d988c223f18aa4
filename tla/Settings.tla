------------------------------ MODULE Settings -------------------------------
(***************************************************************************)
(* The configuration of a running agent and its file, after                *)
(* src/hashguard/config.py, and the thresholds that move with the          *)
(* operator's labels, after src/hashguard/adaptive.py.                     *)
(*                                                                         *)
(* A configuration is a function from paths to values; a file may hold     *)
(* some of the paths only.  Thresholds are counted in half sigmas.  The    *)
(* precision of the alerts is left out: once enough labels are in, the     *)
(* loop may find a threshold too low, too high or right.                   *)
(***************************************************************************)
EXTENDS Integers, FiniteSets, PythonNone

CONSTANTS
  Field,             \* CONSOLE_WRITABLE: path -> [minimum, maximum, default]
  OperatorDefaults,  \* the other paths, with their defaults
  Usable,            \* the values of those that validate() accepts
  Torn,              \* a file that cannot be parsed
  Step, ZMin, ZMax,  \* adaptive.step, z_min, z_max
  MinLabels,         \* MIN_SAMPLES of adaptive.py
  MaxEdits           \* bound: hand edits, crashes and writes that fail

VARIABLES
  file,     \* config.json: Null when there is none, Torn, or what it holds
  live,     \* the configuration of the running process; Null when there is none
  labels,   \* Adaptive.state: how many labels each metric has had
  stored,   \* adaptive_state.json
  tokens,   \* the tokens generated so far
  edits     \* bound

settings == <<file, live, labels, stored, tokens, edits>>

METRIC_TO_THRESHOLD ==
  [hashrate |-> "z_alert", fan |-> "fan_temp_alert", hw_errors |-> "hw_err_slope_alert"]

Metrics == DOMAIN METRIC_TO_THRESHOLD
NoLabels == [metric \in Metrics |-> 0]

CONSOLE_WRITABLE == DOMAIN Field
NoToken == 0

\* _deep_merge of config.py: what override says, and what base says of the other paths.
Overriding(override, base) ==
  [path \in DOMAIN override \cup DOMAIN base |->
     IF path \in DOMAIN override THEN override[path] ELSE base[path]]

default_config ==
  Overriding([path \in CONSOLE_WRITABLE |-> Field[path].default],
             Overriding(OperatorDefaults, [api_token |-> NoToken]))

Paths == DOMAIN default_config

ASSUME KnobsAssumption ==
  /\ \A path \in CONSOLE_WRITABLE :
       Field[path].minimum \in Int /\ Field[path].maximum \in Int /\ Field[path].default \in Int
  /\ {"z_alert", "fan_temp_alert", "hw_err_slope_alert", "window", "persistence", "enabled"}
       \subseteq CONSOLE_WRITABLE
  /\ Field["window"].minimum \in Nat

ASSUME OperatorAssumption ==
  /\ OperatorDefaults \in [DOMAIN OperatorDefaults -> Int]
  /\ DOMAIN OperatorDefaults \cap CONSOLE_WRITABLE = {}
  /\ "api_token" \notin CONSOLE_WRITABLE \cup DOMAIN OperatorDefaults

ASSUME AdaptiveAssumption == Step \in Int /\ ZMin \in Int /\ ZMax \in Int

ASSUME NoFileAssumption == Null \notin [Paths -> Int] /\ Torn # Null

Up == live # Null

-----------------------------------------------------------------------------
(* What the console may set.                                               *)

\* _coerce: a number within the bounds; the rest is refused.
Coerces(path, value) == value \in Field[path].minimum..Field[path].maximum

\* Mutation: any path is taken, the bounded ones within their bounds.
AppliedAnywhere(patch) ==
  {path \in DOMAIN patch : path \in CONSOLE_WRITABLE => Coerces(path, patch[path])}

Applied(patch) ==
  {path \in DOMAIN patch : path \in CONSOLE_WRITABLE /\ Coerces(path, patch[path])}

apply_console_patch(config, patch) == Overriding([path \in Applied(patch) |-> patch[path]], config)

problems(config) ==
  {path \in CONSOLE_WRITABLE : ~ Coerces(path, config[path])}
  \cup {path \in DOMAIN OperatorDefaults : config[path] \notin Usable}

-----------------------------------------------------------------------------
(* Starting: load(), and the label counts.                                 *)

\* Mutation: a file that cannot be read counts as none.
MergedOverNothing ==
  IF file = Null \/ file = Torn THEN default_config ELSE Overriding(file, default_config)

_deep_merge ==
  IF file = Null THEN default_config
  ELSE IF file = Torn THEN Torn ELSE Overriding(file, default_config)

Minted(config) ==
  IF config["api_token"] = NoToken THEN [config EXCEPT !["api_token"] = tokens + 1] ELSE config

\* Mutation: whatever can be parsed is accepted.
AcceptedUnchecked == _deep_merge # Torn

Accepted == _deep_merge # Torn /\ problems(_deep_merge) = {}

\* A configuration that lacks a token is given one and saved; one with problems is refused.
load ==
  /\ Accepted
  /\ live' = Minted(_deep_merge)
  /\ IF live' = _deep_merge
     THEN UNCHANGED <<file, tokens>>
     ELSE file' = live' /\ tokens' = tokens + 1

\* A corrupt state file resets to the prior.
LoadLabels == labels' = IF stored = Null \/ stored = Torn THEN NoLabels ELSE stored

StartAgent ==
  /\ ~ Up
  /\ load /\ LoadLabels
  /\ UNCHANGED <<stored, edits>>

\* What an interrupted write of the file leaves: what was there, nothing whole, or all.
Interrupted(config) == {file, Torn, config}

\* The process dies, or the write fails, while the token is saved.
StartInterrupted ==
  /\ ~ Up /\ edits < MaxEdits
  /\ Accepted /\ Minted(_deep_merge) # _deep_merge
  /\ file' \in Interrupted(Minted(_deep_merge))
  /\ tokens' = tokens + 1 /\ edits' = edits + 1
  /\ UNCHANGED <<live, labels, stored>>

\* What the process held is gone.
Dead == live' = Null /\ labels' = NoLabels

StopAgent == Up /\ Dead /\ UNCHANGED <<file, stored, tokens, edits>>

-----------------------------------------------------------------------------
(* POST /config, and the operator with an editor.                          *)

Saved(patch) == Applied(patch) # {}

Patch(patch) ==
  /\ Up
  /\ live' = apply_console_patch(live, patch)
  /\ file' = IF Saved(patch) THEN live' ELSE file
  /\ UNCHANGED <<labels, stored, tokens, edits>>

\* The save raises: the process goes on with the patch, and the console has no answer.
PatchUnsaved(patch) ==
  /\ Up /\ edits < MaxEdits /\ Saved(patch)
  /\ live' = apply_console_patch(live, patch)
  /\ file' \in Interrupted(live')
  /\ edits' = edits + 1
  /\ UNCHANGED <<labels, stored, tokens>>

PatchCrashes(patch) ==
  /\ Up /\ edits < MaxEdits /\ Saved(patch)
  /\ Dead
  /\ file' \in Interrupted(apply_console_patch(live, patch))
  /\ edits' = edits + 1
  /\ UNCHANGED <<stored, tokens>>

\* The file is edited, or mended, by hand, whether or not the agent runs.
HandEdit(content) ==
  /\ edits < MaxEdits /\ content # file
  /\ file' = content
  /\ edits' = edits + 1
  /\ UNCHANGED <<live, labels, stored, tokens>>

-----------------------------------------------------------------------------
(* Adaptive.feedback: the label is counted, the threshold moves by at most *)
(* a step once there are enough of them, and is clamped in any case.       *)

Clamped(threshold) == IF threshold < ZMin THEN ZMin ELSE IF threshold > ZMax THEN ZMax ELSE threshold

Deltas(metric) == IF labels'[metric] < MinLabels THEN {0} ELSE {-Step, 0, Step}

Relabelled(metric) ==
  LET key == METRIC_TO_THRESHOLD[metric] IN
  /\ labels' = [labels EXCEPT ![metric] = @ + 1]
  /\ \E delta \in Deltas(metric) : live' = [live EXCEPT ![key] = Clamped(@ + delta)]

\* The counts are saved at once, the threshold is not.  _save() goes on without a word if
\* the file cannot be opened or written.
feedback(metric) ==
  \/ /\ live["enabled"] = 0
     /\ UNCHANGED <<live, labels, stored, edits>>
  \/ /\ live["enabled"] # 0
     /\ Relabelled(metric)
     /\ \/ stored' = labels' /\ UNCHANGED edits
        \/ edits < MaxEdits /\ stored' \in {stored, Torn} /\ edits' = edits + 1

\* A crash tears the state file.
FeedbackCrashes(metric) ==
  /\ edits < MaxEdits /\ live["enabled"] = 1
  /\ Dead /\ stored' = Torn
  /\ edits' = edits + 1
  /\ UNCHANGED <<file, tokens>>
=============================================================================
